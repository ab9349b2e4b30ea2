----------------------------- MODULE Index_proofs -----------------------------
(* Proofs about Index and IndexScan.                                          *)
EXTENDS IndexScan, NumberFacts, FiniteSetTheorems, FunctionTheorems,
        SequenceTheorems

(* Nodes and their slots.                                                     *)
SlotTypes == [key : Entries, son : PageIds]
Nodes     == [leaf : BOOLEAN, slots : Seq(SlotTypes), next : PageIds]

Count(n)    == Len(n.slots)
KeyIn(n, i) == n.slots[i].key
SonIn(n, i) == n.slots[i].son

LEMMA EntriesAreNumbers == Entries \subseteq Nat
  <1>1. ASSUME NEW d \in Data, NEW rid \in 1 .. MaxRid - 1 PROVE Key(d, rid) \in Nat
    <2>1. d \in Nat /\ MaxRid + 1 \in Nat /\ rid \in Nat
      BY DataAssumption, MaxRidAssumption
    <2>2. \A a, b \in Nat : a * b \in Nat
      OBVIOUS
    <2> QED
      BY <2>1, <2>2 DEF Key
  <1> QED
    BY <1>1 DEF Entries

LEMMA NodeFacts ==
    ASSUME NEW n \in Nodes
    PROVE  /\ n.leaf \in BOOLEAN /\ n.next \in PageIds
           /\ n.slots \in Seq(SlotTypes)
           /\ Count(n) \in Nat /\ DOMAIN n.slots = 1 .. Count(n)
           /\ \A i \in 1 .. Count(n) :
                 /\ n.slots[i] \in SlotTypes
                 /\ KeyIn(n, i) \in Entries /\ KeyIn(n, i) \in Nat
                 /\ SonIn(n, i) \in PageIds
           /\ n.slots = << >> <=> Count(n) = 0
  <1>1. n.leaf \in BOOLEAN /\ n.next \in PageIds /\ n.slots \in Seq(SlotTypes)
    BY DEF Nodes
  <1>2. Len(n.slots) \in Nat /\ DOMAIN n.slots = 1 .. Len(n.slots)
    BY <1>1, LenProperties
  <1>3. \A i \in 1 .. Len(n.slots) : n.slots[i] \in SlotTypes
    BY <1>1, ElementOfSeq
  <1>4. \A s \in SlotTypes : s.key \in Entries /\ s.key \in Nat /\ s.son \in PageIds
    BY EntriesAreNumbers DEF SlotTypes
  <1>5. n.slots = << >> <=> Len(n.slots) = 0
    BY <1>1, EmptySeq
  <1> QED
    BY <1>1, <1>2, <1>3, <1>4, <1>5, Zenon DEF Count, KeyIn, SonIn

\* The slots of node m are the sequence X, the rest is as in node n.
LEMMA WithSlots ==
    ASSUME NEW n \in Nodes, NEW X \in Seq(SlotTypes), NEW m,
           m = [n EXCEPT !.slots = X]
    PROVE  m \in Nodes /\ m.leaf = n.leaf /\ m.next = n.next /\ m.slots = X
  BY DEF Nodes

\* What InsertSlot does to node n.
Inserted(n, m, i, k, p) ==
    /\ m \in Nodes /\ m.leaf = n.leaf /\ m.next = n.next
    /\ Count(m) = Count(n) + 1
    /\ KeyIn(m, i) = k /\ SonIn(m, i) = p
    /\ \A j \in 1 .. Count(n) :
          /\ j < i => KeyIn(m, j) = KeyIn(n, j) /\ SonIn(m, j) = SonIn(n, j)
          /\ j >= i => KeyIn(m, j + 1) = KeyIn(n, j) /\ SonIn(m, j + 1) = SonIn(n, j)

LEMMA InsertSlotFacts ==
    ASSUME NEW n \in Nodes, NEW i \in 1 .. Count(n) + 1, NEW k \in Entries,
           NEW p \in PageIds
    PROVE  Inserted(n, InsertSlot(n, i, k, p), i, k, p)
  <1> DEFINE s == n.slots
             e == [key |-> k, son |-> p]
  <1>1. s \in Seq(SlotTypes) /\ Len(s) \in Nat /\ i \in 1 .. Len(s) + 1
    BY NodeFacts DEF Count
  <1>2. e \in SlotTypes
    BY DEF SlotTypes
  <1> DEFINE a == SubSeq(s, 1, i - 1)
             b == SubSeq(s, i, Len(s))
             ab == a \o <<e>>
             X == ab \o b
  <1>3. a \in Seq(SlotTypes) /\ Len(a) = i - 1 /\ \A j \in 1 .. i - 1 : a[j] = s[j]
    <2>1. \A j \in 1 .. i - 1 : s[j] \in SlotTypes
      BY <1>1, ElementOfSeq
    <2>2. 1 \in Int /\ i - 1 \in Int /\ (IF 1 <= i - 1 THEN i - 1 - 1 + 1 ELSE 0) = i - 1
          /\ \A j \in 1 .. i - 1 : j \in 1 .. i - 1 - 1 + 1 /\ 1 + j - 1 = j
      BY <1>1
    <2> QED
      BY <2>1, <2>2, SubSeqProperties
  <1>4. b \in Seq(SlotTypes) /\ Len(b) = Len(s) - i + 1
        /\ \A j \in 1 .. Len(s) - i + 1 : b[j] = s[i + j - 1]
    <2>1. \A j \in i .. Len(s) : s[j] \in SlotTypes
      BY <1>1, ElementOfSeq
    <2>2. i \in Int /\ Len(s) \in Int
          /\ (IF i <= Len(s) THEN Len(s) - i + 1 ELSE 0) = Len(s) - i + 1
      BY <1>1
    <2> QED
      BY <2>1, <2>2, SubSeqProperties
  <1>5. <<e>> \in Seq(SlotTypes) /\ Len(<<e>>) = 1 /\ <<e>>[1] = e
    BY <1>2
  <1> HIDE DEF a, b, e, s
  <1>6. /\ ab \in Seq(SlotTypes) /\ Len(ab) = i
        /\ \A j \in 1 .. i : ab[j] = IF j < i THEN s[j] ELSE e
    <2>1. ab \in Seq(SlotTypes) /\ Len(ab) = Len(a) + Len(<<e>>)
          /\ \A j \in 1 .. Len(a) + Len(<<e>>) :
                ab[j] = IF j <= Len(a) THEN a[j] ELSE <<e>>[j - Len(a)]
      BY <1>3, <1>5, ConcatProperties
    <2> HIDE DEF ab
    <2>2. Len(ab) = i
      BY <2>1, <1>3, <1>5, <1>1
    <2>3. ASSUME NEW j \in 1 .. i PROVE ab[j] = IF j < i THEN s[j] ELSE e
      BY <2>1, <1>3, <1>5, <1>1
    <2> QED
      BY <2>1, <2>2, <2>3
  <1> HIDE DEF ab
  <1>7. /\ X \in Seq(SlotTypes) /\ Len(X) = Len(s) + 1
        /\ X[i] = e
        /\ \A j \in 1 .. Len(s) : /\ j < i => X[j] = s[j]
                                  /\ j >= i => X[j + 1] = s[j]
    <2>1. X \in Seq(SlotTypes) /\ Len(X) = Len(ab) + Len(b)
          /\ \A j \in 1 .. Len(ab) + Len(b) :
                X[j] = IF j <= Len(ab) THEN ab[j] ELSE b[j - Len(ab)]
      BY <1>4, <1>6, ConcatProperties
    <2> HIDE DEF X
    <2>2. Len(X) = Len(s) + 1
      BY <2>1, <1>4, <1>6, <1>1
    <2>3. X[i] = e
      BY <2>1, <1>4, <1>6, <1>1
    <2>4. ASSUME NEW j \in 1 .. Len(s), j < i PROVE X[j] = s[j]
      BY <2>1, <2>4, <1>4, <1>6, <1>1
    <2>5. ASSUME NEW j \in 1 .. Len(s), j >= i PROVE X[j + 1] = s[j]
      <3>1. X[j + 1] = b[j + 1 - i]
        BY <2>1, <2>5, <1>4, <1>6, <1>1
      <3>2. j + 1 - i \in 1 .. Len(s) - i + 1 /\ i + (j + 1 - i) - 1 = j
        BY <2>5, <1>1
      <3> QED
        BY <3>1, <3>2, <1>4
    <2> QED
      BY <2>1, <2>2, <2>3, <2>4, <2>5
  <1>8. InsertSlot(n, i, k, p) = [n EXCEPT !.slots = X]
    BY DEF InsertSlot, InsertAt, X, ab, a, b, e, s
  <1> HIDE DEF X
  <1>m. PICK m : m = InsertSlot(n, i, k, p)
    OBVIOUS
  <1>9. m \in Nodes /\ m.leaf = n.leaf /\ m.next = n.next /\ m.slots = X
    BY <1>m, <1>7, <1>8, WithSlots
  <1>10. e.key = k /\ e.son = p
    BY DEF e
  <1> QED
    BY <1>m, <1>7, <1>9, <1>10, Zenon DEF Inserted, Count, KeyIn, SonIn, s

\* What RemoveSlot does to node n.
Removed(n, m, i) ==
    /\ m \in Nodes /\ m.leaf = n.leaf /\ m.next = n.next
    /\ Count(m) = Count(n) - 1
    /\ \A j \in 1 .. Count(n) - 1 :
          /\ j < i => KeyIn(m, j) = KeyIn(n, j) /\ SonIn(m, j) = SonIn(n, j)
          /\ j >= i => KeyIn(m, j) = KeyIn(n, j + 1) /\ SonIn(m, j) = SonIn(n, j + 1)

LEMMA RemoveSlotFacts ==
    ASSUME NEW n \in Nodes, NEW i \in 1 .. Count(n)
    PROVE  Removed(n, RemoveSlot(n, i), i)
  <1> DEFINE s == n.slots
  <1>1. s \in Seq(SlotTypes) /\ Len(s) \in Nat /\ i \in 1 .. Len(s)
    BY NodeFacts DEF Count
  <1> DEFINE a == SubSeq(s, 1, i - 1)
             b == SubSeq(s, i + 1, Len(s))
             X == a \o b
  <1>3. a \in Seq(SlotTypes) /\ Len(a) = i - 1 /\ \A j \in 1 .. i - 1 : a[j] = s[j]
    <2>1. \A j \in 1 .. i - 1 : s[j] \in SlotTypes
      BY <1>1, ElementOfSeq
    <2>2. 1 \in Int /\ i - 1 \in Int /\ (IF 1 <= i - 1 THEN i - 1 - 1 + 1 ELSE 0) = i - 1
          /\ \A j \in 1 .. i - 1 : j \in 1 .. i - 1 - 1 + 1 /\ 1 + j - 1 = j
      BY <1>1
    <2> QED
      BY <2>1, <2>2, SubSeqProperties
  <1>4. b \in Seq(SlotTypes) /\ Len(b) = Len(s) - i
        /\ \A j \in 1 .. Len(s) - i : b[j] = s[i + j]
    <2>1. \A j \in i + 1 .. Len(s) : s[j] \in SlotTypes
      BY <1>1, ElementOfSeq
    <2>2. i + 1 \in Int /\ Len(s) \in Int
          /\ (IF i + 1 <= Len(s) THEN Len(s) - (i + 1) + 1 ELSE 0) = Len(s) - i
          /\ \A j \in 1 .. Len(s) - i : j \in 1 .. Len(s) - (i + 1) + 1 /\ (i + 1) + j - 1 = i + j
      BY <1>1
    <2> QED
      BY <2>1, <2>2, SubSeqProperties
  <1> HIDE DEF a, b, s
  <1>7. /\ X \in Seq(SlotTypes) /\ Len(X) = Len(s) - 1
        /\ \A j \in 1 .. Len(s) - 1 : /\ j < i => X[j] = s[j]
                                      /\ j >= i => X[j] = s[j + 1]
    <2>1. X \in Seq(SlotTypes) /\ Len(X) = Len(a) + Len(b)
          /\ \A j \in 1 .. Len(a) + Len(b) :
                X[j] = IF j <= Len(a) THEN a[j] ELSE b[j - Len(a)]
      BY <1>3, <1>4, ConcatProperties
    <2> HIDE DEF X
    <2>2. Len(X) = Len(s) - 1
      BY <2>1, <1>3, <1>4, <1>1
    <2>4. ASSUME NEW j \in 1 .. Len(s) - 1, j < i PROVE X[j] = s[j]
      <3>1. j \in 1 .. Len(a) + Len(b) /\ j <= Len(a) /\ j \in 1 .. i - 1
        BY <2>4, <1>3, <1>4, <1>1
      <3> QED
        BY <3>1, <2>1, <1>3, Zenon
    <2>5. ASSUME NEW j \in 1 .. Len(s) - 1, j >= i PROVE X[j] = s[j + 1]
      <3>1. X[j] = b[j + 1 - i]
        <4>1. j \in 1 .. Len(a) + Len(b) /\ ~(j <= Len(a)) /\ j - Len(a) = j + 1 - i
          BY <2>5, <1>3, <1>4, <1>1
        <4> QED
          BY <4>1, <2>1, Zenon
      <3>2. j + 1 - i \in 1 .. Len(s) - i /\ i + (j + 1 - i) = j + 1
        BY <2>5, <1>1
      <3> QED
        BY <3>1, <3>2, <1>4
    <2> QED
      BY <2>1, <2>2, <2>4, <2>5
  <1>8. RemoveSlot(n, i) = [n EXCEPT !.slots = X]
    BY DEF RemoveSlot, RemoveAt, X, a, b, s
  <1> HIDE DEF X
  <1>m. PICK m : m = RemoveSlot(n, i)
    OBVIOUS
  <1>9. m \in Nodes /\ m.leaf = n.leaf /\ m.next = n.next /\ m.slots = X
    BY <1>m, <1>7, <1>8, WithSlots
  <1> QED
    BY <1>m, <1>7, <1>9, Zenon DEF Removed, Count, KeyIn, SonIn, s

\* Node m is node n with key k in slot i.
WithKey(n, m, i, k) ==
    /\ m \in Nodes /\ m.leaf = n.leaf /\ m.next = n.next
    /\ Count(m) = Count(n)
    /\ KeyIn(m, i) = k /\ SonIn(m, i) = SonIn(n, i)
    /\ \A j \in 1 .. Count(n) : /\ j # i => KeyIn(m, j) = KeyIn(n, j)
                                /\ SonIn(m, j) = SonIn(n, j)

LEMMA WithKeyFacts ==
    ASSUME NEW n \in Nodes, NEW i \in 1 .. Count(n), NEW k \in Entries
    PROVE  WithKey(n, [n EXCEPT !.slots[i].key = k], i, k)
  <1>1. /\ n.slots \in Seq(SlotTypes) /\ Len(n.slots) \in Nat /\ i \in 1 .. Len(n.slots)
        /\ \A j \in 1 .. Len(n.slots) : n.slots[j] \in SlotTypes
    BY NodeFacts DEF Count
  <1>e. PICK e : e = [n.slots[i] EXCEPT !.key = k]
    OBVIOUS
  <1>2. e \in SlotTypes /\ e.key = k /\ e.son = n.slots[i].son
    BY <1>1, <1>e DEF SlotTypes
  <1>x. PICK X : X = [n.slots EXCEPT ![i] = e]
    OBVIOUS
  <1>3. X \in Seq(SlotTypes) /\ Len(X) = Len(n.slots)
        /\ \A j \in 1 .. Len(n.slots) : X[j] = IF j = i THEN e ELSE n.slots[j]
    BY <1>1, <1>2, <1>x, ExceptSeq
  <1>m. PICK m : m = [n EXCEPT !.slots[i].key = k]
    OBVIOUS
  <1>4. m = [n EXCEPT !.slots = X]
    BY <1>m, <1>x, <1>e
  <1>5. m \in Nodes /\ m.leaf = n.leaf /\ m.next = n.next /\ m.slots = X
    BY <1>3, <1>4, WithSlots
  <1>6. KeyIn(m, i) = k /\ SonIn(m, i) = SonIn(n, i)
    BY <1>1, <1>2, <1>3, <1>5 DEF KeyIn, SonIn
  <1>7. ASSUME NEW j \in 1 .. Count(n)
        PROVE  /\ j # i => KeyIn(m, j) = KeyIn(n, j)
               /\ SonIn(m, j) = SonIn(n, j)
    BY <1>1, <1>2, <1>3, <1>5, Zenon DEF KeyIn, SonIn, Count
  <1> QED
    BY <1>m, <1>3, <1>5, <1>6, <1>7, Zenon DEF WithKey, Count

\* Node m has the slots a to b of node n.
PartOf(n, m, a, b) ==
    /\ m \in Nodes /\ m.leaf = n.leaf
    /\ Count(m) = b - a + 1
    /\ \A j \in 1 .. b - a + 1 : /\ KeyIn(m, j) = KeyIn(n, a + j - 1)
                                 /\ SonIn(m, j) = SonIn(n, a + j - 1)

LEMMA PartFacts ==
    ASSUME NEW n \in Nodes, NEW a \in Nat, NEW b \in Nat,
           1 <= a, a <= b, b <= Count(n)
    PROVE  /\ SubSeq(n.slots, a, b) \in Seq(SlotTypes)
           /\ Len(SubSeq(n.slots, a, b)) = b - a + 1
           /\ \A j \in 1 .. b - a + 1 : SubSeq(n.slots, a, b)[j] = n.slots[a + j - 1]
  <1>1. \A j \in a .. b : n.slots[j] \in SlotTypes
    BY NodeFacts
  <1>2. a \in Int /\ b \in Int /\ (IF a <= b THEN b - a + 1 ELSE 0) = b - a + 1
    OBVIOUS
  <1> QED
    BY <1>1, <1>2, SubSeqProperties

LEMMA HalfFacts ==
    ASSUME NEW n \in Nodes, NEW o \in PageIds, Count(n) >= 2
    PROVE  /\ Half(n) \in Nat /\ 1 <= Half(n) /\ Half(n) < Count(n)
           /\ Half(n) = Count(n) \div 2
           /\ PartOf(n, LeftHalf(n, o), 1, Half(n)) /\ LeftHalf(n, o).next = o
           /\ PartOf(n, RightHalf(n), Half(n) + 1, Count(n))
           /\ RightHalf(n).next = n.next
  <1>c. PICK c : c = Count(n)
    OBVIOUS
  <1>h. PICK h : h = Half(n)
    OBVIOUS
  <1>1. c \in Nat /\ c >= 2 /\ c = Len(n.slots) /\ h = c \div 2
    BY <1>c, <1>h, NodeFacts DEF Count, Half
  <1>2. h \in Nat /\ 1 <= h /\ h < c
    <2>1. \A x \in Nat : x >= 2 => x \div 2 \in Nat /\ 1 <= x \div 2 /\ x \div 2 < x
      OBVIOUS
    <2> QED
      BY <1>1, <2>1
  <1>3. PICK X : X = SubSeq(n.slots, 1, h)
    OBVIOUS
  <1>4. X \in Seq(SlotTypes) /\ Len(X) = h /\ \A j \in 1 .. h : X[j] = n.slots[j]
    <2>1. 1 \in Nat /\ 1 <= 1 /\ h <= c /\ h - 1 + 1 = h
          /\ \A j \in 1 .. h : 1 + j - 1 = j
      <3>1. c \in Nat
        BY <1>1
      <3> QED
        BY <1>2, <3>1
    <2>2. /\ SubSeq(n.slots, 1, h) \in Seq(SlotTypes)
          /\ Len(SubSeq(n.slots, 1, h)) = h - 1 + 1
          /\ \A j \in 1 .. h - 1 + 1 : SubSeq(n.slots, 1, h)[j] = n.slots[1 + j - 1]
      BY <1>2, <1>c, <2>1, PartFacts
    <2> QED
      BY <1>3, <2>1, <2>2, Zenon
  <1>5. PICK Y : Y = SubSeq(n.slots, h + 1, c)
    OBVIOUS
  <1>6. Y \in Seq(SlotTypes) /\ Len(Y) = c - h /\ \A j \in 1 .. c - h : Y[j] = n.slots[h + j]
    <2>1. h + 1 \in Nat /\ 1 <= h + 1 /\ h + 1 <= c /\ c <= c /\ c - (h + 1) + 1 = c - h
          /\ \A j \in 1 .. c - h : (h + 1) + j - 1 = h + j
      <3>1. c \in Nat
        BY <1>1
      <3> QED
        BY <1>2, <3>1
    <2>2. /\ SubSeq(n.slots, h + 1, c) \in Seq(SlotTypes)
          /\ Len(SubSeq(n.slots, h + 1, c)) = c - (h + 1) + 1
          /\ \A j \in 1 .. c - (h + 1) + 1 :
                SubSeq(n.slots, h + 1, c)[j] = n.slots[(h + 1) + j - 1]
      <3>1. c \in Nat
        BY <1>1
      <3> QED
        BY <1>c, <2>1, <3>1, PartFacts
    <2> QED
      BY <1>5, <2>1, <2>2, Zenon
  <1>7. LeftHalf(n, o) = [n EXCEPT !.slots = X, !.next = o]
    BY <1>3, <1>h DEF LeftHalf
  <1>8. RightHalf(n) = [n EXCEPT !.slots = Y]
    BY <1>1, <1>5, <1>h DEF RightHalf
  <1>l. PICK m : m = LeftHalf(n, o)
    OBVIOUS
  <1>r. PICK r : r = RightHalf(n)
    OBVIOUS
  <1>9. m \in Nodes /\ m.leaf = n.leaf /\ m.next = o /\ m.slots = X
    <2>1. m = [n EXCEPT !.slots = X, !.next = o]
      BY <1>7, <1>l
    <2> QED
      BY <1>4, <2>1 DEF Nodes
  <1>10. r \in Nodes /\ r.leaf = n.leaf /\ r.next = n.next /\ r.slots = Y
    BY <1>6, <1>8, <1>r, WithSlots
  <1>11. PartOf(n, m, 1, h)
    <2>1. h - 1 + 1 = h /\ \A j \in 1 .. h : 1 + j - 1 = j
      BY <1>2
    <2> QED
      BY <2>1, <1>4, <1>9, Zenon DEF PartOf, Count, KeyIn, SonIn
  <1>12. PartOf(n, r, h + 1, c)
    <2>1. c - (h + 1) + 1 = c - h /\ \A j \in 1 .. c - h : (h + 1) + j - 1 = h + j
      <3>1. c \in Nat
        BY <1>1
      <3> QED
        BY <1>2, <3>1
    <2> QED
      BY <2>1, <1>6, <1>10, Zenon DEF PartOf, Count, KeyIn, SonIn
  <1> QED
    BY <1>c, <1>h, <1>l, <1>r, <1>1, <1>2, <1>9, <1>10, <1>11, <1>12, Zenon

LEMMA PartNode ==
    ASSUME NEW n \in Nodes, NEW m \in Nodes, m.leaf = n.leaf,
           NEW a \in Nat, NEW b \in Nat, 1 <= a, a <= b, b <= Count(n),
           m.slots = SubSeq(n.slots, a, b)
    PROVE  PartOf(n, m, a, b)
  <1>1. /\ Len(m.slots) = b - a + 1
        /\ \A j \in 1 .. b - a + 1 : m.slots[j] = n.slots[a + j - 1]
    BY PartFacts
  <1> QED
    BY <1>1, Zenon DEF PartOf, Count, KeyIn, SonIn

\* Node m has the slots of node l and then those of node r.
Joined(l, r, m) ==
    /\ m \in Nodes /\ m.leaf = l.leaf /\ m.next = r.next
    /\ Count(m) = Count(l) + Count(r)
    /\ \A j \in 1 .. Count(l) : KeyIn(m, j) = KeyIn(l, j) /\ SonIn(m, j) = SonIn(l, j)
    /\ \A j \in 1 .. Count(r) : /\ KeyIn(m, Count(l) + j) = KeyIn(r, j)
                                /\ SonIn(m, Count(l) + j) = SonIn(r, j)

LEMMA MergedFacts ==
    ASSUME NEW l \in Nodes, NEW r \in Nodes
    PROVE  Joined(l, r, Merged(l, r))
  <1>1. /\ l.slots \in Seq(SlotTypes) /\ r.slots \in Seq(SlotTypes) /\ r.next \in PageIds
        /\ Len(l.slots) \in Nat /\ Len(r.slots) \in Nat
    BY NodeFacts DEF Count
  <1>0. Len(l.slots) \in Nat /\ Len(r.slots) \in Nat
    BY <1>1
  <1>2. PICK X : X = l.slots \o r.slots
    OBVIOUS
  <1>3. /\ X \in Seq(SlotTypes) /\ Len(X) = Len(l.slots) + Len(r.slots)
        /\ \A i \in 1 .. Len(l.slots) + Len(r.slots) :
              X[i] = IF i <= Len(l.slots) THEN l.slots[i] ELSE r.slots[i - Len(l.slots)]
    BY <1>1, <1>2, ConcatProperties
  <1>m. PICK m : m = Merged(l, r)
    OBVIOUS
  <1>4. m = [l EXCEPT !.slots = X, !.next = r.next]
    BY <1>2, <1>m DEF Merged
  <1>5. m \in Nodes /\ m.leaf = l.leaf /\ m.next = r.next /\ m.slots = X
    BY <1>1, <1>3, <1>4 DEF Nodes
  <1>6. ASSUME NEW j \in 1 .. Len(l.slots) PROVE X[j] = l.slots[j]
    <2>1. j \in 1 .. Len(l.slots) + Len(r.slots) /\ j <= Len(l.slots)
      <3>1. \A a, b \in Nat : \A i \in 1 .. a : i \in 1 .. a + b /\ i <= a
        OBVIOUS
      <3> QED
        BY <1>0, <3>1, Zenon
    <2> QED
      BY <1>3, <2>1, Zenon
  <1>7. ASSUME NEW j \in 1 .. Len(r.slots) PROVE X[Len(l.slots) + j] = r.slots[j]
    <2>1. /\ Len(l.slots) + j \in 1 .. Len(l.slots) + Len(r.slots)
          /\ ~(Len(l.slots) + j <= Len(l.slots)) /\ (Len(l.slots) + j) - Len(l.slots) = j
      <3>1. \A a, b \in Nat : \A i \in 1 .. b :
               a + i \in 1 .. a + b /\ ~(a + i <= a) /\ (a + i) - a = i
        OBVIOUS
      <3> QED
        BY <1>0, <3>1, Zenon
    <2> QED
      BY <1>3, <2>1, Zenon
  <1> QED
    BY <1>m, <1>3, <1>5, <1>6, <1>7, Zenon DEF Joined, Count, KeyIn, SonIn

LEMMA AveragedFacts ==
    ASSUME NEW l \in Nodes, NEW r \in Nodes, l.leaf = r.leaf,
           Count(l) + Count(r) >= 2, NEW m, m = Merged(l, r)
    PROVE  /\ Count(m) = Count(l) + Count(r)
           /\ AverageSize(l, r) \in Nat /\ 1 <= AverageSize(l, r)
           /\ AverageSize(l, r) < Count(m) /\ AverageSize(l, r) = Count(m) \div 2
           /\ PartOf(m, AveragedLeft(l, r), 1, AverageSize(l, r))
           /\ AveragedLeft(l, r).next = l.next
           /\ PartOf(m, AveragedRight(l, r), AverageSize(l, r) + 1, Count(m))
           /\ AveragedRight(l, r).next = r.next
  <1>1. /\ m \in Nodes /\ m.leaf = l.leaf /\ Count(m) = Count(l) + Count(r)
        /\ m.slots = l.slots \o r.slots
    <2>1. Joined(l, r, m)
      BY MergedFacts
    <2>2. m.slots = l.slots \o r.slots
      BY DEF Merged, Nodes
    <2> QED
      BY <2>1, <2>2 DEF Joined
  <1>c. PICK c : c = Count(m)
    OBVIOUS
  <1>h. PICK h : h = AverageSize(l, r)
    OBVIOUS
  <1>2. c \in Nat /\ c >= 2
    BY <1>1, <1>c, NodeFacts
  <1>3. h = c \div 2
    BY <1>1, <1>c, <1>h DEF AverageSize, Count
  <1>4. h \in Nat /\ 1 <= h /\ h < c /\ h <= c /\ h + 1 \in Nat /\ 1 <= h + 1 /\ h + 1 <= c
    <2>1. \A x \in Nat : x >= 2 => x \div 2 \in Nat /\ 1 <= x \div 2 /\ x \div 2 < x
      OBVIOUS
    <2> QED
      BY <1>2, <1>3, <2>1
  <1>5. AveragedLeft(l, r) = [l EXCEPT !.slots = SubSeq(m.slots, 1, h)]
    BY <1>1, <1>h DEF AveragedLeft
  <1>6. AveragedRight(l, r) = [r EXCEPT !.slots = SubSeq(m.slots, h + 1, c)]
    BY <1>1, <1>h, <1>c DEF AveragedRight, Count
  <1>7. PartOf(m, AveragedLeft(l, r), 1, h) /\ AveragedLeft(l, r).next = l.next
    <2>1. PICK a : a = AveragedLeft(l, r)
      OBVIOUS
    <2>2. a = [l EXCEPT !.slots = SubSeq(m.slots, 1, h)]
      BY <1>5, <2>1
    <2>3. PartOf(m, a, 1, h) /\ a.next = l.next
      <3>1. 1 \in Nat /\ 1 <= 1 /\ h <= Count(m)
        BY <1>4, <1>c
      <3>2. /\ SubSeq(m.slots, 1, h) \in Seq(SlotTypes)
        BY <1>1, <1>4, <3>1, PartFacts
      <3>3. a \in Nodes /\ a.leaf = l.leaf /\ a.slots = SubSeq(m.slots, 1, h) /\ a.next = l.next
        BY <2>2, <3>2 DEF Nodes
      <3> QED
        BY <1>1, <1>4, <3>1, <3>3, PartNode, Zenon
    <2> QED
      BY <2>1, <2>3
  <1>8. PartOf(m, AveragedRight(l, r), h + 1, c) /\ AveragedRight(l, r).next = r.next
    <2>1. PICK a : a = AveragedRight(l, r)
      OBVIOUS
    <2>2. a = [r EXCEPT !.slots = SubSeq(m.slots, h + 1, c)]
      BY <1>6, <2>1
    <2>3. PartOf(m, a, h + 1, c) /\ a.next = r.next
      <3>1. c <= Count(m)
        BY <1>2, <1>c
      <3>2. /\ SubSeq(m.slots, h + 1, c) \in Seq(SlotTypes)
        BY <1>1, <1>2, <1>4, <3>1, PartFacts
      <3>3. a \in Nodes /\ a.leaf = r.leaf /\ a.slots = SubSeq(m.slots, h + 1, c) /\ a.next = r.next
        BY <2>2, <3>2 DEF Nodes
      <3> QED
        BY <1>1, <1>2, <1>4, <3>1, <3>3, PartNode, Zenon
    <2> QED
      BY <2>1, <2>3
  <1> QED
    BY <1>1, <1>2, <1>3, <1>4, <1>7, <1>8, <1>c, <1>h
-----------------------------------------------------------------------------
(* Searching in a node.                                                       *)

\* The keys of a node increase.
Increasing(n) ==
    \A i, j \in 1 .. Count(n) : i < j => KeyIn(n, i) < KeyIn(n, j)

LEMMA LowerBoundFacts ==
    ASSUME NEW n \in Nodes, NEW k \in Nat
    PROVE  /\ LowerBound(n, k) \in 1 .. Count(n) + 1
           /\ \A j \in 1 .. Count(n) : j < LowerBound(n, k) => KeyIn(n, j) < k
           /\ LowerBound(n, k) <= Count(n) => KeyIn(n, LowerBound(n, k)) >= k
  <1> DEFINE s == {i \in DOMAIN n.slots : n.slots[i].key >= k}
  <1>1. s = {i \in 1 .. Count(n) : KeyIn(n, i) >= k}
    BY NodeFacts DEF KeyIn
  <1>2. Count(n) \in Nat /\ \A i \in 1 .. Count(n) : KeyIn(n, i) \in Nat
    BY NodeFacts
  <1>3. LowerBound(n, k) = IF s = {} THEN Count(n) + 1 ELSE Min(s)
    BY DEF LowerBound, Count
  <1> HIDE DEF s
  <1>4. CASE s = {}
    BY <1>1, <1>2, <1>3, <1>4
  <1>5. CASE s # {}
    <2>1. Min(s) \in s /\ \A y \in s : Min(s) <= y
      <3>1. s \in SUBSET Nat
        BY <1>1, <1>2
      <3> QED
        BY <1>5, <3>1, MinNumber
    <2>2. PICK b : b = Min(s)
      OBVIOUS
    <2> QED
      BY <1>1, <1>2, <1>3, <1>5, <2>1, <2>2
  <1> QED
    BY <1>4, <1>5

\* Where the entry k of a node is.
LEMMA LowerBoundFinds ==
    ASSUME NEW n \in Nodes, Increasing(n), NEW i \in 1 .. Count(n)
    PROVE  LowerBound(n, KeyIn(n, i)) = i
  <1>1. Count(n) \in Nat /\ \A j \in 1 .. Count(n) : KeyIn(n, j) \in Nat
    BY NodeFacts
  <1>b. PICK b : b = LowerBound(n, KeyIn(n, i))
    OBVIOUS
  <1>2. /\ b \in 1 .. Count(n) + 1
        /\ \A j \in 1 .. Count(n) : j < b => KeyIn(n, j) < KeyIn(n, i)
        /\ b <= Count(n) => KeyIn(n, b) >= KeyIn(n, i)
    BY <1>1, <1>b, LowerBoundFacts
  <1>3. ~(i < b)
    BY <1>1, <1>2
  <1>4. ~(b < i)
    BY <1>1, <1>2 DEF Increasing
  <1> QED
    BY <1>1, <1>b, <1>2, <1>3, <1>4

LEMMA SonPosFacts ==
    ASSUME NEW n \in Nodes, Increasing(n), NEW k \in Nat, Count(n) > 0
    PROVE  /\ SonPos(n, k) \in 1 .. Count(n)
           /\ \A j \in 1 .. Count(n) : j > SonPos(n, k) => k < KeyIn(n, j)
           /\ SonPos(n, k) = 1 \/ KeyIn(n, SonPos(n, k)) <= k
           /\ Son(n, k) = SonIn(n, SonPos(n, k))
  <1> DEFINE s == {i \in DOMAIN n.slots : n.slots[i].key > k}
  <1>1. s = {i \in 1 .. Count(n) : KeyIn(n, i) > k}
    BY NodeFacts DEF KeyIn
  <1>2. Count(n) \in Nat /\ \A i \in 1 .. Count(n) : KeyIn(n, i) \in Nat
    BY NodeFacts
  <1>u. PICK u : u = UpperBound(n, k)
    OBVIOUS
  <1>3. u = IF s = {} THEN Count(n) + 1 ELSE Min(s)
    BY <1>u DEF UpperBound, Count
  <1> HIDE DEF s
  <1>4. /\ u \in 1 .. Count(n) + 1
        /\ \A j \in 1 .. Count(n) : j < u => KeyIn(n, j) <= k
        /\ u <= Count(n) => KeyIn(n, u) > k
    <2>1. CASE s = {}
      BY <1>1, <1>2, <1>3, <2>1
    <2>2. CASE s # {}
      <3>1. Min(s) \in s /\ \A y \in s : Min(s) <= y
        <4>1. s \in SUBSET Nat
          BY <1>1, <1>2
        <4> QED
          BY <2>2, <4>1, MinNumber
      <3>2. PICK b : b = Min(s)
        OBVIOUS
      <3> QED
        BY <1>1, <1>2, <1>3, <2>2, <3>1, <3>2
    <2> QED
      BY <2>1, <2>2
  <1>p. PICK p : p = SonPos(n, k)
    OBVIOUS
  <1>5. p = IF u > 1 THEN u - 1 ELSE 1
    <2>1. p = Max({1, u - 1})
      BY <1>p, <1>u DEF SonPos
    <2>2. p \in {1, u - 1} /\ \A y \in {1, u - 1} : p >= y
      <3>1. \E x \in {1, u - 1} : \A y \in {1, u - 1} : x >= y
        BY <1>2, <1>4
      <3> QED
        BY <2>1, <3>1 DEF Max
    <2> QED
      BY <1>2, <1>4, <2>2
  <1>6. p \in 1 .. Count(n)
    BY <1>2, <1>4, <1>5
  <1>7. ASSUME NEW j \in 1 .. Count(n), j > p PROVE k < KeyIn(n, j)
    <2>1. u <= j
      BY <1>2, <1>4, <1>5, <1>6, <1>7
    <2>2. k < KeyIn(n, u) /\ u \in 1 .. Count(n)
      BY <1>2, <1>4, <2>1
    <2> QED
      BY <1>2, <2>1, <2>2 DEF Increasing
  <1>8. p = 1 \/ KeyIn(n, p) <= k
    BY <1>2, <1>4, <1>5, <1>6
  <1> QED
    BY <1>p, <1>6, <1>7, <1>8 DEF Son, SonIn
-----------------------------------------------------------------------------
(* Nodes as sets of slots.                                                    *)
Slots(n) == {n.slots[i] : i \in 1 .. Count(n)}
Keys(n)  == {e.key : e \in Slots(n)}
Least(n) == KeyIn(n, 1)

\* All keys of m are less than all keys of n.
LeftOf(m, n) == \A x \in Keys(m), y \in Keys(n) : x < y

LEMMA SameSlot ==
    ASSUME NEW a \in SlotTypes, NEW b \in SlotTypes, a.key = b.key, a.son = b.son
    PROVE  a = b
  BY DEF SlotTypes

LEMMA SlotSets ==
    ASSUME NEW n \in Nodes
    PROVE  /\ Slots(n) \subseteq SlotTypes
           /\ \A e \in Slots(n) : /\ e.key \in Entries /\ e.key \in Nat /\ e.son \in PageIds
                                  /\ e.key \in Keys(n)
                                  /\ \E i \in 1 .. Count(n) :
                                        e = n.slots[i] /\ e.key = KeyIn(n, i) /\ e.son = SonIn(n, i)
           /\ \A i \in 1 .. Count(n) : n.slots[i] \in Slots(n) /\ KeyIn(n, i) \in Keys(n)
           /\ Keys(n) \subseteq Nat
           /\ Count(n) = 0 <=> Slots(n) = {}
           /\ Count(n) \in Nat
  <1>1. Slots(n) \subseteq SlotTypes
    BY NodeFacts, Zenon DEF Slots
  <1>2. ASSUME NEW e \in Slots(n)
        PROVE  /\ e.key \in Entries /\ e.key \in Nat /\ e.son \in PageIds
               /\ e.key \in Keys(n)
               /\ \E i \in 1 .. Count(n) :
                     e = n.slots[i] /\ e.key = KeyIn(n, i) /\ e.son = SonIn(n, i)
    <2>1. PICK i \in 1 .. Count(n) : e = n.slots[i]
      BY Zenon DEF Slots
    <2>2. e.key = KeyIn(n, i) /\ e.son = SonIn(n, i)
      BY <2>1, Zenon DEF KeyIn, SonIn
    <2>3. e.key \in Keys(n)
      BY Zenon DEF Keys
    <2> QED
      BY <2>1, <2>2, <2>3, NodeFacts, Zenon
  <1>3. ASSUME NEW i \in 1 .. Count(n) PROVE n.slots[i] \in Slots(n) /\ KeyIn(n, i) \in Keys(n)
    BY Zenon DEF Slots, Keys, KeyIn
  <1>4. Keys(n) \subseteq Nat
    BY <1>2, Zenon DEF Keys
  <1>5. Count(n) \in Nat
    BY NodeFacts
  <1>6. Count(n) = 0 <=> Slots(n) = {}
    <2>1. CASE Count(n) = 0
      BY <1>2, <2>1
    <2>2. CASE Count(n) # 0
      <3>1. 1 \in 1 .. Count(n)
        BY <1>5, <2>2
      <3> QED
        BY <1>3, <2>2, <3>1
    <2> QED
      BY <2>1, <2>2
  <1> QED
    BY <1>1, <1>2, <1>3, <1>4, <1>5, <1>6, Zenon

LEMMA LeastFacts ==
    ASSUME NEW n \in Nodes, Increasing(n), Slots(n) # {}
    PROVE  /\ Least(n) \in Keys(n) /\ Least(n) \in Nat /\ Least(n) \in Entries
           /\ \A k \in Keys(n) : Least(n) <= k
           /\ \E e \in Slots(n) : e.key = Least(n)
  <1>1. Count(n) \in Nat /\ Count(n) > 0 /\ 1 \in 1 .. Count(n)
    BY SlotSets
  <1>2. KeyIn(n, 1) \in Keys(n) /\ KeyIn(n, 1) \in Nat /\ KeyIn(n, 1) \in Entries
    BY <1>1, SlotSets, NodeFacts, Zenon
  <1>3. ASSUME NEW k \in Keys(n) PROVE KeyIn(n, 1) <= k
    <2>1. PICK e \in Slots(n) : e.key = k
      BY Zenon DEF Keys
    <2>2. PICK i \in 1 .. Count(n) : k = KeyIn(n, i)
      BY <2>1, SlotSets, Zenon
    <2>3. k \in Nat
      BY SlotSets
    <2>4. CASE i = 1
      BY <1>2, <2>2, <2>4
    <2>5. CASE i # 1
      <3>1. 1 < i
        BY <1>1, <2>5
      <3>2. KeyIn(n, 1) < KeyIn(n, i)
        BY <1>1, <3>1, Zenon DEF Increasing
      <3> QED
        BY <1>2, <2>2, <2>3, <3>2
    <2> QED
      BY <2>4, <2>5
  <1>4. \E e \in Slots(n) : e.key = KeyIn(n, 1)
    BY <1>2, Zenon DEF Keys
  <1> QED
    BY <1>2, <1>3, <1>4, Zenon DEF Least

LEMMA SlotsApart ==
    ASSUME NEW n \in Nodes, Increasing(n), NEW e \in Slots(n), NEW f \in Slots(n),
           e.key = f.key
    PROVE  e = f
  <1>1. PICK i \in 1 .. Count(n) : e = n.slots[i] /\ e.key = KeyIn(n, i)
    BY SlotSets, Zenon
  <1>2. PICK j \in 1 .. Count(n) : f = n.slots[j] /\ f.key = KeyIn(n, j)
    BY SlotSets, Zenon
  <1>3. Count(n) \in Nat /\ e.key \in Nat
    BY SlotSets
  <1>4. ~(i < j)
    <2>1. ASSUME i < j PROVE FALSE
      <3>1. KeyIn(n, i) < KeyIn(n, j)
        BY <2>1, Zenon DEF Increasing
      <3> QED
        BY <1>1, <1>2, <1>3, <3>1
    <2> QED
      BY <2>1
  <1>5. ~(j < i)
    <2>1. ASSUME j < i PROVE FALSE
      <3>1. KeyIn(n, j) < KeyIn(n, i)
        BY <2>1, Zenon DEF Increasing
      <3> QED
        BY <1>1, <1>2, <1>3, <3>1
    <2> QED
      BY <2>1
  <1>6. i = j
    BY <1>3, <1>4, <1>5
  <1> QED
    BY <1>1, <1>2, <1>6

\* InsertSlot puts a new key where LowerBound says.
LEMMA InsertSets ==
    ASSUME NEW n \in Nodes, Increasing(n), NEW k \in Entries, NEW p \in PageIds,
           k \notin Keys(n),
           NEW m, m = InsertSlot(n, LowerBound(n, k), k, p)
    PROVE  /\ m \in Nodes /\ m.leaf = n.leaf /\ m.next = n.next
           /\ Count(m) = Count(n) + 1
           /\ Increasing(m)
           /\ Slots(m) = Slots(n) \cup {[key |-> k, son |-> p]}
  <1>b. PICK b : b = LowerBound(n, k)
    OBVIOUS
  <1>c. PICK c : c = Count(n)
    OBVIOUS
  <1>1. k \in Nat /\ c \in Nat
    BY EntriesAreNumbers, <1>c, NodeFacts
  <1>2. /\ b \in 1 .. c + 1
        /\ \A j \in 1 .. c : j < b => KeyIn(n, j) < k
        /\ b <= c => KeyIn(n, b) >= k
    BY <1>1, <1>b, <1>c, LowerBoundFacts
  <1>3. \A j \in 1 .. c : KeyIn(n, j) \in Nat /\ KeyIn(n, j) # k
    BY <1>c, SlotSets, NodeFacts, Zenon
  <1>4. \A i, j \in 1 .. c : i < j => KeyIn(n, i) < KeyIn(n, j)
    BY <1>c, Zenon DEF Increasing
  <1>5. \A j \in 1 .. c : j >= b => k < KeyIn(n, j)
    <2>1. ASSUME NEW j \in 1 .. c, j >= b PROVE k < KeyIn(n, j)
      <3>1. b \in 1 .. c /\ k < KeyIn(n, b)
        BY <1>1, <1>2, <1>3, <2>1
      <3> QED
        BY <1>1, <1>3, <1>4, <2>1, <3>1
    <2> QED
      BY <2>1
  <1>6. Inserted(n, m, b, k, p)
    BY <1>2, <1>b, <1>c, InsertSlotFacts
  <1>7. /\ m \in Nodes /\ m.leaf = n.leaf /\ m.next = n.next /\ Count(m) = c + 1
        /\ KeyIn(m, b) = k /\ SonIn(m, b) = p
        /\ \A j \in 1 .. c :
              /\ j < b => KeyIn(m, j) = KeyIn(n, j) /\ SonIn(m, j) = SonIn(n, j)
              /\ j >= b => KeyIn(m, j + 1) = KeyIn(n, j) /\ SonIn(m, j + 1) = SonIn(n, j)
    BY <1>6, <1>c, Zenon DEF Inserted
  <1>8. ASSUME NEW i \in 1 .. c + 1
        PROVE  \/ i < b /\ i \in 1 .. c /\ KeyIn(m, i) = KeyIn(n, i) /\ SonIn(m, i) = SonIn(n, i)
               \/ i = b
               \/ /\ i > b /\ i - 1 \in 1 .. c /\ i - 1 >= b
                  /\ KeyIn(m, i) = KeyIn(n, i - 1) /\ SonIn(m, i) = SonIn(n, i - 1)
    <2>1. CASE i < b
      BY <2>1, <1>1, <1>2, <1>7
    <2>2. CASE i > b
      <3>1. i - 1 \in 1 .. c /\ i - 1 >= b /\ (i - 1) + 1 = i
        BY <2>2, <1>1, <1>2
      <3>2. KeyIn(m, i) = KeyIn(n, i - 1) /\ SonIn(m, i) = SonIn(n, i - 1)
        BY <1>7, <3>1, Zenon
      <3> QED
        BY <2>2, <3>1, <3>2
    <2>3. CASE i = b
      BY <2>3
    <2> QED
      BY <1>1, <1>2, <2>1, <2>2, <2>3
  <1>9. Increasing(m)
    <2>1. ASSUME NEW i \in 1 .. c + 1, NEW j \in 1 .. c + 1, i < j
          PROVE  KeyIn(m, i) < KeyIn(m, j)
      BY <2>1, <1>8, <1>1, <1>2, <1>3, <1>4, <1>5, <1>7
    <2> QED
      BY <1>7, <2>1, Zenon DEF Increasing
  <1>e. PICK e : e = [key |-> k, son |-> p]
    OBVIOUS
  <1>10. e \in SlotTypes /\ e.key = k /\ e.son = p
    BY <1>e DEF SlotTypes
  <1>11. Slots(m) \subseteq Slots(n) \cup {e}
    <2>1. ASSUME NEW f \in Slots(m) PROVE f \in Slots(n) \cup {e}
      <3>1. PICK i \in 1 .. c + 1 : f.key = KeyIn(m, i) /\ f.son = SonIn(m, i)
        BY <1>7, SlotSets
      <3>2. f \in SlotTypes
        BY <1>7, SlotSets
      <3>3. ASSUME NEW j \in 1 .. c, KeyIn(m, i) = KeyIn(n, j), SonIn(m, i) = SonIn(n, j)
            PROVE  f \in Slots(n)
        <4>1. n.slots[j] \in SlotTypes /\ n.slots[j] \in Slots(n)
          BY <1>c, NodeFacts, SlotSets, Zenon
        <4>2. n.slots[j].key = KeyIn(n, j) /\ n.slots[j].son = SonIn(n, j)
          BY Zenon DEF KeyIn, SonIn
        <4> QED
          BY <3>1, <3>2, <3>3, <4>1, <4>2, SameSlot
      <3>4. CASE i = b
        BY <3>1, <3>2, <3>4, <1>7, <1>10, SameSlot
      <3>5. CASE i # b
        BY <1>8, <3>3, <3>5
      <3> QED
        BY <3>4, <3>5
    <2> QED
      BY <2>1
  <1>12. Slots(n) \cup {e} \subseteq Slots(m)
    <2>0. ASSUME NEW f \in SlotTypes, NEW i \in 1 .. c + 1, f.key = KeyIn(m, i), f.son = SonIn(m, i)
          PROVE  f \in Slots(m)
      <3>1. m.slots[i] \in SlotTypes /\ m.slots[i] \in Slots(m)
        BY <1>7, NodeFacts, SlotSets
      <3>2. m.slots[i].key = KeyIn(m, i) /\ m.slots[i].son = SonIn(m, i)
        BY Zenon DEF KeyIn, SonIn
      <3> QED
        BY <2>0, <3>1, <3>2, SameSlot
    <2>1. e \in Slots(m)
      BY <2>0, <1>2, <1>7, <1>10
    <2>2. ASSUME NEW f \in Slots(n) PROVE f \in Slots(m)
      <3>1. PICK j \in 1 .. c : f.key = KeyIn(n, j) /\ f.son = SonIn(n, j)
        BY <1>c, SlotSets
      <3>2. f \in SlotTypes
        BY SlotSets
      <3>3. CASE j < b
        <4>1. j \in 1 .. c + 1
          BY <1>1
        <4> QED
          BY <2>0, <3>1, <3>2, <3>3, <4>1, <1>7, Zenon
      <3>4. CASE j >= b
        <4>1. j + 1 \in 1 .. c + 1
          BY <1>1
        <4> QED
          BY <2>0, <3>1, <3>2, <3>4, <4>1, <1>7, Zenon
      <3> QED
        BY <1>2, <3>3, <3>4
    <2> QED
      BY <2>1, <2>2
  <1> QED
    BY <1>c, <1>e, <1>7, <1>9, <1>11, <1>12

LEMMA SlotHere ==
    ASSUME NEW n \in Nodes, NEW i \in 1 .. Count(n), NEW f \in SlotTypes,
           f.key = KeyIn(n, i), f.son = SonIn(n, i)
    PROVE  f = n.slots[i] /\ f \in Slots(n)
  <1>1. n.slots[i] \in SlotTypes /\ n.slots[i] \in Slots(n)
    BY NodeFacts, SlotSets, Zenon
  <1>2. n.slots[i].key = KeyIn(n, i) /\ n.slots[i].son = SonIn(n, i)
    BY Zenon DEF KeyIn, SonIn
  <1> QED
    BY <1>1, <1>2, SameSlot

\* The slots at different places differ.
LEMMA PlacesDiffer ==
    ASSUME NEW n \in Nodes, Increasing(n), NEW i \in 1 .. Count(n), NEW j \in 1 .. Count(n)
    PROVE  /\ n.slots[i] = n.slots[j] => i = j
           /\ i < j <=> n.slots[i].key < n.slots[j].key
  <1>1. Count(n) \in Nat /\ \A k \in 1 .. Count(n) : KeyIn(n, k) \in Nat
    BY NodeFacts
  <1>2. n.slots[i].key = KeyIn(n, i) /\ n.slots[j].key = KeyIn(n, j)
    BY Zenon DEF KeyIn
  <1>3. i < j => KeyIn(n, i) < KeyIn(n, j)
    BY Zenon DEF Increasing
  <1>4. j < i => KeyIn(n, j) < KeyIn(n, i)
    BY Zenon DEF Increasing
  <1>5. KeyIn(n, i) = KeyIn(n, j) => i = j
    BY <1>1, <1>3, <1>4
  <1>6. i < j <=> KeyIn(n, i) < KeyIn(n, j)
    BY <1>1, <1>3, <1>4
  <1> QED
    BY <1>2, <1>5, <1>6, Zenon

LEMMA RemoveSets ==
    ASSUME NEW n \in Nodes, Increasing(n), NEW i \in 1 .. Count(n),
           NEW m, m = RemoveSlot(n, i)
    PROVE  /\ m \in Nodes /\ m.leaf = n.leaf /\ m.next = n.next
           /\ Count(m) = Count(n) - 1
           /\ Increasing(m)
           /\ Slots(m) = Slots(n) \ {n.slots[i]}
  <1>c. PICK c : c = Count(n)
    OBVIOUS
  <1>1. c \in Nat /\ i \in 1 .. c
    BY <1>c, NodeFacts
  <1>2. Removed(n, m, i)
    BY RemoveSlotFacts
  <1>3. /\ m \in Nodes /\ m.leaf = n.leaf /\ m.next = n.next /\ Count(m) = c - 1
        /\ \A j \in 1 .. c - 1 :
              /\ j < i => KeyIn(m, j) = KeyIn(n, j) /\ SonIn(m, j) = SonIn(n, j)
              /\ j >= i => KeyIn(m, j) = KeyIn(n, j + 1) /\ SonIn(m, j) = SonIn(n, j + 1)
    BY <1>c, <1>2, Zenon DEF Removed
  <1>4. \A h, j \in 1 .. c : h < j => KeyIn(n, h) < KeyIn(n, j)
    BY <1>c, Zenon DEF Increasing
  <1>5. Increasing(m)
    <2>1. ASSUME NEW h \in 1 .. c - 1, NEW j \in 1 .. c - 1, h < j
          PROVE  KeyIn(m, h) < KeyIn(m, j)
      <3>1. /\ h \in 1 .. c /\ h + 1 \in 1 .. c /\ j \in 1 .. c /\ j + 1 \in 1 .. c
            /\ h < j + 1 /\ h + 1 < j + 1 /\ (h < i \/ h >= i) /\ (j < i \/ j >= i)
            /\ (h >= i => j >= i)
        BY <1>1, <2>1
      <3> QED
        BY <2>1, <3>1, <1>3, <1>4, Zenon
    <2> QED
      BY <1>3, <2>1, Zenon DEF Increasing
  <1>6. ASSUME NEW f \in Slots(m) PROVE f \in Slots(n) \ {n.slots[i]}
    <2>1. PICK j \in 1 .. c - 1 : f.key = KeyIn(m, j) /\ f.son = SonIn(m, j)
      BY <1>3, SlotSets
    <2>2. f \in SlotTypes
      BY <1>3, SlotSets
    <2>3. PICK h \in 1 .. c : h # i /\ f.key = KeyIn(n, h) /\ f.son = SonIn(n, h)
      <3>1. CASE j < i
        <4>1. j \in 1 .. c /\ j # i
          BY <1>1, <3>1
        <4> QED
          BY <1>3, <2>1, <3>1, <4>1, Zenon
      <3>2. CASE j >= i
        <4>1. j + 1 \in 1 .. c /\ j + 1 # i
          BY <1>1, <3>2
        <4> QED
          BY <1>3, <2>1, <3>2, <4>1, Zenon
      <3> QED
        BY <1>1, <3>1, <3>2
    <2>4. f = n.slots[h] /\ f \in Slots(n)
      BY <1>c, <2>2, <2>3, SlotHere
    <2>5. f # n.slots[i]
      BY <1>c, <2>3, <2>4, PlacesDiffer, Zenon
    <2> QED
      BY <2>4, <2>5
  <1>7. ASSUME NEW f \in Slots(n), f # n.slots[i] PROVE f \in Slots(m)
    <2>1. PICK h \in 1 .. c : f = n.slots[h] /\ f.key = KeyIn(n, h) /\ f.son = SonIn(n, h)
      BY <1>c, SlotSets
    <2>2. f \in SlotTypes /\ h # i
      BY <1>7, <2>1, SlotSets
    <2>3. PICK j \in 1 .. c - 1 : f.key = KeyIn(m, j) /\ f.son = SonIn(m, j)
      <3>1. CASE h < i
        <4>1. h \in 1 .. c - 1
          BY <1>1, <3>1
        <4> QED
          BY <1>3, <2>1, <3>1, <4>1, Zenon
      <3>2. CASE h > i
        <4>1. h - 1 \in 1 .. c - 1 /\ h - 1 >= i /\ (h - 1) + 1 = h
          BY <1>1, <3>2
        <4>2. KeyIn(m, h - 1) = KeyIn(n, h) /\ SonIn(m, h - 1) = SonIn(n, h)
          BY <1>3, <4>1, Zenon
        <4> QED
          BY <2>1, <4>1, <4>2, Zenon
      <3> QED
        BY <1>1, <2>2, <3>1, <3>2
    <2> QED
      BY <1>3, <2>2, <2>3, SlotHere
  <1> QED
    BY <1>c, <1>3, <1>5, <1>6, <1>7

\* A slot gets another key that does not change its place.
LEMMA KeySets ==
    ASSUME NEW n \in Nodes, Increasing(n), NEW i \in 1 .. Count(n), NEW k \in Entries,
           NEW e, e = n.slots[i],
           \A f \in Slots(n) : /\ f.key < e.key => f.key < k
                               /\ e.key < f.key => k < f.key,
           NEW m, m = [n EXCEPT !.slots[i].key = k]
    PROVE  /\ m \in Nodes /\ m.leaf = n.leaf /\ m.next = n.next
           /\ Count(m) = Count(n)
           /\ Increasing(m)
           /\ Slots(m) = (Slots(n) \ {e}) \cup {[key |-> k, son |-> e.son]}
  <1>c. PICK c : c = Count(n)
    OBVIOUS
  <1>1. c \in Nat /\ i \in 1 .. c /\ e \in Slots(n) /\ e \in SlotTypes
    BY <1>c, NodeFacts, SlotSets
  <1>2. WithKey(n, m, i, k)
    BY WithKeyFacts
  <1>3. /\ m \in Nodes /\ m.leaf = n.leaf /\ m.next = n.next /\ Count(m) = c
        /\ KeyIn(m, i) = k /\ SonIn(m, i) = e.son
        /\ \A j \in 1 .. c : /\ j # i => KeyIn(m, j) = KeyIn(n, j)
                             /\ SonIn(m, j) = SonIn(n, j)
    <2>1. SonIn(n, i) = e.son
      BY DEF SonIn
    <2> QED
      BY <1>c, <1>2, <2>1, Zenon DEF WithKey
  <1>4. \A h, j \in 1 .. c : h < j => KeyIn(n, h) < KeyIn(n, j)
    BY <1>c, Zenon DEF Increasing
  <1>5. /\ \A j \in 1 .. c : j < i => KeyIn(n, j) < k
        /\ \A j \in 1 .. c : i < j => k < KeyIn(n, j)
    <2>1. e.key = KeyIn(n, i)
      BY DEF KeyIn
    <2>2. \A j \in 1 .. c : n.slots[j] \in Slots(n) /\ n.slots[j].key = KeyIn(n, j)
      BY <1>c, SlotSets, Zenon DEF KeyIn
    <2> QED
      BY <1>1, <1>4, <2>1, <2>2, Zenon
  <1>6. Increasing(m)
    <2>1. ASSUME NEW h \in 1 .. c, NEW j \in 1 .. c, h < j
          PROVE  KeyIn(m, h) < KeyIn(m, j)
      <3>1. CASE h # i /\ j # i
        BY <1>3, <1>4, <2>1, <3>1, Zenon
      <3>2. CASE h = i
        <4>1. j # i
          BY <1>1, <2>1, <3>2
        <4> QED
          BY <1>3, <1>5, <2>1, <3>2, <4>1, Zenon
      <3>3. CASE j = i
        <4>1. h # i
          BY <1>1, <2>1, <3>3
        <4> QED
          BY <1>3, <1>5, <2>1, <3>3, <4>1, Zenon
      <3> QED
        BY <3>1, <3>2, <3>3
    <2> QED
      BY <1>3, <2>1, Zenon DEF Increasing
  <1>d. PICK d : d = [key |-> k, son |-> e.son]
    OBVIOUS
  <1>7. d \in SlotTypes /\ d.key = k /\ d.son = e.son
    BY <1>1, <1>d DEF SlotTypes
  <1>8. ASSUME NEW f \in Slots(m) PROVE f \in (Slots(n) \ {e}) \cup {d}
    <2>1. PICK j \in 1 .. c : f.key = KeyIn(m, j) /\ f.son = SonIn(m, j)
      BY <1>3, SlotSets
    <2>2. f \in SlotTypes
      BY <1>3, SlotSets
    <2>3. CASE j = i
      BY <1>3, <1>7, <2>1, <2>2, <2>3, SameSlot
    <2>4. CASE j # i
      <3>1. f.key = KeyIn(n, j) /\ f.son = SonIn(n, j)
        BY <1>3, <2>1, <2>4
      <3>2. f = n.slots[j] /\ f \in Slots(n)
        BY <1>c, <2>2, <3>1, SlotHere
      <3>3. f # e
        BY <1>c, <2>4, <3>2, PlacesDiffer, Zenon
      <3> QED
        BY <3>2, <3>3
    <2> QED
      BY <2>3, <2>4
  <1>9. ASSUME NEW f \in (Slots(n) \ {e}) \cup {d} PROVE f \in Slots(m)
    <2>1. CASE f = d
      BY <1>1, <1>3, <1>7, <2>1, SlotHere
    <2>2. CASE f # d
      <3>1. PICK j \in 1 .. c : f = n.slots[j] /\ f.key = KeyIn(n, j) /\ f.son = SonIn(n, j)
        BY <1>c, <2>2, SlotSets
      <3>2. f \in SlotTypes /\ j # i
        BY <2>2, <3>1, SlotSets
      <3> QED
        BY <1>3, <3>1, <3>2, SlotHere
    <2> QED
      BY <2>1, <2>2
  <1> QED
    BY <1>c, <1>d, <1>3, <1>6, <1>8, <1>9

LEMMA PartSets ==
    ASSUME NEW n \in Nodes, Increasing(n), NEW a \in Nat, NEW b \in Nat,
           1 <= a, b <= Count(n), NEW m, PartOf(n, m, a, b)
    PROVE  /\ m \in Nodes /\ m.leaf = n.leaf /\ Count(m) = b - a + 1
           /\ Increasing(m)
           /\ Slots(m) = {n.slots[j] : j \in a .. b}
  <1>c. PICK c : c = b - a + 1
    OBVIOUS
  <1>1. Count(n) \in Nat
    BY NodeFacts
  <1>2. /\ m \in Nodes /\ m.leaf = n.leaf /\ Count(m) = c
        /\ \A j \in 1 .. c : KeyIn(m, j) = KeyIn(n, a + j - 1) /\ SonIn(m, j) = SonIn(n, a + j - 1)
    BY <1>c, Zenon DEF PartOf
  <1>3. \A j \in 1 .. c : a + j - 1 \in 1 .. Count(n) /\ a + j - 1 \in a .. b
    BY <1>c, <1>1
  <1>4. Increasing(m)
    <2>1. ASSUME NEW h \in 1 .. c, NEW j \in 1 .. c, h < j
          PROVE  KeyIn(m, h) < KeyIn(m, j)
      <3>1. a + h - 1 < a + j - 1
        BY <1>c, <2>1
      <3> QED
        BY <1>2, <1>3, <3>1, Zenon DEF Increasing
    <2> QED
      BY <1>2, <2>1, Zenon DEF Increasing
  <1>5. ASSUME NEW f \in Slots(m) PROVE f \in {n.slots[j] : j \in a .. b}
    <2>1. PICK j \in 1 .. c : f.key = KeyIn(m, j) /\ f.son = SonIn(m, j)
      BY <1>2, SlotSets
    <2>2. f \in SlotTypes
      BY <1>2, SlotSets
    <2>3. PICK h : h = a + j - 1
      OBVIOUS
    <2>4. h \in 1 .. Count(n) /\ h \in a .. b /\ f.key = KeyIn(n, h) /\ f.son = SonIn(n, h)
      BY <1>2, <1>3, <2>1, <2>3, Zenon
    <2>5. f = n.slots[h]
      BY <2>2, <2>4, SlotHere
    <2> QED
      BY <2>4, <2>5
  <1>6. ASSUME NEW h \in a .. b PROVE n.slots[h] \in Slots(m)
    <2>1. PICK j : j = h - a + 1
      OBVIOUS
    <2>2. j \in 1 .. c /\ a + j - 1 = h /\ h \in 1 .. Count(n)
      BY <1>c, <1>1, <2>1
    <2>3. KeyIn(m, j) = KeyIn(n, h) /\ SonIn(m, j) = SonIn(n, h)
      BY <1>2, <2>2, Zenon
    <2>4. n.slots[h] \in SlotTypes /\ n.slots[h].key = KeyIn(n, h) /\ n.slots[h].son = SonIn(n, h)
      BY <2>2, NodeFacts DEF KeyIn, SonIn
    <2> QED
      BY <1>2, <2>2, <2>3, <2>4, SlotHere
  <1> QED
    BY <1>c, <1>2, <1>4, <1>5, <1>6

\* Two parts of a node hold its slots, those of the left part being less.
LEMMA TwoParts ==
    ASSUME NEW n \in Nodes, Increasing(n), NEW h \in Nat, 1 <= h, h < Count(n),
           NEW l, PartOf(n, l, 1, h), NEW r, PartOf(n, r, h + 1, Count(n))
    PROVE  /\ l \in Nodes /\ l.leaf = n.leaf /\ r \in Nodes /\ r.leaf = n.leaf
           /\ Count(l) = h /\ Count(r) = Count(n) - h
           /\ Increasing(l) /\ Increasing(r)
           /\ Slots(n) = Slots(l) \cup Slots(r)
           /\ LeftOf(l, r)
           /\ Slots(l) # {} /\ Slots(r) # {}
  <1>1. Count(n) \in Nat /\ \A j \in 1 .. Count(n) : KeyIn(n, j) \in Nat
    BY NodeFacts
  <1>2. h + 1 \in Nat /\ 1 <= h + 1 /\ h <= Count(n) /\ h - 1 + 1 = h
        /\ Count(n) - (h + 1) + 1 = Count(n) - h /\ 1 \in Nat /\ 1 <= 1 /\ Count(n) <= Count(n)
    BY <1>1
  <1>3. /\ l \in Nodes /\ l.leaf = n.leaf /\ Count(l) = h
        /\ Increasing(l) /\ Slots(l) = {n.slots[j] : j \in 1 .. h}
    BY <1>2, PartSets
  <1>4. /\ r \in Nodes /\ r.leaf = n.leaf /\ Count(r) = Count(n) - h
        /\ Increasing(r) /\ Slots(r) = {n.slots[j] : j \in h + 1 .. Count(n)}
    BY <1>1, <1>2, PartSets
  <1>5. Slots(n) = Slots(l) \cup Slots(r)
    <2>1. 1 .. Count(n) = (1 .. h) \cup (h + 1 .. Count(n))
      BY <1>1
    <2> QED
      BY <2>1, <1>3, <1>4, Zenon DEF Slots
  <1>6. LeftOf(l, r)
    <2>1. ASSUME NEW e \in Slots(l), NEW f \in Slots(r) PROVE e.key < f.key
      <3>1. PICK i \in 1 .. h : e = n.slots[i]
        BY <1>3
      <3>2. PICK j \in h + 1 .. Count(n) : f = n.slots[j]
        BY <1>4
      <3>3. i \in 1 .. Count(n) /\ j \in 1 .. Count(n) /\ i < j
        BY <1>1
      <3> QED
        BY <3>1, <3>2, <3>3, PlacesDiffer, Zenon
    <2> QED
      BY <2>1, Zenon DEF LeftOf, Keys
  <1>7. 1 \in 1 .. h /\ h + 1 \in h + 1 .. Count(n)
    BY <1>1
  <1> QED
    BY <1>3, <1>4, <1>5, <1>6, <1>7

\* splitHalfTo
LEMMA SplitSets ==
    ASSUME NEW n \in Nodes, Increasing(n), Count(n) >= 2, NEW o \in PageIds,
           NEW l, l = LeftHalf(n, o), NEW r, r = RightHalf(n)
    PROVE  /\ l \in Nodes /\ l.leaf = n.leaf /\ l.next = o
           /\ r \in Nodes /\ r.leaf = n.leaf /\ r.next = n.next
           /\ Count(l) = Count(n) \div 2 /\ Count(r) = Count(n) - Count(n) \div 2
           /\ Increasing(l) /\ Increasing(r)
           /\ Slots(n) = Slots(l) \cup Slots(r)
           /\ LeftOf(l, r)
           /\ Slots(l) # {} /\ Slots(r) # {}
  <1>h. PICK h : h = Half(n)
    OBVIOUS
  <1>1. /\ h \in Nat /\ 1 <= h /\ h < Count(n) /\ h = Count(n) \div 2
        /\ PartOf(n, l, 1, h) /\ l.next = o
        /\ PartOf(n, r, h + 1, Count(n)) /\ r.next = n.next
    BY <1>h, HalfFacts
  <1>2. /\ l \in Nodes /\ l.leaf = n.leaf /\ r \in Nodes /\ r.leaf = n.leaf
        /\ Count(l) = h /\ Count(r) = Count(n) - h
        /\ Increasing(l) /\ Increasing(r)
        /\ Slots(n) = Slots(l) \cup Slots(r)
        /\ LeftOf(l, r)
        /\ Slots(l) # {} /\ Slots(r) # {}
    BY <1>1, TwoParts
  <1> QED
    BY <1>1, <1>2, Zenon

\* mergeFromRight
LEMMA MergeSets ==
    ASSUME NEW l \in Nodes, NEW r \in Nodes, Increasing(l), Increasing(r), LeftOf(l, r),
           NEW m, m = Merged(l, r)
    PROVE  /\ m \in Nodes /\ m.leaf = l.leaf /\ m.next = r.next
           /\ Count(m) = Count(l) + Count(r)
           /\ Increasing(m)
           /\ Slots(m) = Slots(l) \cup Slots(r)
  <1>c. PICK c : c = Count(l)
    OBVIOUS
  <1>d. PICK d : d = Count(r)
    OBVIOUS
  <1>1. c \in Nat /\ d \in Nat
    BY <1>c, <1>d, NodeFacts
  <1>2. Joined(l, r, m)
    BY MergedFacts
  <1>3. /\ m \in Nodes /\ m.leaf = l.leaf /\ m.next = r.next /\ Count(m) = c + d
        /\ \A j \in 1 .. c : KeyIn(m, j) = KeyIn(l, j) /\ SonIn(m, j) = SonIn(l, j)
        /\ \A j \in 1 .. d : /\ KeyIn(m, c + j) = KeyIn(r, j)
                             /\ SonIn(m, c + j) = SonIn(r, j)
    BY <1>c, <1>d, <1>2, Zenon DEF Joined
  <1>4. ASSUME NEW i \in 1 .. c + d
        PROVE  \/ i \in 1 .. c
               \/ /\ i - c \in 1 .. d /\ ~(i \in 1 .. c)
                  /\ KeyIn(m, i) = KeyIn(r, i - c) /\ SonIn(m, i) = SonIn(r, i - c)
    <2>1. CASE i <= c
      BY <1>1, <2>1
    <2>2. CASE ~(i <= c)
      <3>1. i - c \in 1 .. d /\ c + (i - c) = i /\ ~(i \in 1 .. c)
        BY <1>1, <2>2
      <3> QED
        BY <1>3, <3>1, Zenon
    <2> QED
      BY <2>1, <2>2
  <1>5. \A i \in 1 .. c, j \in 1 .. d : KeyIn(l, i) < KeyIn(r, j)
    BY <1>c, <1>d, SlotSets, Zenon DEF LeftOf
  <1>6. Increasing(m)
    <2>1. ASSUME NEW h \in 1 .. c + d, NEW j \in 1 .. c + d, h < j
          PROVE  KeyIn(m, h) < KeyIn(m, j)
      <3>1. CASE h \in 1 .. c /\ j \in 1 .. c
        BY <1>c, <1>3, <2>1, <3>1, Zenon DEF Increasing
      <3>2. CASE h \in 1 .. c /\ ~(j \in 1 .. c)
        BY <1>3, <1>4, <1>5, <3>2, Zenon
      <3>3. CASE ~(h \in 1 .. c)
        <4>1. ~(j \in 1 .. c) /\ h - c < j - c
          BY <1>1, <2>1, <3>3
        <4>2. h - c \in 1 .. d /\ KeyIn(m, h) = KeyIn(r, h - c)
          BY <1>4, <3>3, Zenon
        <4>3. j - c \in 1 .. d /\ KeyIn(m, j) = KeyIn(r, j - c)
          BY <1>4, <4>1, Zenon
        <4> QED
          BY <1>d, <4>1, <4>2, <4>3, Zenon DEF Increasing
      <3> QED
        BY <3>1, <3>2, <3>3
    <2> QED
      BY <1>3, <2>1, Zenon DEF Increasing
  <1>7. ASSUME NEW f \in Slots(m) PROVE f \in Slots(l) \cup Slots(r)
    <2>1. PICK j \in 1 .. c + d : f.key = KeyIn(m, j) /\ f.son = SonIn(m, j)
      BY <1>3, SlotSets
    <2>2. f \in SlotTypes
      BY <1>3, SlotSets
    <2>3. CASE j \in 1 .. c
      BY <1>c, <1>3, <2>1, <2>2, <2>3, SlotHere
    <2>4. CASE ~(j \in 1 .. c)
      <3>1. PICK i \in 1 .. d : KeyIn(m, j) = KeyIn(r, i) /\ SonIn(m, j) = SonIn(r, i)
        BY <1>4, <2>4, Zenon
      <3> QED
        BY <1>d, <3>1, <2>1, <2>2, SlotHere
    <2> QED
      BY <2>3, <2>4
  <1>8. ASSUME NEW f \in Slots(l) PROVE f \in Slots(m)
    <2>1. PICK j \in 1 .. c : f.key = KeyIn(l, j) /\ f.son = SonIn(l, j)
      BY <1>c, SlotSets
    <2>2. f \in SlotTypes
      BY SlotSets
    <2>3. j \in 1 .. Count(m)
      BY <1>1, <1>3
    <2>4. f.key = KeyIn(m, j) /\ f.son = SonIn(m, j)
      BY <1>3, <2>1, Zenon
    <2> QED
      BY <1>3, <2>2, <2>3, <2>4, SlotHere
  <1>9. ASSUME NEW f \in Slots(r) PROVE f \in Slots(m)
    <2>1. PICK j \in 1 .. d : f.key = KeyIn(r, j) /\ f.son = SonIn(r, j)
      BY <1>d, SlotSets
    <2>2. f \in SlotTypes
      BY SlotSets
    <2>3. c + j \in 1 .. Count(m)
      BY <1>1, <1>3
    <2>4. f.key = KeyIn(m, c + j) /\ f.son = SonIn(m, c + j)
      BY <1>3, <2>1, Zenon
    <2> QED
      BY <1>3, <2>2, <2>3, <2>4, SlotHere
  <1> QED
    BY <1>c, <1>d, <1>3, <1>6, <1>7, <1>8, <1>9

\* averageFromRight
LEMMA AverageSets ==
    ASSUME NEW l \in Nodes, NEW r \in Nodes, l.leaf = r.leaf, Increasing(l), Increasing(r),
           LeftOf(l, r), Count(l) + Count(r) >= 2,
           NEW a, a = AveragedLeft(l, r), NEW b, b = AveragedRight(l, r)
    PROVE  /\ a \in Nodes /\ a.leaf = l.leaf /\ a.next = l.next
           /\ b \in Nodes /\ b.leaf = l.leaf /\ b.next = r.next
           /\ \E h \in Nat : /\ h = (Count(l) + Count(r)) \div 2
                             /\ Count(a) = h /\ Count(b) = (Count(l) + Count(r)) - h
           /\ Increasing(a) /\ Increasing(b)
           /\ Slots(a) \cup Slots(b) = Slots(l) \cup Slots(r)
           /\ LeftOf(a, b)
           /\ Slots(a) # {} /\ Slots(b) # {}
  <1>m. PICK m : m = Merged(l, r)
    OBVIOUS
  <1>h. PICK h : h = AverageSize(l, r)
    OBVIOUS
  <1>1. /\ m \in Nodes /\ m.leaf = l.leaf /\ Increasing(m)
        /\ Slots(m) = Slots(l) \cup Slots(r)
    BY <1>m, MergeSets
  <1>2. /\ Count(m) = Count(l) + Count(r)
        /\ h \in Nat /\ 1 <= h /\ h < Count(m) /\ h = Count(m) \div 2
        /\ PartOf(m, a, 1, h) /\ a.next = l.next
        /\ PartOf(m, b, h + 1, Count(m)) /\ b.next = r.next
    BY <1>m, <1>h, AveragedFacts
  <1>3. /\ a \in Nodes /\ a.leaf = m.leaf /\ b \in Nodes /\ b.leaf = m.leaf
        /\ Count(a) = h /\ Count(b) = Count(m) - h
        /\ Increasing(a) /\ Increasing(b)
        /\ Slots(m) = Slots(a) \cup Slots(b)
        /\ LeftOf(a, b)
        /\ Slots(a) # {} /\ Slots(b) # {}
    BY <1>1, <1>2, TwoParts
  <1>4. \E x \in Nat : /\ x = (Count(l) + Count(r)) \div 2
                      /\ Count(a) = x /\ Count(b) = (Count(l) + Count(r)) - x
    <2>1. Count(m) = Count(l) + Count(r) /\ h = Count(m) \div 2 /\ h \in Nat
      BY <1>2
    <2>2. Count(a) = h /\ Count(b) = Count(m) - h
      BY <1>3
    <2>3. h = (Count(l) + Count(r)) \div 2
      BY <2>1
    <2>4. Count(b) = (Count(l) + Count(r)) - h
      BY <2>1, <2>2, Zenon
    <2> QED
      BY <2>1, <2>2, <2>3, <2>4, Zenon
  <1>5. Slots(a) \cup Slots(b) = Slots(l) \cup Slots(r)
    BY <1>1, <1>3
  <1>6. a.leaf = l.leaf /\ b.leaf = l.leaf
    BY <1>1, <1>3
  <1> QED
    BY <1>2, <1>3, <1>4, <1>5, <1>6

\* The slot that leads to the son that k belongs to.
LEMMA SonSets ==
    ASSUME NEW n \in Nodes, Increasing(n), NEW k \in Nat, Slots(n) # {},
           NEW i, i = SonPos(n, k), NEW e, e = n.slots[i]
    PROVE  /\ i \in 1 .. Count(n) /\ e \in Slots(n) /\ Son(n, k) = e.son
           /\ \A f \in Slots(n) : e.key < f.key => k < f.key
           /\ e.key <= k \/ (i = 1 /\ \A f \in Slots(n) : e.key <= f.key)
           /\ i = 1 => e.key = Least(n)
  <1>1. Count(n) \in Nat /\ Count(n) > 0
    BY SlotSets
  <1>2. /\ i \in 1 .. Count(n)
        /\ \A j \in 1 .. Count(n) : j > i => k < KeyIn(n, j)
        /\ i = 1 \/ KeyIn(n, i) <= k
        /\ Son(n, k) = SonIn(n, i)
    BY <1>1, SonPosFacts
  <1>3. e \in Slots(n) /\ e.key = KeyIn(n, i) /\ e.son = SonIn(n, i)
    BY <1>2, SlotSets DEF KeyIn, SonIn
  <1>4. ASSUME NEW f \in Slots(n), e.key < f.key PROVE k < f.key
    <2>1. PICK j \in 1 .. Count(n) : f = n.slots[j] /\ f.key = KeyIn(n, j)
      BY SlotSets, Zenon
    <2>2. i < j
      BY <1>2, <1>4, <2>1, PlacesDiffer, Zenon
    <2> QED
      BY <1>1, <1>2, <2>1, <2>2
  <1>5. ASSUME i = 1 PROVE e.key = Least(n) /\ \A f \in Slots(n) : e.key <= f.key
    <2>1. e.key = Least(n)
      BY <1>3, <1>5 DEF Least
    <2>2. \A f \in Slots(n) : f.key \in Keys(n)
      BY DEF Keys
    <2> QED
      BY <2>1, <2>2, LeastFacts
  <1> QED
    BY <1>2, <1>3, <1>4, <1>5

\* Slots beside one another.
LEMMA NextSlot ==
    ASSUME NEW n \in Nodes, Increasing(n), NEW i \in 1 .. Count(n), i + 1 \in 1 .. Count(n),
           NEW e, e = n.slots[i], NEW f, f = n.slots[i + 1]
    PROVE  /\ e \in Slots(n) /\ f \in Slots(n) /\ e.key < f.key
           /\ \A g \in Slots(n) : ~(e.key < g.key /\ g.key < f.key)
  <1>0. i < i + 1
    OBVIOUS
  <1>1. e \in Slots(n) /\ f \in Slots(n) /\ e.key < f.key
    BY <1>0, SlotSets, PlacesDiffer, Zenon
  <1>2. ASSUME NEW g \in Slots(n), e.key < g.key, g.key < f.key PROVE FALSE
    <2>1. PICK j \in 1 .. Count(n) : g = n.slots[j]
      BY DEF Slots
    <2>2. i < j /\ j < i + 1
      BY <1>2, <2>1, PlacesDiffer, Zenon
    <2> QED
      BY <2>2
  <1> QED
    BY <1>1, <1>2
-----------------------------------------------------------------------------
(* Trees.  L gives the pages of a tree their levels, the leaves being on      *)
(* level 0; N is the function of the nodes on the pages.                      *)

\* Different pages of one level.
Beside(L, p, q) == p \in DOMAIN L /\ q \in DOMAIN L /\ p # q /\ L[p] = L[q]

\* e is a slot of the inner page p.
Inner(N, L, p, e) == p \in DOMAIN L /\ L[p] > 0 /\ e \in Slots(N[p])

Leveled(L) == L \in [DOMAIN L -> Nat] /\ DOMAIN L \subseteq PageIds \ InitialPages

LeavesBelow(N, L) == \A p \in DOMAIN L : N[p].leaf <=> L[p] = 0

Ordered(N, L) ==
    /\ \A p \in DOMAIN L : Increasing(N[p])
    /\ \A p, q : Beside(L, p, q) => LeftOf(N[p], N[q]) \/ LeftOf(N[q], N[p])

\* The page after p is page o, or there is none.
IsNext(N, L, p, o) ==
    IF o = NoNode THEN \A q : Beside(L, p, q) => LeftOf(N[q], N[p])
    ELSE /\ Beside(L, p, o) /\ LeftOf(N[p], N[o])
         /\ \A q : Beside(L, p, q) /\ q # o => LeftOf(N[q], N[p]) \/ LeftOf(N[o], N[q])

Linked(N, L) == \A p \in DOMAIN L : IsNext(N, L, p, N[p].next)

SonsBelow(N, L) ==
    \A p, e : Inner(N, L, p, e) =>
        /\ e.son \in DOMAIN L /\ L[e.son] = L[p] - 1 /\ Slots(N[e.son]) # {}

Layered(N, L) == /\ N \in [PageIds -> Nodes]
                 /\ Leveled(L)
                 /\ LeavesBelow(N, L)
                 /\ Ordered(N, L)
                 /\ Linked(N, L)
                 /\ SonsBelow(N, L)

\* The keys of slots are the least keys of their sons, but for the sons in X.
Exact(N, L, X) ==
    \A p, e : Inner(N, L, p, e) /\ e.son \notin X => e.key = Least(N[e.son])

\* Every page is the son of a slot, but for the pages in X.
Parents(N, L, X) == \A s \in DOMAIN L \ X : \E p, e : Inner(N, L, p, e) /\ e.son = s

LEMMA LayeredFacts ==
    ASSUME NEW N, NEW L, Layered(N, L)
    PROVE  /\ \A p \in DOMAIN L : /\ p \in PageIds /\ p # NoNode /\ N[p] \in Nodes
                                  /\ L[p] \in Nat /\ Increasing(N[p])
                                  /\ Slots(N[p]) # {} => Least(N[p]) \in Keys(N[p])
           /\ \A p, e : Inner(N, L, p, e) =>
                 /\ e.key \in Nat /\ e.key \in Keys(N[p])
                 /\ e.son \in DOMAIN L /\ L[e.son] = L[p] - 1 /\ Slots(N[e.son]) # {}
           /\ \A p, q : Beside(L, p, q) => LeftOf(N[p], N[q]) \/ LeftOf(N[q], N[p])
  <1>1. /\ N \in [PageIds -> Nodes]
        /\ L \in [DOMAIN L -> Nat] /\ DOMAIN L \subseteq PageIds \ InitialPages
        /\ \A p \in DOMAIN L : Increasing(N[p])
        /\ \A p, q : Beside(L, p, q) => LeftOf(N[p], N[q]) \/ LeftOf(N[q], N[p])
        /\ SonsBelow(N, L)
    BY Zenon DEF Layered, Leveled, Ordered
  <1>2. ASSUME NEW p \in DOMAIN L
        PROVE  /\ p \in PageIds /\ p # NoNode /\ N[p] \in Nodes
               /\ L[p] \in Nat /\ Increasing(N[p])
               /\ Slots(N[p]) # {} => Least(N[p]) \in Keys(N[p])
    <2>1. p \in PageIds /\ p # NoNode /\ N[p] \in Nodes /\ L[p] \in Nat /\ Increasing(N[p])
      BY <1>1 DEF InitialPages, NoNode
    <2> QED
      BY <2>1, LeastFacts
  <1>3. ASSUME NEW p, NEW e, Inner(N, L, p, e)
        PROVE  /\ e.key \in Nat /\ e.key \in Keys(N[p])
               /\ e.son \in DOMAIN L /\ L[e.son] = L[p] - 1 /\ Slots(N[e.son]) # {}
    <2>1. p \in DOMAIN L /\ e \in Slots(N[p])
      BY <1>3 DEF Inner
    <2>2. N[p] \in Nodes
      BY <1>2, <2>1
    <2>3. e.key \in Nat /\ e.key \in Keys(N[p])
      BY <2>1, <2>2, SlotSets
    <2> QED
      BY <1>1, <1>3, <2>3, Zenon DEF SonsBelow
  <1> QED
    BY <1>1, <1>2, <1>3, Zenon

\* No two slots have the same son.
LEMMA OneParent ==
    ASSUME NEW N, NEW L, Layered(N, L), NEW X, Exact(N, L, X),
           NEW p, NEW e, Inner(N, L, p, e), NEW q, NEW f, Inner(N, L, q, f),
           e.son = f.son, e.son \notin X
    PROVE  p = q /\ e = f
  <1>1. /\ p \in DOMAIN L /\ q \in DOMAIN L /\ e \in Slots(N[p]) /\ f \in Slots(N[q])
    BY DEF Inner
  <1>2. e.key = f.key
    BY Zenon DEF Exact
  <1>3. /\ e.key \in Nat /\ e.key \in Keys(N[p]) /\ f.key \in Keys(N[q])
        /\ L[p] \in Nat /\ L[q] \in Nat /\ L[e.son] = L[p] - 1 /\ L[f.son] = L[q] - 1
        /\ N[p] \in Nodes /\ Increasing(N[p])
    BY <1>1, LayeredFacts
  <1>4. p = q
    <2>1. ASSUME p # q PROVE FALSE
      <3>1. Beside(L, p, q)
        <4>1. L[p] = L[q]
          BY <1>3
        <4> QED
          BY <1>1, <2>1, <4>1 DEF Beside
      <3>2. LeftOf(N[p], N[q]) \/ LeftOf(N[q], N[p])
        BY <3>1, LayeredFacts
      <3>3. e.key < f.key \/ f.key < e.key
        BY <1>3, <3>2, Zenon DEF LeftOf
      <3> QED
        BY <1>2, <1>3, <3>3
    <2> QED
      BY <2>1
  <1>5. e = f
    BY <1>1, <1>2, <1>3, <1>4, SlotsApart
  <1> QED
    BY <1>4, <1>5

\* The relations between pages are kept when nodes change from N to M.
Keeps(N, M, L) == \A p, q : Beside(L, p, q) /\ LeftOf(N[p], N[q]) => LeftOf(M[p], M[q])

\* The nodes keep their leaf flags and links.
Alike(N, M, L) ==
    /\ M \in [PageIds -> Nodes]
    /\ \A p \in DOMAIN L : /\ M[p].leaf = N[p].leaf /\ M[p].next = N[p].next
                          /\ Increasing(M[p])

LEMMA OrderKept ==
    ASSUME NEW N, NEW L, Layered(N, L), NEW M, Alike(N, M, L), Keeps(N, M, L)
    PROVE  LeavesBelow(M, L) /\ Ordered(M, L) /\ Linked(M, L)
  <1>0. \A p \in DOMAIN L : /\ M[p].leaf = N[p].leaf /\ M[p].next = N[p].next
                            /\ Increasing(M[p])
    BY Zenon DEF Alike
  <1>1. /\ LeavesBelow(N, L) /\ Ordered(N, L) /\ Linked(N, L)
    BY DEF Layered
  <1>2. \A p, q : Beside(L, p, q) /\ LeftOf(N[p], N[q]) => LeftOf(M[p], M[q])
    BY Zenon DEF Keeps
  <1>3. \A p, q : Beside(L, p, q) => Beside(L, q, p)
    BY DEF Beside
  <1>4. LeavesBelow(M, L)
    BY <1>0, <1>1 DEF LeavesBelow
  <1>5. Ordered(M, L)
    BY <1>0, <1>1, <1>2, <1>3, Zenon DEF Ordered
  <1>6. ASSUME NEW p \in DOMAIN L PROVE IsNext(M, L, p, M[p].next)
    <2>1. PICK o : o = N[p].next
      OBVIOUS
    <2>2. IsNext(N, L, p, o)
      BY <1>1, <2>1 DEF Linked
    <2>3. \A q : (Beside(L, p, q) /\ q # o /\ Beside(L, p, o)) => Beside(L, o, q)
      BY DEF Beside
    <2>4. IsNext(M, L, p, o)
      BY <1>2, <1>3, <2>2, <2>3, Zenon DEF IsNext
    <2> QED
      BY <1>0, <2>1, <2>4
  <1> QED
    BY <1>4, <1>5, <1>6 DEF Linked

LEMMA BesideFacts ==
    ASSUME NEW L, NEW p, NEW q, Beside(L, p, q)
    PROVE  Beside(L, q, p) /\ p \in DOMAIN L /\ q \in DOMAIN L /\ p # q /\ L[p] = L[q]
  BY DEF Beside

\* M is N with node m on page p.
Puts(N, M, p, m) == M = [N EXCEPT ![p] = m]

\* Node m may stand on page p.
Fits(N, L, p, m) ==
    /\ m \in Nodes /\ m.leaf = N[p].leaf /\ m.next = N[p].next /\ Increasing(m)
    /\ \A q : Beside(L, p, q) => /\ LeftOf(N[p], N[q]) => LeftOf(m, N[q])
                                 /\ LeftOf(N[q], N[p]) => LeftOf(N[q], m)
    /\ L[p] > 0 => \A e \in Slots(m) :
                      e.son \in DOMAIN L /\ L[e.son] = L[p] - 1 /\ Slots(N[e.son]) # {}
    /\ Slots(m) # {} \/ \A q, e : Inner(N, L, q, e) => e.son # p

Replaced(N, M, L, p, m) ==
    /\ Layered(M, L) /\ Keeps(N, M, L)
    /\ M[p] = m /\ \A q \in PageIds : q # p => M[q] = N[q]

\* Another node on page p.
LEMMA ReplaceNode ==
    ASSUME NEW N, NEW L, Layered(N, L), NEW p \in DOMAIN L, NEW m, Fits(N, L, p, m),
           NEW M, Puts(N, M, p, m)
    PROVE  Replaced(N, M, L, p, m)
  <1>0. /\ m \in Nodes /\ m.leaf = N[p].leaf /\ m.next = N[p].next /\ Increasing(m)
        /\ \A q : Beside(L, p, q) => /\ LeftOf(N[p], N[q]) => LeftOf(m, N[q])
                                     /\ LeftOf(N[q], N[p]) => LeftOf(N[q], m)
        /\ L[p] > 0 => \A e \in Slots(m) :
                          e.son \in DOMAIN L /\ L[e.son] = L[p] - 1 /\ Slots(N[e.son]) # {}
        /\ Slots(m) # {} \/ \A q, e : Inner(N, L, q, e) => e.son # p
    BY Zenon DEF Fits
  <1>1. N \in [PageIds -> Nodes] /\ Leveled(L) /\ SonsBelow(N, L)
    BY DEF Layered
  <1>2. p \in PageIds
    BY LayeredFacts
  <1>3. M \in [PageIds -> Nodes] /\ M[p] = m /\ \A q : q # p /\ q \in PageIds => M[q] = N[q]
    BY <1>0, <1>1, <1>2 DEF Puts
  <1>4. ASSUME NEW q \in DOMAIN L
        PROVE  q \in PageIds /\ M[q].leaf = N[q].leaf /\ M[q].next = N[q].next /\ Increasing(M[q])
    <2>1. q \in PageIds /\ Increasing(N[q])
      BY LayeredFacts
    <2> QED
      BY <1>0, <1>3, <2>1
  <1>5. Keeps(N, M, L)
    <2>1. ASSUME NEW q, NEW s, Beside(L, q, s), LeftOf(N[q], N[s])
          PROVE  LeftOf(M[q], M[s])
      <3>1. q \in PageIds /\ s \in PageIds /\ q # s
        BY <2>1, <1>4, BesideFacts
      <3>2. CASE q = p
        <4>1. LeftOf(m, N[s])
          BY <1>0, <2>1, <3>2
        <4> QED
          BY <1>3, <3>1, <3>2, <4>1, Zenon
      <3>3. CASE s = p
        <4>1. LeftOf(N[q], m)
          BY <1>0, <2>1, <3>3, BesideFacts
        <4> QED
          BY <1>3, <3>1, <3>3, <4>1, Zenon
      <3>4. CASE q # p /\ s # p
        <4>1. M[q] = N[q] /\ M[s] = N[s]
          BY <1>3, <3>1, <3>4
        <4> QED
          BY <2>1, <4>1
      <3> QED
        BY <3>2, <3>3, <3>4
    <2> QED
      BY <2>1, Zenon DEF Keeps
  <1>6. LeavesBelow(M, L) /\ Ordered(M, L) /\ Linked(M, L)
    <2>1. Alike(N, M, L)
      BY <1>3, <1>4, Zenon DEF Alike
    <2> QED
      BY <2>1, <1>5, OrderKept, Zenon
  <1>7. SonsBelow(M, L)
    <2>1. ASSUME NEW q, NEW e, Inner(M, L, q, e)
          PROVE  e.son \in DOMAIN L /\ L[e.son] = L[q] - 1 /\ Slots(M[e.son]) # {}
      <3>1. q \in DOMAIN L /\ L[q] > 0 /\ e \in Slots(M[q]) /\ q \in PageIds /\ L[q] \in Nat
        BY <2>1, <1>4, LayeredFacts DEF Inner
      <3>2. CASE q = p
        <4>1. e.son \in DOMAIN L /\ L[e.son] = L[q] - 1 /\ Slots(N[e.son]) # {}
          BY <1>0, <1>3, <3>1, <3>2
        <4>2. e.son # p
          BY <3>1, <3>2, <4>1
        <4> QED
          BY <1>3, <1>4, <4>1, <4>2
      <3>3. CASE q # p
        <4>1. Inner(N, L, q, e)
          BY <1>3, <3>1, <3>3 DEF Inner
        <4>2. e.son \in DOMAIN L /\ L[e.son] = L[q] - 1 /\ Slots(N[e.son]) # {}
          BY <4>1, LayeredFacts
        <4>3. CASE e.son = p
          BY <1>0, <1>3, <4>1, <4>2, <4>3
        <4>4. CASE e.son # p
          BY <1>3, <1>4, <4>2, <4>4
        <4> QED
          BY <4>3, <4>4
      <3> QED
        BY <3>2, <3>3
    <2> QED
      BY <2>1, Zenon DEF SonsBelow
  <1> QED
    <2>1. Layered(M, L)
      BY <1>1, <1>3, <1>6, <1>7, Zenon DEF Layered
    <2> QED
      BY <2>1, <1>3, <1>5 DEF Replaced

\* The slot that leads to page c is alone and in order with the others, though
\* its key may be another than the least one of c.
Aligned(N, L, c) ==
    /\ \A p, e, q, f : (Inner(N, L, p, e) /\ e.son = c /\ Inner(N, L, q, f) /\ f.son = c)
                       => p = q /\ e = f
    /\ \A p, e, q, f : (Inner(N, L, p, e) /\ e.son = c /\ Inner(N, L, q, f) /\ f.son # c
                        /\ L[f.son] = L[c])
                       => /\ e.key < f.key => LeftOf(N[c], N[f.son])
                          /\ f.key < e.key => LeftOf(N[f.son], N[c])

LEMMA AlignedIfExact ==
    ASSUME NEW N, NEW L, Layered(N, L), NEW X, Exact(N, L, X), NEW c \in DOMAIN L,
           \A x \in X : x \in DOMAIN L => L[x] # L[c]
    PROVE  Aligned(N, L, c)
  <1>0. c \notin X
    OBVIOUS
  <1>1. ASSUME NEW p, NEW e, NEW q, NEW f, Inner(N, L, p, e), e.son = c,
               Inner(N, L, q, f), f.son = c
        PROVE  p = q /\ e = f
    BY <1>0, <1>1, OneParent, Zenon
  <1>2. ASSUME NEW p, NEW e, NEW q, NEW f, Inner(N, L, p, e), e.son = c,
               Inner(N, L, q, f), f.son # c, L[f.son] = L[c]
        PROVE  /\ e.key < f.key => LeftOf(N[c], N[f.son])
               /\ f.key < e.key => LeftOf(N[f.son], N[c])
    <2>1. f.son \in DOMAIN L /\ Slots(N[f.son]) # {} /\ Slots(N[c]) # {}
      BY <1>2, LayeredFacts
    <2>2. e.key = Least(N[c]) /\ f.key = Least(N[f.son])
      BY <1>0, <1>2, <2>1 DEF Exact
    <2>3. LeftOf(N[c], N[f.son]) \/ LeftOf(N[f.son], N[c])
      <3>1. Beside(L, c, f.son)
        BY <1>2, <2>1 DEF Beside
      <3> QED
        BY <3>1, LayeredFacts
    <2>4. /\ Least(N[c]) \in Keys(N[c]) /\ Least(N[f.son]) \in Keys(N[f.son])
          /\ Least(N[c]) \in Nat /\ Least(N[f.son]) \in Nat
      <3>1. N[c] \in Nodes /\ Increasing(N[c]) /\ N[f.son] \in Nodes /\ Increasing(N[f.son])
        BY <2>1, LayeredFacts
      <3> QED
        BY <2>1, <3>1, LeastFacts
    <2>5. LeftOf(N[c], N[f.son]) => e.key < f.key
      BY <2>2, <2>4, Zenon DEF LeftOf
    <2>6. LeftOf(N[f.son], N[c]) => f.key < e.key
      BY <2>2, <2>4, Zenon DEF LeftOf
    <2>7. e.key \in Nat /\ f.key \in Nat
      BY <2>2, <2>4
    <2>8. ~(e.key < f.key /\ f.key < e.key)
      BY <2>7
    <2> QED
      BY <2>3, <2>5, <2>6, <2>8, Zenon
  <1> QED
    BY <1>1, <1>2, Zenon DEF Aligned

\* The slots at and above level l + 1 are among those of N and L.
LEMMA AlignedKept ==
    ASSUME NEW N, NEW L, NEW M, NEW K, NEW c \in DOMAIN K, Aligned(N, L, c), K[c] = L[c],
           Layered(N, L), Layered(M, K), c \in DOMAIN L, Keeps(N, M, L) \/ Keeps(N, M, K),
           \A q, f : (Inner(M, K, q, f) /\ K[f.son] = L[c])
                     => Inner(N, L, q, f) /\ L[f.son] = K[f.son]
    PROVE  Aligned(M, K, c)
  <1>1. ASSUME NEW p, NEW e, NEW q, NEW f, Inner(M, K, p, e), e.son = c,
               Inner(M, K, q, f), f.son = c
        PROVE  p = q /\ e = f
    <2>1. Inner(N, L, p, e) /\ Inner(N, L, q, f)
      BY <1>1
    <2> QED
      BY <1>1, <2>1, Zenon DEF Aligned
  <1>2. ASSUME NEW p, NEW e, NEW q, NEW f, Inner(M, K, p, e), e.son = c,
               Inner(M, K, q, f), f.son # c, K[f.son] = K[c]
        PROVE  /\ e.key < f.key => LeftOf(M[c], M[f.son])
               /\ f.key < e.key => LeftOf(M[f.son], M[c])
    <2>1. Inner(N, L, p, e) /\ Inner(N, L, q, f) /\ L[f.son] = L[c]
      BY <1>2
    <2>2. /\ e.key < f.key => LeftOf(N[c], N[f.son])
          /\ f.key < e.key => LeftOf(N[f.son], N[c])
      BY <1>2, <2>1, Zenon DEF Aligned
    <2>3. /\ Beside(L, c, f.son) /\ Beside(L, f.son, c)
          /\ Beside(K, c, f.son) /\ Beside(K, f.son, c)
      <3>1. f.son \in DOMAIN L /\ f.son \in DOMAIN K
        BY <1>2, <2>1, LayeredFacts
      <3> QED
        BY <1>2, <2>1, <3>1 DEF Beside
    <2> QED
      BY <2>1, <2>2, <2>3, Zenon DEF Keeps
  <1> QED
    BY <1>1, <1>2, Zenon DEF Aligned

SlotsReplaced(N, M, L, p, m) ==
    /\ \A q, e : q # p => (Inner(M, L, q, e) <=> Inner(N, L, q, e))
    /\ \A e : Inner(M, L, p, e) <=> L[p] > 0 /\ e \in Slots(m)
    /\ Aligned(N, L, p) => Aligned(M, L, p)

\* The slots after node m is put on page p.
LEMMA ReplacedSlots ==
    ASSUME NEW N, NEW L, Layered(N, L), NEW p \in DOMAIN L, NEW m, Fits(N, L, p, m),
           NEW M, Puts(N, M, p, m)
    PROVE  SlotsReplaced(N, M, L, p, m)
  <1>1. /\ Layered(M, L) /\ Keeps(N, M, L)
        /\ M[p] = m /\ \A q \in PageIds : q # p => M[q] = N[q]
    <2>1. Replaced(N, M, L, p, m)
      BY ReplaceNode
    <2> QED
      BY <2>1 DEF Replaced
  <1>2. \A q, e : q # p => (Inner(M, L, q, e) <=> Inner(N, L, q, e))
    <2>1. \A q \in DOMAIN L : q \in PageIds
      BY LayeredFacts
    <2> QED
      BY <1>1, <2>1, Zenon DEF Inner
  <1>3. \A e : Inner(M, L, p, e) <=> L[p] > 0 /\ e \in Slots(m)
    BY <1>1, Zenon DEF Inner
  <1>4. ASSUME Aligned(N, L, p) PROVE Aligned(M, L, p)
    <2>1. ASSUME NEW q, NEW f, Inner(M, L, q, f), L[f.son] = L[p]
          PROVE  Inner(N, L, q, f)
      <3>1. q # p
        <4>0. q \in DOMAIN L
          BY <2>1 DEF Inner
        <4>1. L[f.son] = L[q] - 1
          BY <1>1, <2>1, LayeredFacts
        <4>2. L[q] \in Nat
          BY <1>1, <4>0, LayeredFacts
        <4>3. \A x \in Nat : x - 1 # x
          OBVIOUS
        <4> QED
          BY <2>1, <4>1, <4>2, <4>3, Zenon
      <3> QED
        BY <1>2, <2>1, <3>1
    <2> QED
      BY <1>1, <1>4, <2>1, AlignedKept
  <1> QED
    BY <1>2, <1>3, <1>4 DEF SlotsReplaced

\* A layered tree while an operation goes up: the slot that leads to page c may
\* have another key than the least one of c.
Mid(N, L, c) ==
    /\ Layered(N, L)
    /\ c \in DOMAIN L
    /\ Exact(N, L, {c})
    /\ Aligned(N, L, c)

\* The same, when this may also be so for the page p above c.
Near(N, L, p, c) ==
    /\ Layered(N, L)
    /\ c \in DOMAIN L /\ p \in DOMAIN L
    /\ Exact(N, L, {c, p})
    /\ Aligned(N, L, c) /\ Aligned(N, L, p)

LEMMA MidNear ==
    ASSUME NEW N, NEW L, NEW c, Mid(N, L, c), NEW p, NEW e, Inner(N, L, p, e), e.son = c
    PROVE  Near(N, L, p, c)
  <1>1. Layered(N, L) /\ Exact(N, L, {c}) /\ Aligned(N, L, c) /\ c \in DOMAIN L
    BY DEF Mid
  <1>2. p \in DOMAIN L
    BY DEF Inner
  <1>3. L[c] = L[p] - 1 /\ L[p] \in Nat
    BY <1>1, <1>2, LayeredFacts
  <1>4. \A x \in Nat : x - 1 # x
    OBVIOUS
  <1>5. \A x \in {c} : x \in DOMAIN L => L[x] # L[p]
    BY <1>3, <1>4
  <1>6. Aligned(N, L, p)
    BY <1>1, <1>2, <1>5, AlignedIfExact
  <1>7. Exact(N, L, {c, p})
    BY <1>1 DEF Exact
  <1> QED
    BY <1>1, <1>2, <1>6, <1>7 DEF Near

\* The slot of page c among the slots of its level.
LEMMA LeastInOrder ==
    ASSUME NEW N, NEW L, NEW c, NEW p, Near(N, L, p, c), NEW e, Inner(N, L, p, e), e.son = c,
           NEW q, NEW f, Inner(N, L, q, f), p # q \/ e # f, L[p] = L[q]
    PROVE  /\ f.son # c /\ f.son \in DOMAIN L /\ f.key = Least(N[f.son])
           /\ Least(N[c]) \in Nat /\ Least(N[c]) \in Entries
           /\ f.key < e.key => f.key < Least(N[c]) /\ LeftOf(N[f.son], N[c])
           /\ e.key < f.key => Least(N[c]) < f.key /\ LeftOf(N[c], N[f.son])
  <1>1. Layered(N, L) /\ Exact(N, L, {c, p}) /\ Aligned(N, L, c) /\ c \in DOMAIN L
    BY DEF Near
  <1>2. f.son # c
    BY <1>1, Zenon DEF Aligned
  <1>3. /\ f.son \in DOMAIN L /\ L[f.son] = L[c] /\ Slots(N[f.son]) # {} /\ Slots(N[c]) # {}
    BY <1>1, LayeredFacts
  <1>4. f.key = Least(N[f.son])
    <2>1. f.son # p
      <3>1. L[c] = L[p] - 1 /\ p \in DOMAIN L
        BY <1>1, LayeredFacts DEF Near
      <3>2. L[p] \in Nat
        BY <1>1, <3>1, LayeredFacts
      <3>3. \A x \in Nat : x - 1 # x
        OBVIOUS
      <3> QED
        BY <1>3, <3>1, <3>2, <3>3, Zenon
    <2> QED
      BY <1>1, <1>2, <2>1 DEF Exact
  <1>5. /\ e.key < f.key => LeftOf(N[c], N[f.son])
        /\ f.key < e.key => LeftOf(N[f.son], N[c])
    BY <1>1, <1>2, <1>3, Zenon DEF Aligned
  <1>6. /\ Least(N[c]) \in Keys(N[c]) /\ Least(N[f.son]) \in Keys(N[f.son])
        /\ Least(N[c]) \in Nat /\ Least(N[c]) \in Entries
    <2>1. N[c] \in Nodes /\ Increasing(N[c]) /\ N[f.son] \in Nodes /\ Increasing(N[f.son])
      BY <1>1, <1>3, LayeredFacts
    <2> QED
      BY <1>3, <2>1, LeastFacts
  <1>7. /\ LeftOf(N[c], N[f.son]) => Least(N[c]) < f.key
        /\ LeftOf(N[f.son], N[c]) => f.key < Least(N[c])
    BY <1>4, <1>6, Zenon DEF LeftOf
  <1> QED
    BY <1>2, <1>3, <1>4, <1>5, <1>6, <1>7, Zenon

\* The slots of page p after the key of slot i became the least key of its son c.
SetsKey(N, M, p, i, k) == M = [N EXCEPT ![p].slots[i].key = k]

Raised(N, M, L, p, i, c) ==
    /\ Mid(M, L, p) /\ Keeps(N, M, L)
    /\ M[p].leaf = N[p].leaf /\ M[p].next = N[p].next /\ Count(M[p]) = Count(N[p])
    /\ Slots(M[p]) = (Slots(N[p]) \ {N[p].slots[i]}) \cup {[key |-> Least(N[c]), son |-> c]}
    /\ \A q \in PageIds : q # p => M[q] = N[q]
    /\ \A q, f : q # p => (Inner(M, L, q, f) <=> Inner(N, L, q, f))
    /\ \A s \in DOMAIN L : (\E q, f : Inner(N, L, q, f) /\ f.son = s)
                           => \E q, f : Inner(M, L, q, f) /\ f.son = s

\* The slot that leads to page c gets the least key of c.
LEMMA Raise ==
    ASSUME NEW N, NEW L, NEW c, NEW p, Near(N, L, p, c), NEW i \in 1 .. Count(N[p]),
           Inner(N, L, p, N[p].slots[i]), N[p].slots[i].son = c,
           NEW M, SetsKey(N, M, p, i, Least(N[c]))
    PROVE  Raised(N, M, L, p, i, c)
  <1>e. PICK e : e = N[p].slots[i]
    OBVIOUS
  <1>k. PICK k : k = Least(N[c])
    OBVIOUS
  <1>m. PICK m : m = [N[p] EXCEPT !.slots[i].key = k]
    OBVIOUS
  <1>d. PICK d : d = [key |-> k, son |-> c]
    OBVIOUS
  <1>0. d.key = k /\ d.son = c
    BY <1>d
  <1>1. /\ Layered(N, L) /\ Exact(N, L, {c, p}) /\ Aligned(N, L, c) /\ c \in DOMAIN L
        /\ Aligned(N, L, p)
    BY DEF Near
  <1>2. /\ p \in DOMAIN L /\ L[p] \in Nat /\ L[p] > 0 /\ e \in Slots(N[p]) /\ e.son = c
        /\ N[p] \in Nodes /\ Increasing(N[p]) /\ Inner(N, L, p, e) /\ p \in PageIds
    <2>1. p \in DOMAIN L /\ L[p] > 0 /\ e \in Slots(N[p]) /\ e.son = c /\ Inner(N, L, p, e)
      BY <1>e DEF Inner
    <2> QED
      BY <1>1, <2>1, LayeredFacts
  <1>3. L[c] = L[p] - 1 /\ Slots(N[c]) # {} /\ k \in Entries /\ k \in Nat
    <2>1. L[c] = L[p] - 1 /\ Slots(N[c]) # {}
      BY <1>1, <1>2, LayeredFacts
    <2>2. N[c] \in Nodes /\ Increasing(N[c])
      BY <1>1, LayeredFacts
    <2> QED
      BY <1>k, <2>1, <2>2, LeastFacts
  <1>4. ASSUME NEW q, NEW f, Inner(N, L, q, f), p # q \/ e # f, L[p] = L[q]
        PROVE  /\ f.son # c /\ f.son \in DOMAIN L /\ f.key = Least(N[f.son])
               /\ f.key < e.key => f.key < k
               /\ e.key < f.key => k < f.key
    BY <1>k, <1>2, <1>4, LeastInOrder
  <1>5. \A f \in Slots(N[p]) : f # e => Inner(N, L, p, f)
    BY <1>2, Zenon DEF Inner
  <1>6. \A f \in Slots(N[p]) : /\ f.key < e.key => f.key < k
                               /\ e.key < f.key => k < f.key
    <2>1. ~(e.key < e.key)
      <3>1. e.key \in Nat
        BY <1>1, <1>2, LayeredFacts
      <3> QED
        BY <3>1
    <2> QED
      BY <1>4, <1>5, <2>1, Zenon
  <1>7. /\ m \in Nodes /\ m.leaf = N[p].leaf /\ m.next = N[p].next
        /\ Count(m) = Count(N[p])
        /\ Increasing(m)
        /\ Slots(m) = (Slots(N[p]) \ {e}) \cup {d}
    <2>1. /\ m \in Nodes /\ m.leaf = N[p].leaf /\ m.next = N[p].next
          /\ Count(m) = Count(N[p])
          /\ Increasing(m)
          /\ Slots(m) = (Slots(N[p]) \ {e}) \cup {[key |-> k, son |-> e.son]}
      BY <1>e, <1>m, <1>2, <1>3, <1>6, KeySets
    <2> QED
      BY <2>1, <1>2, <1>d
  <1>8. Fits(N, L, p, m)
    <2>1. ASSUME NEW q, Beside(L, p, q), LeftOf(N[p], N[q]) PROVE LeftOf(m, N[q])
      <3>1. q \in DOMAIN L /\ q # p /\ L[p] = L[q] /\ L[q] > 0
        BY <1>2, <2>1, BesideFacts
      <3>2. \A f \in Slots(N[q]) : k < f.key
        <4>1. \A f \in Slots(N[q]) : Inner(N, L, q, f)
          BY <3>1 DEF Inner
        <4>2. \A f \in Slots(N[q]) : e.key < f.key
          BY <2>1, <1>2, Zenon DEF LeftOf, Keys
        <4> QED
          BY <1>4, <3>1, <4>1, <4>2, Zenon
      <3>3. ASSUME NEW g \in Slots(m), NEW f \in Slots(N[q]) PROVE g.key < f.key
        <4>1. CASE g = d
          BY <1>0, <3>2, <4>1
        <4>2. CASE g \in Slots(N[p])
          BY <2>1, <4>2, Zenon DEF LeftOf, Keys
        <4> QED
          BY <1>7, <4>1, <4>2
      <3> QED
        BY <3>3, Zenon DEF LeftOf, Keys
    <2>2. ASSUME NEW q, Beside(L, p, q), LeftOf(N[q], N[p]) PROVE LeftOf(N[q], m)
      <3>1. q \in DOMAIN L /\ q # p /\ L[p] = L[q] /\ L[q] > 0
        BY <1>2, <2>2, BesideFacts
      <3>2. \A f \in Slots(N[q]) : f.key < k
        <4>1. \A f \in Slots(N[q]) : Inner(N, L, q, f)
          BY <3>1 DEF Inner
        <4>2. \A f \in Slots(N[q]) : f.key < e.key
          BY <2>2, <1>2, Zenon DEF LeftOf, Keys
        <4> QED
          BY <1>4, <3>1, <4>1, <4>2, Zenon
      <3>3. ASSUME NEW g \in Slots(m), NEW f \in Slots(N[q]) PROVE f.key < g.key
        <4>1. CASE g = d
          BY <1>0, <3>2, <4>1
        <4>2. CASE g \in Slots(N[p])
          BY <2>2, <4>2, Zenon DEF LeftOf, Keys
        <4> QED
          BY <1>7, <4>1, <4>2
      <3> QED
        BY <3>3, Zenon DEF LeftOf, Keys
    <2>3. ASSUME NEW g \in Slots(m)
          PROVE  g.son \in DOMAIN L /\ L[g.son] = L[p] - 1 /\ Slots(N[g.son]) # {}
      <3>1. CASE g = d
        BY <1>0, <1>1, <1>3, <3>1
      <3>2. CASE g \in Slots(N[p])
        <4>1. Inner(N, L, p, g)
          BY <1>2, <3>2 DEF Inner
        <4> QED
          BY <1>1, <4>1, LayeredFacts
      <3> QED
        BY <1>7, <3>1, <3>2
    <2>4. Slots(m) # {}
      BY <1>7
    <2> QED
      BY <1>7, <2>1, <2>2, <2>3, <2>4, Zenon DEF Fits
  <1>9. Puts(N, M, p, m)
    BY <1>k, <1>m DEF Puts, SetsKey
  <1>10. /\ Layered(M, L) /\ Keeps(N, M, L)
         /\ M[p] = m /\ \A q \in PageIds : q # p => M[q] = N[q]
    <2>1. Replaced(N, M, L, p, m)
      BY <1>1, <1>2, <1>8, <1>9, ReplaceNode
    <2> QED
      BY <2>1 DEF Replaced
  <1>11. /\ \A q, f : q # p => (Inner(M, L, q, f) <=> Inner(N, L, q, f))
         /\ \A f : Inner(M, L, p, f) <=> L[p] > 0 /\ f \in Slots(m)
         /\ Aligned(N, L, p) => Aligned(M, L, p)
    <2>1. SlotsReplaced(N, M, L, p, m)
      BY <1>1, <1>2, <1>8, <1>9, ReplacedSlots
    <2> QED
      BY <2>1 DEF SlotsReplaced
  <1>12. Aligned(M, L, p)
    BY <1>1, <1>11
  <1>13. Exact(M, L, {p})
    <2>1. ASSUME NEW q, NEW f, Inner(M, L, q, f), f.son # p
          PROVE  f.key = Least(M[f.son])
      <3>1. f.son \in DOMAIN L /\ f.son \in PageIds /\ M[f.son] = N[f.son]
        BY <1>10, <2>1, LayeredFacts
      <3>2. CASE q = p /\ f = d
        BY <1>0, <1>k, <3>1, <3>2
      <3>3. CASE q = p /\ f # d
        <4>1. f \in Slots(N[p]) /\ f # e
          BY <1>7, <1>11, <2>1, <3>3
        <4> QED
          BY <1>4, <1>5, <3>1, <4>1
      <3>4. CASE q # p
        <4>1. Inner(N, L, q, f)
          BY <1>11, <2>1, <3>4
        <4>2. f.son # c
          BY <1>1, <1>2, <3>4, <4>1, Zenon DEF Aligned
        <4> QED
          BY <1>1, <2>1, <3>1, <4>1, <4>2 DEF Exact
      <3> QED
        BY <3>2, <3>3, <3>4
    <2> QED
      BY <2>1, Zenon DEF Exact
  <1>14. ASSUME NEW s, NEW q, NEW f, Inner(N, L, q, f), f.son = s
         PROVE  \E r, g : Inner(M, L, r, g) /\ g.son = s
    <2>1. CASE q # p
      BY <1>11, <1>14, <2>1
    <2>2. CASE q = p /\ f # e
      <3>1. f \in Slots(m)
        BY <1>7, <1>14, <2>2 DEF Inner
      <3> QED
        BY <1>2, <1>11, <1>14, <2>2, <3>1
    <2>3. CASE q = p /\ f = e
      <3>1. d \in Slots(m) /\ d.son = s
        BY <1>0, <1>2, <1>7, <1>14, <2>3
      <3> QED
        BY <1>2, <1>11, <3>1
    <2> QED
      BY <2>1, <2>2, <2>3
  <1>15. Mid(M, L, p)
    BY <1>2, <1>10, <1>12, <1>13 DEF Mid
  <1>16. Slots(m) = (Slots(N[p]) \ {N[p].slots[i]}) \cup {[key |-> Least(N[c]), son |-> c]}
    BY <1>7, <1>d, <1>e, <1>k
  <1>17. M[p].leaf = N[p].leaf /\ M[p].next = N[p].next /\ Count(M[p]) = Count(N[p])
    BY <1>7, <1>10
  <1>18. Slots(M[p]) = (Slots(N[p]) \ {N[p].slots[i]}) \cup {[key |-> Least(N[c]), son |-> c]}
    BY <1>10, <1>16
  <1> QED
    BY <1>10, <1>11, <1>14, <1>15, <1>17, <1>18, Zenon DEF Raised

\* A node fits on an inner page if its slots do one by one.
LEMMA FitsInner ==
    ASSUME NEW N, NEW L, Layered(N, L), NEW p \in DOMAIN L, L[p] > 0, NEW m \in Nodes,
           m.leaf = N[p].leaf, m.next = N[p].next, Increasing(m), Slots(m) # {},
           \A e \in Slots(m) :
              \/ e \in Slots(N[p])
              \/ /\ e.son \in DOMAIN L /\ L[e.son] = L[p] - 1 /\ Slots(N[e.son]) # {}
                 /\ \A q : Beside(L, p, q) =>
                       /\ LeftOf(N[p], N[q]) => \A f \in Slots(N[q]) : e.key < f.key
                       /\ LeftOf(N[q], N[p]) => \A f \in Slots(N[q]) : f.key < e.key
    PROVE  Fits(N, L, p, m)
  <1>1. ASSUME NEW q, Beside(L, p, q), LeftOf(N[p], N[q]) PROVE LeftOf(m, N[q])
    <2>1. ASSUME NEW e \in Slots(m), NEW f \in Slots(N[q]) PROVE e.key < f.key
      BY <1>1, Zenon DEF LeftOf, Keys
    <2> QED
      BY <2>1, Zenon DEF LeftOf, Keys
  <1>2. ASSUME NEW q, Beside(L, p, q), LeftOf(N[q], N[p]) PROVE LeftOf(N[q], m)
    <2>1. ASSUME NEW e \in Slots(m), NEW f \in Slots(N[q]) PROVE f.key < e.key
      BY <1>2, Zenon DEF LeftOf, Keys
    <2> QED
      BY <2>1, Zenon DEF LeftOf, Keys
  <1>3. ASSUME NEW e \in Slots(m)
        PROVE  e.son \in DOMAIN L /\ L[e.son] = L[p] - 1 /\ Slots(N[e.son]) # {}
    <2>1. CASE e \in Slots(N[p])
      <3>1. Inner(N, L, p, e)
        BY <2>1 DEF Inner
      <3> QED
        BY <3>1, LayeredFacts
    <2> QED
      BY <2>1
  <1> QED
    BY <1>1, <1>2, <1>3, Zenon DEF Fits

\* The page after a son, when no slot leads to it yet.
LEMMA NextInOrder ==
    ASSUME NEW N, NEW L, NEW p, Mid(N, L, p), NEW e, Inner(N, L, p, e),
           NEW o, o = N[e.son].next, o # NoNode, Slots(N[o]) # {},
           \A q, f : Inner(N, L, q, f) => f.son # o
    PROVE  /\ o \in DOMAIN L /\ L[o] = L[p] - 1 /\ Least(N[o]) \in Entries
           /\ Least(N[o]) \in Nat /\ e.key < Least(N[o])
           /\ \A q, f : Inner(N, L, q, f) /\ L[q] = L[p] /\ (q # p \/ f # e)
                        => /\ f.key < e.key => f.key < Least(N[o])
                           /\ e.key < f.key => Least(N[o]) < f.key
                           /\ f.key < e.key \/ e.key < f.key
  <1>c. PICK c : c = e.son
    OBVIOUS
  <1>1. Layered(N, L) /\ Exact(N, L, {p}) /\ Linked(N, L)
    BY DEF Mid, Layered
  <1>2. /\ p \in DOMAIN L /\ L[p] > 0 /\ L[p] \in Nat
        /\ c \in DOMAIN L /\ L[c] = L[p] - 1 /\ Slots(N[c]) # {} /\ e.key \in Nat
    <2>1. p \in DOMAIN L /\ L[p] > 0
      BY DEF Inner
    <2> QED
      BY <1>1, <1>c, <2>1, LayeredFacts
  <1>3. Beside(L, c, o) /\ LeftOf(N[c], N[o])
        /\ \A q : Beside(L, c, q) /\ q # o => LeftOf(N[q], N[c]) \/ LeftOf(N[o], N[q])
    <2>1. IsNext(N, L, c, o)
      BY <1>1, <1>2, <1>c DEF Linked
    <2> QED
      BY <2>1, Zenon DEF IsNext
  <1>4. o \in DOMAIN L /\ L[o] = L[c]
    BY <1>3, BesideFacts
  <1>5. ASSUME NEW s \in DOMAIN L, Slots(N[s]) # {}
        PROVE  Least(N[s]) \in Nat /\ Least(N[s]) \in Entries /\ Least(N[s]) \in Keys(N[s])
    <2>1. N[s] \in Nodes /\ Increasing(N[s])
      BY <1>1, LayeredFacts
    <2> QED
      BY <1>5, <2>1, LeastFacts
  <1>6. c # p
    <2>1. \A x \in Nat : x - 1 # x
      OBVIOUS
    <2> QED
      BY <1>2, <2>1, Zenon
  <1>7. e.key = Least(N[c])
    BY <1>1, <1>6, <1>c DEF Exact
  <1>8. e.key < Least(N[o])
    BY <1>2, <1>3, <1>4, <1>5, <1>7, Zenon DEF LeftOf
  <1>9. ASSUME NEW q, NEW f, Inner(N, L, q, f), L[q] = L[p], q # p \/ f # e
        PROVE  /\ f.key < e.key => f.key < Least(N[o])
               /\ e.key < f.key => Least(N[o]) < f.key
               /\ f.key < e.key \/ e.key < f.key
    <2>s. PICK s : s = f.son
      OBVIOUS
    <2>1. /\ s \in DOMAIN L /\ L[s] = L[p] - 1 /\ Slots(N[s]) # {} /\ f.key \in Nat
      BY <1>1, <1>9, <2>s, LayeredFacts
    <2>2. s # o /\ s # c
      <3>1. s # c
        BY <1>1, <1>6, <1>9, <1>c, <2>s, OneParent
      <3> QED
        BY <1>9, <2>s, <3>1
    <2>3. s # p
      BY <1>2, <2>1
    <2>4. f.key = Least(N[s])
      BY <1>1, <1>9, <2>3, <2>s DEF Exact
    <2>5. Beside(L, c, s)
      BY <1>2, <2>1, <2>2 DEF Beside
    <2>6. LeftOf(N[s], N[c]) \/ LeftOf(N[o], N[s])
      BY <1>3, <2>2, <2>5
    <2>7. LeftOf(N[s], N[c]) => f.key < e.key
      BY <1>2, <1>5, <1>7, <2>1, <2>4, Zenon DEF LeftOf
    <2>8. LeftOf(N[o], N[s]) => Least(N[o]) < f.key
      BY <1>4, <1>5, <2>1, <2>4, Zenon DEF LeftOf
    <2>9. Least(N[o]) \in Nat
      BY <1>4, <1>5
    <2> QED
      BY <1>2, <1>8, <2>1, <2>6, <2>7, <2>8, <2>9
  <1>10. Least(N[o]) \in Nat /\ Least(N[o]) \in Entries
    BY <1>4, <1>5
  <1>11. L[o] = L[p] - 1
    BY <1>2, <1>4
  <1> QED
    BY <1>4, <1>8, <1>9, <1>10, <1>11, Zenon

\* Page p has got the slot m has more than its node: the key k and the son o.
SonAdded(N, M, L, p, m, k, o) ==
    /\ Mid(M, L, p) /\ Replaced(N, M, L, p, m)
    /\ m \in Nodes /\ m.leaf = N[p].leaf /\ m.next = N[p].next
    /\ Count(m) = Count(N[p]) + 1
    /\ Slots(m) = Slots(N[p]) \cup {[key |-> k, son |-> o]}
    /\ SlotsReplaced(N, M, L, p, m)

\* Page p gets a slot for the page after its son c.
LEMMA AddSon ==
    ASSUME NEW N, NEW L, NEW p, Mid(N, L, p), NEW e, Inner(N, L, p, e),
           NEW o, o = N[e.son].next, o # NoNode, Slots(N[o]) # {},
           \A q, f : Inner(N, L, q, f) => f.son # o,
           NEW k, k = Least(N[o]),
           NEW m, m = InsertSlot(N[p], LowerBound(N[p], k), k, o),
           NEW M, Puts(N, M, p, m)
    PROVE  SonAdded(N, M, L, p, m, k, o)
  <1>1. Layered(N, L) /\ Exact(N, L, {p}) /\ Aligned(N, L, p)
    BY DEF Mid
  <1>2. /\ p \in DOMAIN L /\ L[p] > 0 /\ L[p] \in Nat /\ e \in Slots(N[p]) /\ p \in PageIds
        /\ N[p] \in Nodes /\ Increasing(N[p])
    <2>1. p \in DOMAIN L /\ L[p] > 0 /\ e \in Slots(N[p])
      BY DEF Inner
    <2> QED
      BY <1>1, <2>1, LayeredFacts
  <1>3. /\ o \in DOMAIN L /\ L[o] = L[p] - 1 /\ k \in Entries /\ k \in Nat /\ e.key < k
        /\ \A q, f : Inner(N, L, q, f) /\ L[q] = L[p] /\ (q # p \/ f # e)
                     => /\ f.key < e.key => f.key < k
                        /\ e.key < f.key => k < f.key
                        /\ f.key < e.key \/ e.key < f.key
    BY NextInOrder
  <1>4. \A f \in Slots(N[p]) : Inner(N, L, p, f)
    BY <1>2 DEF Inner
  <1>5. k \notin Keys(N[p])
    <2>1. ASSUME NEW f \in Slots(N[p]), f.key = k PROVE FALSE
      <3>1. f # e
        BY <1>3, <2>1
      <3>2. f.key < k \/ k < f.key
        BY <1>3, <1>4, <3>1, Zenon
      <3> QED
        BY <1>3, <2>1, <3>2
    <2> QED
      BY <2>1, Zenon DEF Keys
  <1>6. o \in PageIds /\ o # p
    <2>1. o \in PageIds
      BY <1>1, <1>3, LayeredFacts
    <2> QED
      BY <1>2, <1>3, <2>1
  <1>d. PICK d : d = [key |-> k, son |-> o]
    OBVIOUS
  <1>7. /\ m \in Nodes /\ m.leaf = N[p].leaf /\ m.next = N[p].next
        /\ Count(m) = Count(N[p]) + 1 /\ Increasing(m)
        /\ Slots(m) = Slots(N[p]) \cup {d}
    BY <1>2, <1>3, <1>5, <1>6, <1>d, InsertSets
  <1>8. d.key = k /\ d.son = o
    BY <1>d
  <1>9. Fits(N, L, p, m)
    <2>1. ASSUME NEW q, Beside(L, p, q)
          PROVE  /\ LeftOf(N[p], N[q]) => \A f \in Slots(N[q]) : k < f.key
                 /\ LeftOf(N[q], N[p]) => \A f \in Slots(N[q]) : f.key < k
      <3>1. q \in DOMAIN L /\ q # p /\ L[p] = L[q] /\ L[q] > 0
        BY <1>2, <2>1, BesideFacts
      <3>2. \A f \in Slots(N[q]) : Inner(N, L, q, f)
        BY <3>1 DEF Inner
      <3>3. /\ LeftOf(N[p], N[q]) => \A f \in Slots(N[q]) : e.key < f.key
            /\ LeftOf(N[q], N[p]) => \A f \in Slots(N[q]) : f.key < e.key
        BY <1>2, Zenon DEF LeftOf, Keys
      <3> QED
        BY <1>3, <3>1, <3>2, <3>3, Zenon
    <2>2. ASSUME NEW g \in Slots(m)
          PROVE  \/ g \in Slots(N[p])
                 \/ /\ g.son \in DOMAIN L /\ L[g.son] = L[p] - 1 /\ Slots(N[g.son]) # {}
                    /\ \A q : Beside(L, p, q) =>
                         /\ LeftOf(N[p], N[q]) => \A f \in Slots(N[q]) : g.key < f.key
                         /\ LeftOf(N[q], N[p]) => \A f \in Slots(N[q]) : f.key < g.key
      <3>1. CASE g = d
        BY <1>3, <1>8, <2>1, <3>1, Zenon
      <3>2. CASE g # d
        BY <1>7, <3>2
      <3> QED
        BY <3>1, <3>2
    <2>3. Slots(m) # {}
      BY <1>7
    <2> QED
      BY <1>1, <1>2, <1>7, <2>2, <2>3, FitsInner
  <1>10. Replaced(N, M, L, p, m) /\ SlotsReplaced(N, M, L, p, m)
    BY <1>1, <1>2, <1>9, ReplaceNode, ReplacedSlots
  <1>11. Layered(M, L) /\ M[p] = m /\ \A q \in PageIds : q # p => M[q] = N[q]
    BY <1>10, Zenon DEF Replaced
  <1>12. /\ \A q, f : q # p => (Inner(M, L, q, f) <=> Inner(N, L, q, f))
         /\ \A f : Inner(M, L, p, f) <=> L[p] > 0 /\ f \in Slots(m)
         /\ Aligned(M, L, p)
    BY <1>1, <1>10, Zenon DEF SlotsReplaced
  <1>13. Exact(M, L, {p})
    <2>1. ASSUME NEW q, NEW f, Inner(M, L, q, f), f.son # p
          PROVE  f.key = Least(M[f.son])
      <3>1. M[f.son] = N[f.son]
        <4>1. f.son \in DOMAIN L
          BY <1>11, <2>1, LayeredFacts
        <4>2. f.son \in PageIds
          BY <1>1, <4>1, LayeredFacts
        <4> QED
          BY <1>11, <2>1, <4>2
      <3>2. CASE q = p /\ f = d
        BY <1>8, <3>1, <3>2
      <3>3. CASE ~(q = p /\ f = d)
        <4>1. Inner(N, L, q, f)
          BY <1>4, <1>7, <1>12, <2>1, <3>3
        <4> QED
          BY <1>1, <2>1, <3>1, <4>1 DEF Exact
      <3> QED
        BY <3>2, <3>3
    <2> QED
      BY <2>1, Zenon DEF Exact
  <1>14. Mid(M, L, p)
    BY <1>2, <1>11, <1>12, <1>13 DEF Mid
  <1> QED
    BY <1>7, <1>10, <1>14, <1>d DEF SonAdded

\* The levels L with page o on the level of page p.
Joins(L, K, p, o) == K = [q \in DOMAIN L \cup {o} |-> IF q = o THEN L[p] ELSE L[q]]

LEMMA JoinedLevels ==
    ASSUME NEW L, Leveled(L), NEW p \in DOMAIN L, NEW o \in PageIds \ InitialPages,
           o \notin DOMAIN L, NEW K, Joins(L, K, p, o)
    PROVE  /\ Leveled(K) /\ DOMAIN K = DOMAIN L \cup {o} /\ K[o] = L[p]
           /\ \A q \in DOMAIN L : K[q] = L[q] /\ q # o
           /\ \A q, s : Beside(L, q, s) => Beside(K, q, s)
           /\ \A q, s : Beside(K, q, s) => \/ Beside(L, q, s)
                                           \/ q = o /\ (s = p \/ Beside(L, p, s))
                                           \/ s = o /\ (q = p \/ Beside(L, p, q))
           /\ Beside(K, p, o)
  <1>1. L \in [DOMAIN L -> Nat] /\ DOMAIN L \subseteq PageIds \ InitialPages
    BY DEF Leveled
  <1>2. /\ DOMAIN K = DOMAIN L \cup {o} /\ K[o] = L[p]
        /\ \A q \in DOMAIN L : K[q] = L[q] /\ q # o
    BY DEF Joins
  <1>3. Leveled(K)
    <2>1. K \in [DOMAIN L \cup {o} -> Nat]
      BY <1>1 DEF Joins
    <2> QED
      BY <1>1, <1>2, <2>1 DEF Leveled
  <1>4. \A q, s : Beside(L, q, s) => Beside(K, q, s)
    BY <1>2, Zenon DEF Beside
  <1>5. ASSUME NEW q, NEW s, Beside(K, q, s)
        PROVE  \/ Beside(L, q, s)
               \/ q = o /\ (s = p \/ Beside(L, p, s))
               \/ s = o /\ (q = p \/ Beside(L, p, q))
    <2>1. q \in DOMAIN K /\ s \in DOMAIN K /\ q # s /\ K[q] = K[s]
      BY <1>5 DEF Beside
    <2>2. CASE q = o
      <3>1. s \in DOMAIN L /\ L[s] = L[p]
        BY <1>2, <2>1, <2>2
      <3> QED
        BY <2>2, <3>1, Zenon DEF Beside
    <2>3. CASE s = o
      <3>1. q \in DOMAIN L /\ L[q] = L[p]
        BY <1>2, <2>1, <2>3
      <3> QED
        BY <2>3, <3>1, Zenon DEF Beside
    <2>4. CASE q # o /\ s # o
      <3>1. q \in DOMAIN L /\ s \in DOMAIN L /\ L[q] = L[s]
        BY <1>2, <2>1, <2>4
      <3> QED
        BY <2>1, <3>1, Zenon DEF Beside
    <2> QED
      BY <2>2, <2>3, <2>4
  <1>6. Beside(K, p, o)
    BY <1>2 DEF Beside
  <1> QED
    BY <1>2, <1>3, <1>4, <1>5, <1>6

\* A node and the two that it is split into, against a third one.
LEMMA HalvesBeside ==
    ASSUME NEW n, NEW l, NEW r, Slots(n) = Slots(l) \cup Slots(r), NEW m
    PROVE  /\ LeftOf(n, m) => LeftOf(l, m) /\ LeftOf(r, m)
           /\ LeftOf(m, n) => LeftOf(m, l) /\ LeftOf(m, r)
  <1>1. Keys(l) \subseteq Keys(n) /\ Keys(r) \subseteq Keys(n)
    BY DEF Keys
  <1> QED
    BY <1>1, Zenon DEF LeftOf

\* Page p after its node is split with the new page o.
Halved(N, L, M, K, p, o) ==
    /\ Layered(M, K) /\ Keeps(N, M, L)
    /\ M[p].next = o /\ Slots(M[o]) # {} /\ Slots(M[p]) # {}
    /\ M[p].leaf = N[p].leaf /\ M[o].leaf = N[p].leaf
    /\ Slots(N[p]) = Slots(M[p]) \cup Slots(M[o])
    /\ Count(M[p]) = Count(N[p]) \div 2
    /\ Count(M[o]) = Count(N[p]) - Count(N[p]) \div 2
    /\ \A q \in PageIds : q # p /\ q # o => M[q] = N[q]
    /\ LeftOf(M[p], M[o])

LEMMA SplitPage ==
    ASSUME NEW N, NEW L, Layered(N, L), NEW p \in DOMAIN L, Count(N[p]) >= 2,
           NEW o \in PageIds \ InitialPages, o \notin DOMAIN L,
           NEW K, Joins(L, K, p, o),
           NEW M, M = [N EXCEPT ![p] = LeftHalf(N[p], o), ![o] = RightHalf(N[p])]
    PROVE  Halved(N, L, M, K, p, o)
  <1>n. PICK n : n = N[p]
    OBVIOUS
  <1>l. PICK l : l = LeftHalf(n, o)
    OBVIOUS
  <1>r. PICK r : r = RightHalf(n)
    OBVIOUS
  <1>1. /\ N \in [PageIds -> Nodes] /\ Leveled(L) /\ LeavesBelow(N, L) /\ Ordered(N, L)
        /\ Linked(N, L) /\ SonsBelow(N, L)
    BY DEF Layered
  <1>2. n \in Nodes /\ Increasing(n) /\ p \in PageIds /\ o \in PageIds /\ p # o
    BY <1>n, LayeredFacts
  <1>3. /\ l \in Nodes /\ l.leaf = n.leaf /\ l.next = o
        /\ r \in Nodes /\ r.leaf = n.leaf /\ r.next = n.next
        /\ Count(l) = Count(n) \div 2 /\ Count(r) = Count(n) - Count(n) \div 2
        /\ Increasing(l) /\ Increasing(r)
        /\ Slots(n) = Slots(l) \cup Slots(r)
        /\ LeftOf(l, r)
        /\ Slots(l) # {} /\ Slots(r) # {}
    BY <1>n, <1>l, <1>r, <1>2, SplitSets
  <1>4. /\ M \in [PageIds -> Nodes] /\ M[p] = l /\ M[o] = r
        /\ \A q \in PageIds : q # p /\ q # o => M[q] = N[q]
    BY <1>n, <1>l, <1>r, <1>1, <1>2, <1>3
  <1>5. /\ Leveled(K) /\ DOMAIN K = DOMAIN L \cup {o} /\ K[o] = L[p]
        /\ \A q \in DOMAIN L : K[q] = L[q] /\ q # o
        /\ \A q, s : Beside(L, q, s) => Beside(K, q, s)
        /\ \A q, s : Beside(K, q, s) => \/ Beside(L, q, s)
                                        \/ q = o /\ (s = p \/ Beside(L, p, s))
                                        \/ s = o /\ (q = p \/ Beside(L, p, q))
        /\ Beside(K, p, o)
    BY <1>1, JoinedLevels
  <1>6. ASSUME NEW q \in DOMAIN L, q # p PROVE q \in PageIds /\ M[q] = N[q]
    <2>1. q \in PageIds /\ q # o
      BY <1>5, LayeredFacts
    <2> QED
      BY <1>4, <1>6, <2>1
  <1>7. ASSUME NEW q, Beside(L, p, q)
        PROVE  /\ LeftOf(n, N[q]) => LeftOf(l, M[q]) /\ LeftOf(r, M[q])
               /\ LeftOf(N[q], n) => LeftOf(M[q], l) /\ LeftOf(M[q], r)
               /\ LeftOf(n, N[q]) \/ LeftOf(N[q], n)
    <2>1. M[q] = N[q]
      BY <1>6, <1>7, BesideFacts
    <2>2. LeftOf(n, N[q]) \/ LeftOf(N[q], n)
      BY <1>n, <1>7, LayeredFacts
    <2> QED
      BY <1>3, <2>1, <2>2, HalvesBeside
  <1>8. Keeps(N, M, L)
    <2>1. ASSUME NEW q, NEW s, Beside(L, q, s), LeftOf(N[q], N[s])
          PROVE  LeftOf(M[q], M[s])
      <3>1. CASE q = p
        BY <1>n, <1>4, <1>7, <2>1, <3>1
      <3>2. CASE s = p
        <4>1. Beside(L, p, q)
          BY <2>1, <3>2, BesideFacts
        <4> QED
          BY <1>n, <1>4, <1>7, <2>1, <3>2, <4>1
      <3>3. CASE q # p /\ s # p
        BY <1>6, <2>1, <3>3, BesideFacts
      <3> QED
        BY <3>1, <3>2, <3>3
    <2> QED
      BY <2>1, Zenon DEF Keeps
  <1>9. LeavesBelow(M, K)
    <2>1. ASSUME NEW q \in DOMAIN K PROVE M[q].leaf <=> K[q] = 0
      <3>1. CASE q = o \/ q = p
        <4>1. n.leaf <=> L[p] = 0
          BY <1>n, <1>1 DEF LeavesBelow
        <4>2. K[q] = L[p]
          BY <1>5, <3>1
        <4>3. M[q].leaf = n.leaf
          BY <1>3, <1>4, <3>1
        <4> QED
          BY <4>1, <4>2, <4>3
      <3>2. CASE q # o /\ q # p
        BY <1>1, <1>5, <1>6, <3>2 DEF LeavesBelow
      <3> QED
        BY <3>1, <3>2
    <2> QED
      BY <2>1 DEF LeavesBelow
  <1>10. Ordered(M, K)
    <2>1. ASSUME NEW q \in DOMAIN K PROVE Increasing(M[q])
      <3>1. CASE q = o \/ q = p
        BY <1>3, <1>4, <3>1
      <3>2. CASE q # o /\ q # p
        BY <1>1, <1>5, <1>6, <3>2 DEF Ordered
      <3> QED
        BY <3>1, <3>2
    <2>2. ASSUME NEW q, NEW s, Beside(K, q, s)
          PROVE  LeftOf(M[q], M[s]) \/ LeftOf(M[s], M[q])
      <3>1. CASE Beside(L, q, s)
        <4>1. LeftOf(N[q], N[s]) \/ LeftOf(N[s], N[q])
          BY <3>1, LayeredFacts
        <4> QED
          BY <1>8, <3>1, <4>1, BesideFacts DEF Keeps
      <3>2. CASE q = o /\ (s = p \/ Beside(L, p, s))
        BY <1>3, <1>4, <1>7, <3>2
      <3>3. CASE s = o /\ (q = p \/ Beside(L, p, q))
        BY <1>3, <1>4, <1>7, <3>3
      <3> QED
        BY <1>5, <2>2, <3>1, <3>2, <3>3
    <2> QED
      BY <2>1, <2>2 DEF Ordered
  <1>11. Linked(M, K)
    <2>1. IsNext(M, K, p, o)
      <3>1. o # NoNode /\ LeftOf(M[p], M[o]) /\ Beside(K, p, o)
        BY <1>3, <1>4, <1>5 DEF NoNode, InitialPages
      <3>2. ASSUME NEW q, Beside(K, p, q), q # o
            PROVE  LeftOf(M[q], M[p]) \/ LeftOf(M[o], M[q])
        <4>1. Beside(L, p, q)
          BY <1>2, <1>5, <3>2
        <4> QED
          BY <1>4, <1>7, <4>1
      <3> QED
        BY <3>1, <3>2, Zenon DEF IsNext
    <2>2. IsNext(M, K, o, n.next)
      <3>1. IsNext(N, L, p, n.next)
        BY <1>n, <1>1 DEF Linked
      <3>2. \A q : Beside(K, o, q) => q = p \/ Beside(L, p, q)
        <4>1. ASSUME NEW q, Beside(K, o, q) PROVE q = p \/ Beside(L, p, q)
          <5>1. q # o /\ ~Beside(L, o, q)
            BY <4>1, BesideFacts
          <5> QED
            BY <1>5, <4>1, <5>1
        <4> QED
          BY <4>1
      <3>3. CASE n.next = NoNode
        <4>1. \A q : Beside(L, p, q) => LeftOf(N[q], n)
          BY <1>n, <3>1, <3>3 DEF IsNext
        <4>2. \A q : Beside(K, o, q) => LeftOf(M[q], M[o])
          BY <1>3, <1>4, <1>7, <3>2, <4>1
        <4> QED
          BY <3>3, <4>2, Zenon DEF IsNext
      <3>4. CASE n.next # NoNode
        <4>x. PICK x : x = n.next
          OBVIOUS
        <4>1. /\ Beside(L, p, x) /\ LeftOf(n, N[x])
              /\ \A q : Beside(L, p, q) /\ q # x => LeftOf(N[q], n) \/ LeftOf(N[x], N[q])
          BY <1>n, <3>1, <3>4, <4>x, Zenon DEF IsNext
        <4>2. Beside(K, o, x) /\ LeftOf(M[o], M[x])
          <5>1. x \in DOMAIN L /\ L[x] = L[p]
            BY <4>1, BesideFacts
          <5>2. Beside(K, o, x)
            BY <1>5, <5>1 DEF Beside
          <5> QED
            BY <1>4, <1>7, <4>1, <5>2
        <4>3. ASSUME NEW q, Beside(K, o, q), q # x
              PROVE  LeftOf(M[q], M[o]) \/ LeftOf(M[x], M[q])
          <5>1. CASE q = p
            BY <1>3, <1>4, <5>1
          <5>2. CASE Beside(L, p, q)
            <6>1. M[x] = N[x] /\ M[q] = N[q]
              BY <1>6, <4>1, <5>2, BesideFacts
            <6> QED
              BY <1>4, <1>7, <4>1, <4>3, <5>2, <6>1
          <5> QED
            BY <3>2, <4>3, <5>1, <5>2
        <4> QED
          BY <3>4, <4>x, <4>2, <4>3, Zenon DEF IsNext
      <3> QED
        BY <3>3, <3>4
    <2>3. ASSUME NEW q \in DOMAIN L, q # p PROVE IsNext(M, K, q, N[q].next)
      <3>1. IsNext(N, L, q, N[q].next)
        BY <1>1 DEF Linked
      <3>2. q # o /\ M[q] = N[q]
        BY <1>5, <1>6, <2>3
      <3>3. \A s : Beside(K, q, s) => Beside(L, q, s) \/ (s = o /\ Beside(L, p, q))
        BY <1>5, <2>3, <3>2, Zenon
      <3>4. CASE N[q].next = NoNode
        <4>1. \A s : Beside(L, q, s) => LeftOf(N[s], N[q])
          BY <3>1, <3>4 DEF IsNext
        <4>2. ASSUME NEW s, Beside(K, q, s) PROVE LeftOf(M[s], M[q])
          <5>1. CASE Beside(L, q, s)
            BY <1>8, <4>1, <5>1, BesideFacts DEF Keeps
          <5>2. CASE s = o /\ Beside(L, p, q)
            <6>1. LeftOf(n, N[q])
              BY <1>n, <4>1, <5>2, BesideFacts
            <6> QED
              BY <1>4, <1>7, <5>2, <6>1
          <5> QED
            BY <3>3, <4>2, <5>1, <5>2
        <4> QED
          BY <3>4, <4>2, Zenon DEF IsNext
      <3>5. CASE N[q].next # NoNode
        <4>x. PICK x : x = N[q].next
          OBVIOUS
        <4>1. /\ Beside(L, q, x) /\ LeftOf(N[q], N[x])
              /\ \A s : Beside(L, q, s) /\ s # x => LeftOf(N[s], N[q]) \/ LeftOf(N[x], N[s])
          BY <3>1, <3>5, <4>x, Zenon DEF IsNext
        <4>2. Beside(K, q, x) /\ LeftOf(M[q], M[x])
          BY <1>5, <1>8, <4>1 DEF Keeps
        <4>3. ASSUME NEW s, Beside(K, q, s), s # x
              PROVE  LeftOf(M[s], M[q]) \/ LeftOf(M[x], M[s])
          <5>1. CASE Beside(L, q, s)
            <6>1. LeftOf(N[s], N[q]) \/ LeftOf(N[x], N[s])
              BY <4>1, <4>3, <5>1
            <6>2. Beside(L, s, q)
              BY <5>1, BesideFacts
            <6>3. Beside(L, x, s)
              BY <4>1, <4>3, <5>1 DEF Beside
            <6> QED
              BY <1>8, <6>1, <6>2, <6>3 DEF Keeps
          <5>2. CASE s = o /\ Beside(L, p, q) /\ x = p
            BY <1>3, <1>4, <5>2
          <5>3. CASE s = o /\ Beside(L, p, q) /\ x # p
            <6>1. LeftOf(n, N[q]) \/ LeftOf(N[x], n)
              BY <1>n, <4>1, <5>3, BesideFacts
            <6>2. Beside(L, p, x)
              BY <4>1, <5>3 DEF Beside
            <6> QED
              BY <1>4, <1>7, <5>3, <6>1, <6>2
          <5> QED
            BY <3>3, <4>3, <5>1, <5>2, <5>3
        <4> QED
          BY <3>5, <4>x, <4>2, <4>3, Zenon DEF IsNext
      <3> QED
        BY <3>4, <3>5
    <2>4. ASSUME NEW q \in DOMAIN K PROVE IsNext(M, K, q, M[q].next)
      <3>1. CASE q = p
        BY <1>3, <1>4, <2>1, <3>1
      <3>2. CASE q = o
        BY <1>3, <1>4, <2>2, <3>2
      <3>3. CASE q # p /\ q # o
        <4>1. q \in DOMAIN L /\ M[q] = N[q]
          BY <1>5, <1>6, <3>3
        <4> QED
          BY <2>3, <3>3, <4>1
      <3> QED
        BY <3>1, <3>2, <3>3
    <2> QED
      BY <2>4 DEF Linked
  <1>12. SonsBelow(M, K)
    <2>1. ASSUME NEW q, NEW e, Inner(M, K, q, e)
          PROVE  e.son \in DOMAIN K /\ K[e.son] = K[q] - 1 /\ Slots(M[e.son]) # {}
      <3>1. q \in DOMAIN K /\ K[q] > 0 /\ e \in Slots(M[q])
        BY <2>1 DEF Inner
      <3>2. \E s \in DOMAIN L : L[s] = K[q] /\ Inner(N, L, s, e)
        <4>1. CASE q = o \/ q = p
          BY <1>n, <1>3, <1>4, <1>5, <3>1, <4>1 DEF Inner
        <4>2. CASE q # o /\ q # p
          BY <1>5, <1>6, <3>1, <4>2 DEF Inner
        <4> QED
          BY <4>1, <4>2
      <3>3. e.son \in DOMAIN L /\ L[e.son] = K[q] - 1 /\ Slots(N[e.son]) # {}
        BY <3>2, LayeredFacts
      <3>4. Slots(M[e.son]) # {}
        BY <1>3, <1>4, <1>6, <3>3
      <3> QED
        BY <1>5, <3>3, <3>4
    <2> QED
      BY <2>1 DEF SonsBelow
  <1>13. Layered(M, K)
    BY <1>4, <1>5, <1>9, <1>10, <1>11, <1>12, Zenon DEF Layered
  <1> QED
    BY <1>n, <1>3, <1>4, <1>8, <1>13, Zenon DEF Halved

\* The slots after the split of page p.
SlotsHalved(N, L, M, K, p, o) ==
    /\ \A q, e : Inner(M, K, q, e) =>
          /\ e.son \in DOMAIN L /\ e.son # o
          /\ Inner(N, L, q, e) \/ (q \in {p, o} /\ Inner(N, L, p, e))
    /\ \A q, e : Inner(N, L, q, e) => \E s : Inner(M, K, s, e)

LEMMA SplitMid ==
    ASSUME NEW N, NEW L, NEW p, Mid(N, L, p), NEW o \in PageIds \ InitialPages,
           o \notin DOMAIN L, NEW K, Joins(L, K, p, o), NEW M, Halved(N, L, M, K, p, o)
    PROVE  Mid(M, K, p) /\ SlotsHalved(N, L, M, K, p, o)
  <1>1. Layered(N, L) /\ Leveled(L) /\ p \in DOMAIN L /\ Exact(N, L, {p}) /\ Aligned(N, L, p)
    BY DEF Mid, Layered
  <1>2. /\ Layered(M, K) /\ Keeps(N, M, L)
        /\ Slots(N[p]) = Slots(M[p]) \cup Slots(M[o])
        /\ \A q \in PageIds : q # p /\ q # o => M[q] = N[q]
    BY Zenon DEF Halved
  <1>3. /\ DOMAIN K = DOMAIN L \cup {o} /\ K[o] = L[p]
        /\ \A q \in DOMAIN L : K[q] = L[q] /\ q # o
    BY <1>1, JoinedLevels
  <1>4. \A q \in DOMAIN L : q \in PageIds /\ q # o /\ L[q] \in Nat
    BY <1>1, <1>3, LayeredFacts
  <1>5. ASSUME NEW q, NEW e, Inner(M, K, q, e)
        PROVE  /\ e.son \in DOMAIN L /\ e.son # o
               /\ Inner(N, L, q, e) \/ (q \in {p, o} /\ Inner(N, L, p, e))
    <2>1. q \in DOMAIN K /\ K[q] > 0 /\ e \in Slots(M[q])
      BY <1>5 DEF Inner
    <2>2. CASE q \in {p, o}
      <3>1. Inner(N, L, p, e)
        <4>1. K[q] = L[p] /\ e \in Slots(N[p])
          BY <1>1, <1>2, <1>3, <2>1, <2>2
        <4> QED
          BY <1>1, <2>1, <4>1 DEF Inner
      <3> QED
        BY <1>1, <1>4, <2>2, <3>1, LayeredFacts
    <2>3. CASE q \notin {p, o}
      <3>1. Inner(N, L, q, e)
        <4>1. q \in DOMAIN L /\ K[q] = L[q] /\ M[q] = N[q]
          BY <1>2, <1>3, <1>4, <2>1, <2>3
        <4> QED
          BY <2>1, <4>1 DEF Inner
      <3> QED
        BY <1>1, <1>4, <3>1, LayeredFacts
    <2> QED
      BY <2>2, <2>3
  <1>6. ASSUME NEW q, NEW e, Inner(N, L, q, e) PROVE \E s : Inner(M, K, s, e)
    <2>1. q \in DOMAIN L /\ L[q] > 0 /\ e \in Slots(N[q])
      BY <1>6 DEF Inner
    <2>2. CASE q = p /\ e \in Slots(M[p])
      <3>1. Inner(M, K, p, e)
        BY <1>3, <2>1, <2>2 DEF Inner
      <3> QED
        BY <3>1
    <2>3. CASE q = p /\ e \in Slots(M[o])
      <3>1. Inner(M, K, o, e)
        BY <1>3, <2>1, <2>3 DEF Inner
      <3> QED
        BY <3>1
    <2>4. CASE q # p
      <3>1. Inner(M, K, q, e)
        BY <1>2, <1>3, <1>4, <2>1, <2>4 DEF Inner
      <3> QED
        BY <3>1
    <2> QED
      BY <1>2, <2>1, <2>2, <2>3, <2>4
  <1>7. Exact(M, K, {p})
    <2>1. ASSUME NEW q, NEW e, Inner(M, K, q, e), e.son # p PROVE e.key = Least(M[e.son])
      <3>1. \E s : Inner(N, L, s, e)
        BY <1>5, <2>1
      <3>2. M[e.son] = N[e.son]
        BY <1>2, <1>4, <1>5, <2>1
      <3> QED
        BY <1>1, <2>1, <3>1, <3>2 DEF Exact
    <2> QED
      BY <2>1, Zenon DEF Exact
  <1>8. Aligned(M, K, p)
    <2>1. ASSUME NEW q, NEW f, Inner(M, K, q, f), K[f.son] = L[p]
          PROVE  Inner(N, L, q, f) /\ L[f.son] = K[f.son]
      <3>1. L[f.son] = K[f.son]
        BY <1>3, <1>5, <2>1
      <3>2. ~Inner(N, L, p, f)
        <4>1. ASSUME Inner(N, L, p, f) PROVE FALSE
          <5>1. L[f.son] = L[p] - 1
            BY <1>1, <4>1, LayeredFacts
          <5>2. \A x \in Nat : x - 1 # x
            OBVIOUS
          <5> QED
            BY <1>1, <1>4, <2>1, <3>1, <5>1, <5>2, Zenon
        <4> QED
          BY <4>1
      <3> QED
        BY <1>5, <2>1, <3>1, <3>2
    <2>2. p \in DOMAIN K /\ K[p] = L[p]
      BY <1>1, <1>3
    <2> QED
      BY <1>1, <1>2, <2>1, <2>2, AlignedKept
  <1>9. Mid(M, K, p)
    BY <1>1, <1>2, <1>3, <1>7, <1>8 DEF Mid
  <1> QED
    BY <1>5, <1>6, <1>9 DEF SlotsHalved

LEMMA LeftOfOrder ==
    ASSUME NEW a \in Nodes, NEW b \in Nodes, NEW c \in Nodes, LeftOf(a, b), Slots(b) # {}
    PROVE  /\ LeftOf(b, c) => LeftOf(a, c)
           /\ Slots(a) # {} => ~LeftOf(b, a)
  <1>1. PICK y : y \in Keys(b)
    BY DEF Keys
  <1>2. Keys(a) \subseteq Nat /\ Keys(b) \subseteq Nat /\ Keys(c) \subseteq Nat
    BY SlotSets
  <1>3. ASSUME LeftOf(b, c) PROVE LeftOf(a, c)
    <2>1. ASSUME NEW x \in Keys(a), NEW z \in Keys(c) PROVE x < z
      <3>1. x < y /\ y < z
        BY <1>1, <1>3, Zenon DEF LeftOf
      <3> QED
        BY <1>1, <1>2, <3>1
    <2> QED
      BY <2>1 DEF LeftOf
  <1>4. ASSUME Slots(a) # {}, LeftOf(b, a) PROVE FALSE
    <2>1. PICK x : x \in Keys(a)
      BY <1>4 DEF Keys
    <2>2. x < y /\ y < x
      BY <1>1, <1>4, <2>1, Zenon DEF LeftOf
    <2> QED
      BY <1>1, <1>2, <2>1, <2>2
  <1> QED
    BY <1>3, <1>4

\* The levels L without page r.
Leaves(L, K, r) == K = [q \in DOMAIN L \ {r} |-> L[q]]

\* Page l after it has taken in the slots of page r.
Fused(N, L, M, K, l, r) ==
    /\ Layered(M, K) /\ Keeps(N, M, K)
    /\ M[l].leaf = N[l].leaf
    /\ Slots(M[l]) = Slots(N[l]) \cup Slots(N[r])
    /\ Count(M[l]) = Count(N[l]) + Count(N[r])
    /\ Least(M[l]) = Least(N[l])
    /\ \A q \in PageIds : q # l => M[q] = N[q]

LEMMA MergePages ==
    ASSUME NEW N, NEW L, Layered(N, L), NEW l \in DOMAIN L, NEW r, N[l].next = r, r # NoNode,
           \A q \in DOMAIN L : L[q] = L[l] => Slots(N[q]) # {},
           \A q, f : Inner(N, L, q, f) => f.son # r,
           NEW K, Leaves(L, K, r), NEW M, Puts(N, M, l, Merged(N[l], N[r]))
    PROVE  Fused(N, L, M, K, l, r)
  <1>m. PICK m : m = Merged(N[l], N[r])
    OBVIOUS
  <1>1. /\ N \in [PageIds -> Nodes] /\ Leveled(L) /\ LeavesBelow(N, L) /\ Ordered(N, L)
        /\ Linked(N, L) /\ SonsBelow(N, L)
    BY DEF Layered
  <1>2. /\ Beside(L, l, r) /\ LeftOf(N[l], N[r])
        /\ \A q : Beside(L, l, q) /\ q # r => LeftOf(N[q], N[l]) \/ LeftOf(N[r], N[q])
    <2>1. IsNext(N, L, l, r)
      BY <1>1 DEF Linked
    <2> QED
      BY <2>1, Zenon DEF IsNext
  <1>3. r \in DOMAIN L /\ l # r /\ L[r] = L[l]
    BY <1>2, BesideFacts
  <1>4. \A q \in DOMAIN L : /\ q \in PageIds /\ q # NoNode /\ N[q] \in Nodes
                            /\ L[q] \in Nat /\ Increasing(N[q])
    BY LayeredFacts
  <1>5. /\ m \in Nodes /\ m.leaf = N[l].leaf /\ m.next = N[r].next
        /\ Count(m) = Count(N[l]) + Count(N[r])
        /\ Increasing(m)
        /\ Slots(m) = Slots(N[l]) \cup Slots(N[r])
    BY <1>m, <1>2, <1>3, <1>4, MergeSets
  <1>6. M \in [PageIds -> Nodes] /\ M[l] = m /\ \A q \in PageIds : q # l => M[q] = N[q]
    BY <1>m, <1>1, <1>4, <1>5 DEF Puts
  <1>7. /\ DOMAIN K = DOMAIN L \ {r} /\ \A q \in DOMAIN K : K[q] = L[q] /\ q \in PageIds
        /\ \A q, s : Beside(K, q, s) <=> Beside(L, q, s) /\ q # r /\ s # r
    <2>1. DOMAIN K = DOMAIN L \ {r} /\ \A q \in DOMAIN K : K[q] = L[q]
      BY DEF Leaves
    <2> QED
      BY <1>4, <2>1 DEF Beside
  <1>8. Leveled(K)
    <2>1. L \in [DOMAIN L -> Nat] /\ DOMAIN L \subseteq PageIds \ InitialPages
      BY <1>1 DEF Leveled
    <2>2. K \in [DOMAIN L \ {r} -> Nat]
      BY <2>1 DEF Leaves
    <2> QED
      BY <2>1, <2>2, <1>7 DEF Leveled
  <1>9. ASSUME NEW q, NEW s, Beside(L, q, s), L[q] = L[l]
        PROVE  /\ N[q] \in Nodes /\ N[s] \in Nodes /\ Slots(N[q]) # {} /\ Slots(N[s]) # {}
               /\ LeftOf(N[q], N[s]) \/ LeftOf(N[s], N[q])
               /\ ~(LeftOf(N[q], N[s]) /\ LeftOf(N[s], N[q]))
    <2>1. q \in DOMAIN L /\ s \in DOMAIN L /\ L[s] = L[l]
      BY <1>9, BesideFacts
    <2>2. N[q] \in Nodes /\ N[s] \in Nodes /\ Slots(N[q]) # {} /\ Slots(N[s]) # {}
      BY <1>4, <1>9, <2>1
    <2>3. LeftOf(N[q], N[s]) \/ LeftOf(N[s], N[q])
      BY <1>9, LayeredFacts
    <2> QED
      BY <2>2, <2>3, LeftOfOrder
  <1>10. ASSUME NEW q, Beside(L, l, q), q # r
         PROVE  /\ LeftOf(N[l], N[q]) => LeftOf(m, N[q])
                /\ LeftOf(N[q], N[l]) => LeftOf(N[q], m)
    <2>1. N[l] \in Nodes /\ N[q] \in Nodes /\ N[r] \in Nodes /\ Slots(N[l]) # {}
      BY <1>2, <1>9, <1>10
    <2>2. ASSUME LeftOf(N[l], N[q]) PROVE LeftOf(m, N[q])
      <3>1. LeftOf(N[r], N[q])
        BY <1>2, <1>9, <1>10, <2>2
      <3> QED
        BY <1>5, <2>2, <3>1, Zenon DEF LeftOf, Keys
    <2>3. ASSUME LeftOf(N[q], N[l]) PROVE LeftOf(N[q], m)
      <3>1. LeftOf(N[q], N[r])
        BY <1>2, <2>1, <2>3, LeftOfOrder
      <3> QED
        BY <1>5, <2>3, <3>1, Zenon DEF LeftOf, Keys
    <2> QED
      BY <2>2, <2>3
  <1>11. Keeps(N, M, K)
    <2>1. ASSUME NEW q, NEW s, Beside(K, q, s), LeftOf(N[q], N[s])
          PROVE  LeftOf(M[q], M[s])
      <3>1. Beside(L, q, s) /\ q # r /\ s # r /\ Beside(L, s, q)
        BY <1>7, <2>1, BesideFacts
      <3>2. q \in PageIds /\ s \in PageIds /\ q # s
        BY <1>4, <3>1, BesideFacts
      <3>3. CASE q = l
        BY <1>6, <1>10, <2>1, <3>1, <3>2, <3>3
      <3>4. CASE s = l
        BY <1>6, <1>10, <2>1, <3>1, <3>2, <3>4
      <3>5. CASE q # l /\ s # l
        BY <1>6, <2>1, <3>2, <3>5
      <3> QED
        BY <3>3, <3>4, <3>5
    <2> QED
      BY <2>1, Zenon DEF Keeps
  <1>12. LeavesBelow(M, K)
    BY <1>1, <1>5, <1>6, <1>7 DEF LeavesBelow
  <1>13. Ordered(M, K)
    <2>1. \A q \in DOMAIN K : Increasing(M[q])
      BY <1>4, <1>5, <1>6, <1>7
    <2>2. ASSUME NEW q, NEW s, Beside(K, q, s)
          PROVE  LeftOf(M[q], M[s]) \/ LeftOf(M[s], M[q])
      <3>1. Beside(L, q, s) /\ Beside(K, s, q)
        BY <1>7, <2>2, BesideFacts
      <3>2. LeftOf(N[q], N[s]) \/ LeftOf(N[s], N[q])
        BY <3>1, LayeredFacts
      <3> QED
        BY <1>11, <2>2, <3>1, <3>2, Zenon DEF Keeps
    <2> QED
      BY <2>1, <2>2 DEF Ordered
  <1>14. IsNext(M, K, l, N[r].next)
    <2>x. PICK x : x = N[r].next
      OBVIOUS
    <2>1. IsNext(N, L, r, x)
      BY <1>1, <1>3, <2>x DEF Linked
    <2>2. ASSUME NEW q, Beside(K, l, q)
          PROVE  /\ Beside(L, l, q) /\ Beside(L, r, q) /\ Beside(K, q, l) /\ q # r
                 /\ LeftOf(N[q], N[r]) => LeftOf(M[q], M[l])
      <3>1. Beside(L, l, q) /\ q # r /\ Beside(K, q, l)
        BY <1>7, <2>2, BesideFacts
      <3>2. Beside(L, r, q) /\ Beside(L, q, r)
        BY <1>3, <3>1 DEF Beside
      <3>3. LeftOf(N[q], N[r]) => LeftOf(N[q], N[l])
        <4>1. ~(LeftOf(N[r], N[q]) /\ LeftOf(N[q], N[r]))
          BY <1>3, <1>9, <3>2
        <4> QED
          BY <1>2, <3>1, <4>1
      <3> QED
        BY <1>11, <3>1, <3>2, <3>3, Zenon DEF Keeps
    <2>3. CASE x = NoNode
      <3>1. \A q : Beside(L, r, q) => LeftOf(N[q], N[r])
        BY <2>1, <2>3 DEF IsNext
      <3>2. \A q : Beside(K, l, q) => LeftOf(M[q], M[l])
        BY <2>2, <3>1, Zenon
      <3> QED
        BY <2>x, <2>3, <3>2 DEF IsNext
    <2>4. CASE x # NoNode
      <3>1. /\ Beside(L, r, x) /\ LeftOf(N[r], N[x])
            /\ \A q : Beside(L, r, q) /\ q # x => LeftOf(N[q], N[r]) \/ LeftOf(N[x], N[q])
        BY <2>1, <2>4, Zenon DEF IsNext
      <3>2. x # l
        <4>1. Beside(L, l, r) /\ L[l] = L[l]
          BY <1>2
        <4> QED
          BY <1>2, <1>9, <3>1, <4>1
      <3>3. Beside(K, l, x) /\ Beside(L, l, x)
        <4>1. Beside(L, l, x) /\ x # r
          BY <1>3, <3>1, <3>2 DEF Beside
        <4> QED
          BY <1>3, <1>7, <4>1
      <3>4. LeftOf(M[l], M[x])
        <4>1. LeftOf(N[l], N[x])
          <5>1. N[l] \in Nodes /\ N[r] \in Nodes /\ N[x] \in Nodes /\ Slots(N[r]) # {}
            BY <1>2, <1>9, <3>3
          <5> QED
            BY <1>2, <3>1, <5>1, LeftOfOrder
        <4> QED
          BY <1>11, <3>3, <4>1, Zenon DEF Keeps
      <3>5. ASSUME NEW q, Beside(K, l, q), q # x
            PROVE  LeftOf(M[q], M[l]) \/ LeftOf(M[x], M[q])
        <4>1. /\ Beside(L, l, q) /\ Beside(L, r, q) /\ q # r
              /\ LeftOf(N[q], N[r]) => LeftOf(M[q], M[l])
          BY <2>2, <3>5
        <4>2. LeftOf(N[q], N[r]) \/ LeftOf(N[x], N[q])
          BY <3>1, <3>5, <4>1
        <4>3. M[x] = N[x] /\ M[q] = N[q]
          <5>1. x \in PageIds /\ x # l /\ q \in PageIds /\ q # l
            BY <1>4, <3>3, <4>1, BesideFacts
          <5> QED
            BY <1>6, <5>1
        <4> QED
          BY <4>1, <4>2, <4>3
      <3> QED
        BY <2>x, <2>4, <3>3, <3>4, <3>5, Zenon DEF IsNext
    <2> QED
      BY <2>3, <2>4
  <1>15. ASSUME NEW q \in DOMAIN K, q # l PROVE IsNext(M, K, q, N[q].next)
    <2>x. PICK x : x = N[q].next
      OBVIOUS
    <2>0. q \in DOMAIN L /\ q # r
      BY <1>7
    <2>1. IsNext(N, L, q, x)
      BY <1>1, <2>0, <2>x DEF Linked
    <2>2. CASE x = NoNode
      <3>1. \A s : Beside(L, q, s) => LeftOf(N[s], N[q])
        BY <2>1, <2>2 DEF IsNext
      <3>2. \A s : Beside(K, q, s) => LeftOf(M[s], M[q])
        BY <1>7, <1>11, <3>1, BesideFacts, Zenon DEF Keeps
      <3> QED
        BY <2>x, <2>2, <3>2 DEF IsNext
    <2>3. CASE x # NoNode
      <3>1. /\ Beside(L, q, x) /\ LeftOf(N[q], N[x])
            /\ \A s : Beside(L, q, s) /\ s # x => LeftOf(N[s], N[q]) \/ LeftOf(N[x], N[s])
        BY <2>1, <2>3, Zenon DEF IsNext
      <3>2. x # r
        <4>1. ASSUME x = r PROVE FALSE
          <5>1. Beside(L, q, l) /\ Beside(L, l, q) /\ L[q] = L[l]
            BY <1>3, <1>15, <2>0, <3>1, <4>1, BesideFacts DEF Beside
          <5>2. LeftOf(N[l], N[q]) \/ LeftOf(N[r], N[l])
            BY <1>3, <3>1, <4>1, <5>1
          <5>3. LeftOf(N[q], N[l]) \/ LeftOf(N[r], N[q])
            BY <1>2, <2>0, <5>1
          <5>4. ~(LeftOf(N[l], N[r]) /\ LeftOf(N[r], N[l]))
            BY <1>2, <1>9
          <5>5. ~(LeftOf(N[l], N[q]) /\ LeftOf(N[q], N[l]))
            BY <1>9, <5>1
          <5>6. ~(LeftOf(N[q], N[r]) /\ LeftOf(N[r], N[q]))
            BY <1>9, <3>1, <4>1, <5>1
          <5> QED
            BY <1>2, <3>1, <4>1, <5>2, <5>3, <5>4, <5>5, <5>6
        <4> QED
          BY <4>1
      <3>3. Beside(K, q, x) /\ LeftOf(M[q], M[x])
        BY <1>7, <1>11, <2>0, <3>1, <3>2, Zenon DEF Keeps
      <3>4. ASSUME NEW s, Beside(K, q, s), s # x
            PROVE  LeftOf(M[s], M[q]) \/ LeftOf(M[x], M[s])
        <4>1. Beside(L, q, s) /\ Beside(K, s, q)
          BY <1>7, <3>4, BesideFacts
        <4>2. Beside(K, x, s)
          BY <3>3, <3>4 DEF Beside
        <4>3. LeftOf(N[s], N[q]) \/ LeftOf(N[x], N[s])
          BY <3>1, <3>4, <4>1
        <4> QED
          BY <1>11, <4>1, <4>2, <4>3, Zenon DEF Keeps
      <3> QED
        BY <2>x, <2>3, <3>3, <3>4, Zenon DEF IsNext
    <2> QED
      BY <2>2, <2>3
  <1>16. Linked(M, K)
    <2>1. ASSUME NEW q \in DOMAIN K PROVE IsNext(M, K, q, M[q].next)
      <3>1. CASE q = l
        BY <1>5, <1>6, <1>14, <3>1
      <3>2. CASE q # l
        BY <1>6, <1>7, <1>15, <3>2
      <3> QED
        BY <3>1, <3>2
    <2> QED
      BY <2>1 DEF Linked
  <1>17. SonsBelow(M, K)
    <2>1. ASSUME NEW q, NEW e, Inner(M, K, q, e)
          PROVE  e.son \in DOMAIN K /\ K[e.son] = K[q] - 1 /\ Slots(M[e.son]) # {}
      <3>1. q \in DOMAIN K /\ K[q] > 0 /\ e \in Slots(M[q])
        BY <2>1 DEF Inner
      <3>2. \E s \in DOMAIN L : L[s] = K[q] /\ Inner(N, L, s, e)
        <4>1. CASE q = l
          BY <1>3, <1>5, <1>6, <1>7, <3>1, <4>1 DEF Inner
        <4>2. CASE q # l
          BY <1>6, <1>7, <3>1, <4>2 DEF Inner
        <4> QED
          BY <4>1, <4>2
      <3>3. e.son \in DOMAIN L /\ L[e.son] = K[q] - 1 /\ Slots(N[e.son]) # {} /\ e.son # r
        BY <3>2, LayeredFacts
      <3>4. Slots(M[e.son]) # {}
        BY <1>4, <1>5, <1>6, <3>3
      <3> QED
        BY <1>7, <3>3, <3>4
    <2> QED
      BY <2>1 DEF SonsBelow
  <1>18. Layered(M, K)
    BY <1>6, <1>8, <1>12, <1>13, <1>16, <1>17, Zenon DEF Layered
  <1>19. Least(m) = Least(N[l])
    <2>1. Slots(N[l]) # {} /\ N[l] \in Nodes /\ Increasing(N[l])
      BY <1>4
    <2>2. /\ Least(m) \in Keys(m) /\ Least(m) \in Nat /\ \A k \in Keys(m) : Least(m) <= k
          /\ Least(N[l]) \in Keys(N[l]) /\ Least(N[l]) \in Nat
          /\ \A k \in Keys(N[l]) : Least(N[l]) <= k
      BY <1>5, <2>1, LeastFacts
    <2>3. Keys(m) = Keys(N[l]) \cup Keys(N[r])
      BY <1>5, Zenon DEF Keys
    <2>4. Least(m) <= Least(N[l])
      BY <2>2, <2>3
    <2>5. Least(N[l]) <= Least(m)
      <3>1. CASE Least(m) \in Keys(N[l])
        BY <2>2, <3>1
      <3>2. CASE Least(m) \in Keys(N[r])
        <4>1. Least(N[l]) < Least(m)
          BY <1>2, <2>2, <3>2, Zenon DEF LeftOf
        <4> QED
          BY <2>2, <4>1
      <3> QED
        BY <2>2, <2>3, <3>1, <3>2
    <2> QED
      BY <2>2, <2>4, <2>5
  <1> QED
    BY <1>5, <1>6, <1>11, <1>18, <1>19, Zenon DEF Fused

\* Pages l and r after they have shared their slots.
Shared(N, L, M, l, r) ==
    /\ Layered(M, L) /\ Keeps(N, M, L)
    /\ M[l].leaf = N[l].leaf /\ M[r].leaf = N[l].leaf
    /\ Slots(M[l]) \cup Slots(M[r]) = Slots(N[l]) \cup Slots(N[r])
    /\ Slots(M[l]) # {} /\ Slots(M[r]) # {}
    /\ Least(M[l]) = Least(N[l])
    /\ \E h \in Nat : /\ h = (Count(N[l]) + Count(N[r])) \div 2
                      /\ Count(M[l]) = h /\ Count(M[r]) = (Count(N[l]) + Count(N[r])) - h
    /\ \A q \in PageIds : q # l /\ q # r => M[q] = N[q]

LEMMA SharePages ==
    ASSUME NEW N, NEW L, Layered(N, L), NEW l \in DOMAIN L, NEW r, N[l].next = r, r # NoNode,
           \A q \in DOMAIN L : L[q] = L[l] => Slots(N[q]) # {},
           Count(N[l]) + Count(N[r]) >= 2, NEW M,
           M = [N EXCEPT ![l] = AveragedLeft(N[l], N[r]), ![r] = AveragedRight(N[l], N[r])]
    PROVE  Shared(N, L, M, l, r)
  <1>a. PICK a : a = AveragedLeft(N[l], N[r])
    OBVIOUS
  <1>b. PICK b : b = AveragedRight(N[l], N[r])
    OBVIOUS
  <1>1. /\ N \in [PageIds -> Nodes] /\ Leveled(L) /\ LeavesBelow(N, L) /\ Ordered(N, L)
        /\ Linked(N, L) /\ SonsBelow(N, L)
    BY DEF Layered
  <1>2. /\ Beside(L, l, r) /\ LeftOf(N[l], N[r])
        /\ \A q : Beside(L, l, q) /\ q # r => LeftOf(N[q], N[l]) \/ LeftOf(N[r], N[q])
    <2>1. IsNext(N, L, l, r)
      BY <1>1 DEF Linked
    <2> QED
      BY <2>1, Zenon DEF IsNext
  <1>3. r \in DOMAIN L /\ l # r /\ L[r] = L[l]
    BY <1>2, BesideFacts
  <1>4. \A q \in DOMAIN L : /\ q \in PageIds /\ N[q] \in Nodes /\ Increasing(N[q])
    BY LayeredFacts
  <1>5. N[l].leaf = N[r].leaf /\ Slots(N[l]) # {} /\ Slots(N[r]) # {}
    <2>1. N[l].leaf \in BOOLEAN /\ N[r].leaf \in BOOLEAN
      BY <1>3, <1>4, NodeFacts
    <2> QED
      BY <1>1, <1>3, <2>1 DEF LeavesBelow
  <1>6. /\ a \in Nodes /\ a.leaf = N[l].leaf /\ a.next = N[l].next
        /\ b \in Nodes /\ b.leaf = N[l].leaf /\ b.next = N[r].next
        /\ \E h \in Nat : /\ h = (Count(N[l]) + Count(N[r])) \div 2
                          /\ Count(a) = h /\ Count(b) = (Count(N[l]) + Count(N[r])) - h
        /\ Increasing(a) /\ Increasing(b)
        /\ Slots(a) \cup Slots(b) = Slots(N[l]) \cup Slots(N[r])
        /\ LeftOf(a, b)
        /\ Slots(a) # {} /\ Slots(b) # {}
    BY <1>a, <1>b, <1>2, <1>3, <1>4, <1>5, AverageSets
  <1>7. /\ M \in [PageIds -> Nodes] /\ M[l] = a /\ M[r] = b
        /\ \A q \in PageIds : q # l /\ q # r => M[q] = N[q]
    BY <1>a, <1>b, <1>1, <1>3, <1>4, <1>6
  <1>8. ASSUME NEW q, Beside(L, l, q), q # r
        PROVE  /\ LeftOf(N[l], N[q]) => LeftOf(N[r], N[q])
               /\ LeftOf(N[r], N[q]) => LeftOf(N[l], N[q])
               /\ LeftOf(N[q], N[l]) => LeftOf(N[q], N[r])
               /\ LeftOf(N[q], N[r]) => LeftOf(N[q], N[l])
    <2>1. q \in DOMAIN L /\ L[q] = L[l] /\ Slots(N[q]) # {} /\ N[q] \in Nodes
      BY <1>4, <1>8, BesideFacts
    <2>2. LeftOf(N[q], N[l]) \/ LeftOf(N[r], N[q])
      BY <1>2, <1>8
    <2>3. N[l] \in Nodes /\ N[r] \in Nodes
      BY <1>3, <1>4
    <2>4. ~(LeftOf(N[l], N[q]) /\ LeftOf(N[q], N[l]))
      BY <1>5, <2>1, <2>3, LeftOfOrder
    <2>5. ~(LeftOf(N[r], N[q]) /\ LeftOf(N[q], N[r]))
      BY <1>5, <2>1, <2>3, LeftOfOrder
    <2>6. LeftOf(N[q], N[l]) => LeftOf(N[q], N[r])
      BY <1>2, <1>5, <2>1, <2>3, LeftOfOrder
    <2>7. LeftOf(N[r], N[q]) => LeftOf(N[l], N[q])
      BY <1>2, <1>5, <2>1, <2>3, LeftOfOrder
    <2> QED
      BY <2>2, <2>4, <2>5, <2>6, <2>7
  <1>9. ASSUME NEW q, Beside(L, l, q), q # r
        PROVE  /\ LeftOf(N[l], N[q]) => LeftOf(a, N[q]) /\ LeftOf(b, N[q])
               /\ LeftOf(N[q], N[l]) => LeftOf(N[q], a) /\ LeftOf(N[q], b)
    <2>1. Keys(a) \subseteq Keys(N[l]) \cup Keys(N[r]) /\ Keys(b) \subseteq Keys(N[l]) \cup Keys(N[r])
      BY <1>6, Zenon DEF Keys
    <2> QED
      BY <1>8, <1>9, <2>1, Zenon DEF LeftOf
  <1>10. Keeps(N, M, L)
    <2>1. ASSUME NEW q, NEW s, Beside(L, q, s), LeftOf(N[q], N[s])
          PROVE  LeftOf(M[q], M[s])
      <3>1. q \in PageIds /\ s \in PageIds /\ q # s /\ Beside(L, s, q)
        BY <1>4, <2>1, BesideFacts
      <3>2. CASE q \in {l, r} /\ s \in {l, r}
        <4>1. q = l /\ s = r
          <5>1. ~LeftOf(N[r], N[l])
            BY <1>2, <1>3, <1>4, <1>5, LeftOfOrder
          <5> QED
            BY <2>1, <3>1, <3>2, <5>1
        <4> QED
          BY <1>6, <1>7, <4>1
      <3>3. CASE q \in {l, r} /\ s \notin {l, r}
        <4>1. Beside(L, l, s)
          BY <1>3, <2>1, <3>3 DEF Beside
        <4>2. LeftOf(N[l], N[s])
          BY <1>8, <2>1, <3>3, <4>1
        <4>3. M[s] = N[s]
          BY <1>7, <3>1, <3>3
        <4> QED
          BY <1>7, <1>9, <3>3, <4>1, <4>2, <4>3
      <3>4. CASE q \notin {l, r} /\ s \in {l, r}
        <4>1. Beside(L, l, q)
          BY <1>3, <2>1, <3>4 DEF Beside
        <4>2. LeftOf(N[q], N[l])
          BY <1>8, <2>1, <3>4, <4>1
        <4>3. M[q] = N[q]
          BY <1>7, <3>1, <3>4
        <4> QED
          BY <1>7, <1>9, <3>4, <4>1, <4>2, <4>3
      <3>5. CASE q \notin {l, r} /\ s \notin {l, r}
        BY <1>7, <2>1, <3>1, <3>5
      <3> QED
        BY <3>2, <3>3, <3>4, <3>5
    <2> QED
      BY <2>1, Zenon DEF Keeps
  <1>11. Alike(N, M, L)
    <2>1. ASSUME NEW q \in DOMAIN L
          PROVE  M[q].leaf = N[q].leaf /\ M[q].next = N[q].next /\ Increasing(M[q])
      <3>1. q \in PageIds /\ Increasing(N[q])
        BY <1>4
      <3>2. CASE q = l
        BY <1>6, <1>7, <3>2
      <3>3. CASE q = r
        BY <1>5, <1>6, <1>7, <3>3
      <3>4. CASE q # l /\ q # r
        BY <1>7, <3>1, <3>4
      <3> QED
        BY <3>2, <3>3, <3>4
    <2> QED
      BY <1>7, <2>1 DEF Alike
  <1>12. LeavesBelow(M, L) /\ Ordered(M, L) /\ Linked(M, L)
    BY <1>10, <1>11, OrderKept
  <1>13. SonsBelow(M, L)
    <2>1. ASSUME NEW q, NEW e, Inner(M, L, q, e)
          PROVE  e.son \in DOMAIN L /\ L[e.son] = L[q] - 1 /\ Slots(M[e.son]) # {}
      <3>1. q \in DOMAIN L /\ L[q] > 0 /\ e \in Slots(M[q])
        BY <2>1 DEF Inner
      <3>2. \E s \in DOMAIN L : L[s] = L[q] /\ Inner(N, L, s, e)
        <4>1. CASE q \in {l, r}
          <5>1. e \in Slots(N[l]) \/ e \in Slots(N[r])
            BY <1>6, <1>7, <3>1, <4>1
          <5> QED
            BY <1>3, <3>1, <4>1, <5>1 DEF Inner
        <4>2. CASE q \notin {l, r}
          BY <1>4, <1>7, <3>1, <4>2 DEF Inner
        <4> QED
          BY <4>1, <4>2
      <3>3. e.son \in DOMAIN L /\ L[e.son] = L[q] - 1 /\ Slots(N[e.son]) # {}
        BY <3>2, LayeredFacts
      <3>4. Slots(M[e.son]) # {}
        BY <1>4, <1>6, <1>7, <3>3
      <3> QED
        BY <3>3, <3>4
    <2> QED
      BY <2>1 DEF SonsBelow
  <1>14. Layered(M, L)
    BY <1>1, <1>7, <1>12, <1>13, Zenon DEF Layered
  <1>15. Least(a) = Least(N[l])
    <2>1. /\ Least(a) \in Keys(a) /\ Least(a) \in Nat /\ \A k \in Keys(a) : Least(a) <= k
          /\ Least(N[l]) \in Keys(N[l]) /\ Least(N[l]) \in Nat
          /\ \A k \in Keys(N[l]) : Least(N[l]) <= k
      BY <1>4, <1>5, <1>6, LeastFacts
    <2>2. Keys(a) \cup Keys(b) = Keys(N[l]) \cup Keys(N[r])
      BY <1>6, Zenon DEF Keys
    <2>3. Least(a) <= Least(N[l])
      <3>1. CASE Least(N[l]) \in Keys(a)
        BY <2>1, <3>1
      <3>2. CASE Least(N[l]) \in Keys(b)
        <4>1. Least(a) < Least(N[l])
          BY <1>6, <2>1, <3>2, Zenon DEF LeftOf
        <4> QED
          BY <2>1, <4>1
      <3> QED
        BY <2>1, <2>2, <3>1, <3>2
    <2>4. Least(N[l]) <= Least(a)
      <3>1. CASE Least(a) \in Keys(N[l])
        BY <2>1, <3>1
      <3>2. CASE Least(a) \in Keys(N[r])
        <4>1. Least(N[l]) < Least(a)
          BY <1>2, <2>1, <3>2, Zenon DEF LeftOf
        <4> QED
          BY <2>1, <4>1
      <3> QED
        BY <2>1, <2>2, <3>1, <3>2
    <2> QED
      BY <2>1, <2>3, <2>4
  <1> QED
    BY <1>6, <1>7, <1>10, <1>14, <1>15, Zenon DEF Shared

\* The sons of slots beside one another are linked.
LEMMA NextOfSon ==
    ASSUME NEW N, NEW L, NEW p, Mid(N, L, p), L[p] > 0,
           NEW t, Parents(N, L, {t}), t \in DOMAIN L => L[p] <= L[t],
           NEW i \in 1 .. Count(N[p]), i + 1 \in 1 .. Count(N[p]),
           NEW e, e = N[p].slots[i], NEW f, f = N[p].slots[i + 1]
    PROVE  N[e.son].next = f.son
  <1>1. Layered(N, L) /\ Exact(N, L, {p}) /\ p \in DOMAIN L /\ Linked(N, L)
    BY DEF Mid, Layered
  <1>2. N[p] \in Nodes /\ Increasing(N[p]) /\ L[p] \in Nat
    BY <1>1, LayeredFacts
  <1>3. /\ e \in Slots(N[p]) /\ f \in Slots(N[p]) /\ e.key < f.key
        /\ \A g \in Slots(N[p]) : ~(e.key < g.key /\ g.key < f.key)
    BY <1>2, NextSlot
  <1>4. Inner(N, L, p, e) /\ Inner(N, L, p, f)
    BY <1>1, <1>3 DEF Inner
  <1>5. ASSUME NEW q, NEW g, Inner(N, L, q, g), L[q] = L[p]
        PROVE  /\ g.son \in DOMAIN L /\ L[g.son] = L[p] - 1 /\ N[g.son] \in Nodes
               /\ g.key \in Nat /\ g.key = Least(N[g.son]) /\ g.key \in Keys(N[g.son])
    <2>1. g.son \in DOMAIN L /\ L[g.son] = L[p] - 1 /\ Slots(N[g.son]) # {} /\ g.key \in Nat
      BY <1>1, <1>5, LayeredFacts
    <2>2. g.son # p
      <3>1. \A x \in Nat : x - 1 # x
        OBVIOUS
      <3> QED
        BY <1>2, <2>1, <3>1, Zenon
    <2>3. g.key = Least(N[g.son])
      BY <1>1, <1>5, <2>2 DEF Exact
    <2>4. N[g.son] \in Nodes /\ Increasing(N[g.son])
      BY <1>1, <2>1, LayeredFacts
    <2>5. Least(N[g.son]) \in Keys(N[g.son])
      BY <2>1, <2>4, LeastFacts
    <2> QED
      BY <2>1, <2>3, <2>4, <2>5
  <1>6. ASSUME NEW q, NEW g, Inner(N, L, q, g), L[q] = L[p],
               NEW s, NEW h, Inner(N, L, s, h), L[s] = L[p], LeftOf(N[g.son], N[h.son])
        PROVE  g.key < h.key
    BY <1>5, <1>6, Zenon DEF LeftOf
  <1>c. PICK c : c = e.son
    OBVIOUS
  <1>d. PICK d : d = f.son
    OBVIOUS
  <1>x. PICK x : x = N[c].next
    OBVIOUS
  <1>7. c \in DOMAIN L /\ d \in DOMAIN L /\ L[c] = L[p] - 1 /\ L[d] = L[p] - 1 /\ c # d
    <2>1. c # d
      <3>1. c = d => e.key = f.key
        BY <1>4, <1>5, <1>c, <1>d, Zenon
      <3>2. e.key \in Nat /\ f.key \in Nat
        BY <1>4, <1>5
      <3> QED
        BY <1>3, <3>1, <3>2
    <2> QED
      BY <1>4, <1>5, <1>c, <1>d, <2>1
  <1>8. Beside(L, c, d)
    BY <1>7 DEF Beside
  <1>9. ~LeftOf(N[d], N[c])
    <2>1. ~(f.key < e.key)
      <3>1. e.key \in Nat /\ f.key \in Nat
        BY <1>4, <1>5
      <3> QED
        BY <1>3, <3>1
    <2> QED
      BY <1>4, <1>6, <1>c, <1>d, <2>1
  <1>10. IsNext(N, L, c, x)
    BY <1>1, <1>7, <1>x DEF Linked
  <1>11. /\ x # NoNode /\ Beside(L, c, x) /\ LeftOf(N[c], N[x])
         /\ \A q : Beside(L, c, q) /\ q # x => LeftOf(N[q], N[c]) \/ LeftOf(N[x], N[q])
    <2>1. x # NoNode
      BY <1>8, <1>9, <1>10 DEF IsNext
    <2> QED
      BY <1>10, <2>1, Zenon DEF IsNext
  <1>12. ASSUME x # d PROVE FALSE
    <2>1. x \in DOMAIN L /\ L[x] = L[p] - 1
      BY <1>7, <1>11, BesideFacts
    <2>2. LeftOf(N[x], N[d])
      BY <1>8, <1>9, <1>11, <1>12
    <2>3. PICK q, g : Inner(N, L, q, g) /\ g.son = x
      <3>1. x # t
        BY <1>2, <2>1
      <3> QED
        BY <2>1, <3>1 DEF Parents
    <2>4. q \in DOMAIN L /\ L[q] = L[p]
      <3>1. q \in DOMAIN L
        BY <2>3 DEF Inner
      <3>2. L[x] = L[q] - 1 /\ L[q] \in Nat
        BY <1>1, <2>3, <3>1, LayeredFacts
      <3> QED
        BY <1>2, <2>1, <3>1, <3>2
    <2>5. e.key < g.key
      BY <1>4, <1>6, <1>11, <1>c, <2>3, <2>4
    <2>6. g.key < f.key
      BY <1>4, <1>6, <1>d, <2>2, <2>3, <2>4
    <2>7. q # p
      BY <1>3, <2>3, <2>5, <2>6 DEF Inner
    <2>8. Beside(L, p, q)
      BY <1>1, <2>4, <2>7 DEF Beside
    <2>9. LeftOf(N[p], N[q]) \/ LeftOf(N[q], N[p])
      BY <1>1, <2>8, LayeredFacts
    <2>10. g \in Slots(N[q])
      BY <2>3 DEF Inner
    <2>11. f.key < g.key \/ g.key < e.key
      BY <1>3, <2>9, <2>10, Zenon DEF LeftOf, Keys
    <2>12. e.key \in Nat /\ f.key \in Nat /\ g.key \in Nat
      BY <1>4, <1>5, <2>3, <2>4
    <2> QED
      BY <2>5, <2>6, <2>11, <2>12
  <1> QED
    BY <1>12, <1>c, <1>d, <1>x

SonDropped(N, M, L, p, m, e) ==
    /\ Mid(M, L, p) /\ Replaced(N, M, L, p, m) /\ SlotsReplaced(N, M, L, p, m)
    /\ m \in Nodes /\ m.leaf = N[p].leaf
    /\ Count(m) = Count(N[p]) - 1 /\ Slots(m) = Slots(N[p]) \ {e}
    /\ \A q, f : Inner(M, L, q, f) => f.son # e.son /\ Inner(N, L, q, f)

\* A slot of page p is removed.
LEMMA DropSon ==
    ASSUME NEW N, NEW L, NEW p, Mid(N, L, p), L[p] > 0,
           NEW i \in 1 .. Count(N[p]), Count(N[p]) >= 2, NEW e, e = N[p].slots[i],
           NEW m, m = RemoveSlot(N[p], i), NEW M, Puts(N, M, p, m)
    PROVE  SonDropped(N, M, L, p, m, e)
  <1>1. Layered(N, L) /\ Exact(N, L, {p}) /\ p \in DOMAIN L /\ Aligned(N, L, p)
    BY DEF Mid
  <1>2. N[p] \in Nodes /\ Increasing(N[p]) /\ L[p] \in Nat /\ Count(N[p]) \in Nat
    BY <1>1, LayeredFacts, NodeFacts
  <1>3. /\ m \in Nodes /\ m.leaf = N[p].leaf /\ m.next = N[p].next
        /\ Count(m) = Count(N[p]) - 1 /\ Increasing(m) /\ Slots(m) = Slots(N[p]) \ {e}
    BY <1>2, RemoveSets
  <1>4. Slots(m) # {}
    <2>1. Count(m) # 0
      BY <1>2, <1>3
    <2> QED
      BY <1>3, <2>1, SlotSets
  <1>5. Fits(N, L, p, m)
    BY <1>1, <1>3, <1>4, FitsInner
  <1>6. Replaced(N, M, L, p, m) /\ SlotsReplaced(N, M, L, p, m)
    BY <1>1, <1>5, ReplaceNode, ReplacedSlots
  <1>7. Layered(M, L) /\ M[p] = m /\ \A q \in PageIds : q # p => M[q] = N[q]
    BY <1>6, Zenon DEF Replaced
  <1>8. /\ \A q, f : q # p => (Inner(M, L, q, f) <=> Inner(N, L, q, f))
        /\ \A f : Inner(M, L, p, f) <=> L[p] > 0 /\ f \in Slots(m)
        /\ Aligned(M, L, p)
    BY <1>1, <1>6, Zenon DEF SlotsReplaced
  <1>9. ASSUME NEW q, NEW f, Inner(M, L, q, f)
        PROVE  Inner(N, L, q, f) /\ (q = p => f # e)
    <2>1. CASE q = p
      BY <1>1, <1>3, <1>8, <1>9, <2>1 DEF Inner
    <2>2. CASE q # p
      BY <1>8, <1>9, <2>2
    <2> QED
      BY <2>1, <2>2
  <1>10. Inner(N, L, p, e)
    <2>1. e \in Slots(N[p])
      BY DEF Slots
    <2> QED
      BY <1>1, <2>1 DEF Inner
  <1>11. e.son # p
    <2>1. L[e.son] = L[p] - 1
      BY <1>1, <1>10, LayeredFacts
    <2>2. \A x \in Nat : x - 1 # x
      OBVIOUS
    <2> QED
      BY <1>2, <2>1, <2>2, Zenon
  <1>12. ASSUME NEW q, NEW f, Inner(M, L, q, f) PROVE f.son # e.son
    <2>1. Inner(N, L, q, f) /\ (q = p => f # e)
      BY <1>9, <1>12
    <2> QED
      BY <1>1, <1>10, <1>11, <2>1, OneParent
  <1>13. Exact(M, L, {p})
    <2>1. ASSUME NEW q, NEW f, Inner(M, L, q, f), f.son # p PROVE f.key = Least(M[f.son])
      <3>1. Inner(N, L, q, f)
        BY <1>9, <2>1
      <3>2. f.son \in PageIds
        BY <1>1, <3>1, LayeredFacts
      <3> QED
        BY <1>1, <1>7, <2>1, <3>1, <3>2 DEF Exact
    <2> QED
      BY <2>1, Zenon DEF Exact
  <1>14. Mid(M, L, p)
    BY <1>1, <1>7, <1>8, <1>13 DEF Mid
  <1> QED
    BY <1>3, <1>6, <1>9, <1>12, <1>14, Zenon DEF SonDropped

\* The slots after page l has taken in those of page r.
SlotsFused(N, L, M, K, l, r) ==
    /\ \A q, e : Inner(M, K, q, e) => Inner(N, L, q, e) \/ (q = l /\ Inner(N, L, r, e))
    /\ \A q, e : Inner(N, L, q, e) => \E s : Inner(M, K, s, e)

LEMMA MergeMid ==
    ASSUME NEW N, NEW L, NEW p, Mid(N, L, p), NEW l \in DOMAIN L, NEW r \in DOMAIN L,
           L[l] = L[p] - 1, L[r] = L[p] - 1, l # r,
           NEW K, Leaves(L, K, r), NEW M, Fused(N, L, M, K, l, r)
    PROVE  Mid(M, K, p) /\ SlotsFused(N, L, M, K, l, r)
  <1>1. Layered(N, L) /\ p \in DOMAIN L /\ Exact(N, L, {p}) /\ Aligned(N, L, p)
    BY DEF Mid
  <1>2. /\ Layered(M, K) /\ Keeps(N, M, K)
        /\ Slots(M[l]) = Slots(N[l]) \cup Slots(N[r])
        /\ Least(M[l]) = Least(N[l])
        /\ \A q \in PageIds : q # l => M[q] = N[q]
    BY Zenon DEF Fused
  <1>3. DOMAIN K = DOMAIN L \ {r} /\ \A q \in DOMAIN K : K[q] = L[q]
    BY DEF Leaves
  <1>4. \A q \in DOMAIN L : q \in PageIds /\ L[q] \in Nat
    BY <1>1, LayeredFacts
  <1>5. L[p] \in Nat /\ p # l /\ p # r
    <2>1. L[p] \in Nat
      BY <1>1, <1>4
    <2>2. \A x \in Nat : x - 1 # x
      OBVIOUS
    <2> QED
      BY <2>1, <2>2, Zenon
  <1>6. ASSUME NEW q, NEW e, Inner(M, K, q, e)
        PROVE  Inner(N, L, q, e) \/ (q = l /\ Inner(N, L, r, e))
    <2>1. q \in DOMAIN L /\ q \in DOMAIN K /\ L[q] > 0 /\ e \in Slots(M[q])
      BY <1>3, <1>6 DEF Inner
    <2>2. CASE q = l
      BY <1>2, <2>1, <2>2 DEF Inner
    <2>3. CASE q # l
      BY <1>2, <1>4, <2>1, <2>3 DEF Inner
    <2> QED
      BY <2>2, <2>3
  <1>7. ASSUME NEW q, NEW e, Inner(N, L, q, e) PROVE \E s : Inner(M, K, s, e)
    <2>1. q \in DOMAIN L /\ L[q] > 0 /\ e \in Slots(N[q])
      BY <1>7 DEF Inner
    <2>2. CASE q \in {l, r}
      <3>1. l \in DOMAIN K /\ K[l] = L[q] /\ e \in Slots(M[l])
        BY <1>2, <1>3, <2>1, <2>2
      <3>2. Inner(M, K, l, e)
        BY <2>1, <3>1 DEF Inner
      <3> QED
        BY <3>2
    <2>3. CASE q \notin {l, r}
      <3>1. Inner(M, K, q, e)
        BY <1>2, <1>3, <1>4, <2>1, <2>3 DEF Inner
      <3> QED
        BY <3>1
    <2> QED
      BY <2>2, <2>3
  <1>8. Exact(M, K, {p})
    <2>1. ASSUME NEW q, NEW e, Inner(M, K, q, e), e.son # p PROVE e.key = Least(M[e.son])
      <3>1. \E s : Inner(N, L, s, e)
        BY <1>6, <2>1
      <3>2. e.key = Least(N[e.son]) /\ e.son \in PageIds
        BY <1>1, <1>4, <2>1, <3>1, LayeredFacts DEF Exact
      <3> QED
        BY <1>2, <3>2
    <2> QED
      BY <2>1, Zenon DEF Exact
  <1>9. Aligned(M, K, p)
    <2>1. ASSUME NEW q, NEW f, Inner(M, K, q, f), K[f.son] = L[p]
          PROVE  Inner(N, L, q, f) /\ L[f.son] = K[f.son]
      <3>1. L[f.son] = K[f.son]
        <4>1. f.son \in DOMAIN K
          BY <1>2, <2>1, LayeredFacts
        <4> QED
          BY <1>3, <4>1
      <3>2. ~Inner(N, L, r, f)
        <4>1. ASSUME Inner(N, L, r, f) PROVE FALSE
          <5>1. L[f.son] = L[r] - 1
            BY <1>1, <4>1, LayeredFacts
          <5>2. \A x \in Nat : x - 1 - 1 # x
            OBVIOUS
          <5> QED
            BY <1>5, <2>1, <3>1, <5>1, <5>2, Zenon
        <4> QED
          BY <4>1
      <3> QED
        BY <1>6, <2>1, <3>1, <3>2
    <2>2. p \in DOMAIN K /\ K[p] = L[p]
      BY <1>1, <1>3, <1>5
    <2> QED
      BY <1>1, <1>2, <2>1, <2>2, AlignedKept
  <1>10. Mid(M, K, p)
    BY <1>1, <1>2, <1>3, <1>5, <1>8, <1>9 DEF Mid
  <1> QED
    BY <1>6, <1>7, <1>10 DEF SlotsFused

\* The slots after pages l and r have shared theirs.
SlotsShared(N, L, M, l, r) ==
    /\ \A q, e : Inner(M, L, q, e) =>
          \/ Inner(N, L, q, e)
          \/ q \in {l, r} /\ (Inner(N, L, l, e) \/ Inner(N, L, r, e))
    /\ \A q, e : Inner(N, L, q, e) => \E s : Inner(M, L, s, e)

LEMMA ShareNear ==
    ASSUME NEW N, NEW L, NEW p, Mid(N, L, p), NEW l \in DOMAIN L, NEW r \in DOMAIN L,
           L[l] = L[p] - 1, L[r] = L[p] - 1, l # r, NEW M, Shared(N, L, M, l, r)
    PROVE  Near(M, L, p, r) /\ SlotsShared(N, L, M, l, r)
  <1>1. Layered(N, L) /\ p \in DOMAIN L /\ Exact(N, L, {p}) /\ Aligned(N, L, p)
    BY DEF Mid
  <1>2. /\ Layered(M, L) /\ Keeps(N, M, L)
        /\ Slots(M[l]) \cup Slots(M[r]) = Slots(N[l]) \cup Slots(N[r])
        /\ Least(M[l]) = Least(N[l])
        /\ \A q \in PageIds : q # l /\ q # r => M[q] = N[q]
    BY Zenon DEF Shared
  <1>4. \A q \in DOMAIN L : q \in PageIds /\ L[q] \in Nat
    BY <1>1, LayeredFacts
  <1>5. L[p] \in Nat /\ p # l /\ p # r
    <2>1. L[p] \in Nat
      BY <1>1, <1>4
    <2>2. \A x \in Nat : x - 1 # x
      OBVIOUS
    <2> QED
      BY <2>1, <2>2, Zenon
  <1>6. ASSUME NEW q, NEW e, Inner(M, L, q, e)
        PROVE  \/ Inner(N, L, q, e)
               \/ q \in {l, r} /\ (Inner(N, L, l, e) \/ Inner(N, L, r, e))
    <2>1. q \in DOMAIN L /\ L[q] > 0 /\ e \in Slots(M[q])
      BY <1>6 DEF Inner
    <2>2. CASE q \in {l, r}
      <3>1. e \in Slots(N[l]) \/ e \in Slots(N[r])
        BY <1>2, <2>1, <2>2
      <3>2. L[l] > 0 /\ L[r] > 0
        BY <2>1, <2>2
      <3> QED
        BY <2>2, <3>1, <3>2 DEF Inner
    <2>3. CASE q \notin {l, r}
      BY <1>2, <1>4, <2>1, <2>3 DEF Inner
    <2> QED
      BY <2>2, <2>3
  <1>7. ASSUME NEW q, NEW e, Inner(N, L, q, e) PROVE \E s : Inner(M, L, s, e)
    <2>1. q \in DOMAIN L /\ L[q] > 0 /\ e \in Slots(N[q])
      BY <1>7 DEF Inner
    <2>2. CASE q \in {l, r}
      <3>1. e \in Slots(M[l]) \/ e \in Slots(M[r])
        BY <1>2, <2>1, <2>2
      <3>2. L[l] > 0 /\ L[r] > 0
        BY <2>1, <2>2
      <3>3. Inner(M, L, l, e) \/ Inner(M, L, r, e)
        BY <3>1, <3>2 DEF Inner
      <3> QED
        BY <3>3
    <2>3. CASE q \notin {l, r}
      <3>1. Inner(M, L, q, e)
        BY <1>2, <1>4, <2>1, <2>3 DEF Inner
      <3> QED
        BY <3>1
    <2> QED
      BY <2>2, <2>3
  <1>8. Exact(M, L, {r, p})
    <2>1. ASSUME NEW q, NEW e, Inner(M, L, q, e), e.son # p, e.son # r
          PROVE  e.key = Least(M[e.son])
      <3>1. \E s : Inner(N, L, s, e)
        BY <1>6, <2>1
      <3>2. e.key = Least(N[e.son]) /\ e.son \in PageIds
        BY <1>1, <1>4, <2>1, <3>1, LayeredFacts DEF Exact
      <3> QED
        BY <1>2, <2>1, <3>2
    <2> QED
      BY <2>1, Zenon DEF Exact
  <1>9. ASSUME NEW q, NEW f, Inner(M, L, q, f), L[f.son] = L[p] \/ L[f.son] = L[r]
        PROVE  Inner(N, L, q, f)
    <2>1. q \in DOMAIN L /\ L[f.son] = L[q] - 1
      <3>1. q \in DOMAIN L
        BY <1>9 DEF Inner
      <3> QED
        BY <1>2, <1>9, <3>1, LayeredFacts
    <2>2. q \notin {l, r}
      <3>1. \A x \in Nat : x - 1 - 1 # x /\ x - 1 - 1 # x - 1
        OBVIOUS
      <3> QED
        BY <1>5, <1>9, <2>1, <3>1, Zenon
    <2> QED
      BY <1>6, <1>9, <2>2
  <1>10. Aligned(M, L, p)
    BY <1>1, <1>2, <1>9, AlignedKept
  <1>11. Aligned(M, L, r)
    <2>1. \A x \in {p} : x \in DOMAIN L => L[x] # L[r]
      BY <1>5
    <2>2. Aligned(N, L, r)
      BY <1>1, <2>1, AlignedIfExact
    <2> QED
      BY <1>1, <1>2, <1>9, <2>2, AlignedKept
  <1>12. Near(M, L, p, r)
    BY <1>1, <1>2, <1>8, <1>10, <1>11 DEF Near
  <1> QED
    BY <1>6, <1>7, <1>12 DEF SlotsShared
-----------------------------------------------------------------------------
(* What the operations keep of a tree beside its order: t is its root, X are   *)
(* pages that no slot leads to yet, F pages that may hold few slots, C are the *)
(* entries.                                                                   *)
Low == InnerCapacity \div 2

LEMMA Capacities ==
    /\ Low \in Nat /\ Low >= 2
    /\ \A b \in BOOLEAN :
          \E c \in Nat : /\ c = Capacity(b) /\ c >= InnerCapacity /\ c >= 4
                         /\ c \div 2 \in Nat /\ c \div 2 >= Low /\ c \div 2 < c
                         /\ c - c \div 2 >= Low /\ c - c \div 2 < c /\ c - c \div 2 \in Nat
  <1>1. /\ InnerCapacity \in Nat /\ InnerCapacity >= 4
        /\ LeafCapacity \in Nat /\ LeafCapacity >= InnerCapacity
    BY CapacityAssumption
  <1>2. \A x \in Nat : x >= 4 => x \div 2 \in Nat /\ x \div 2 >= 2
    OBVIOUS
  <1>3. \A x, y \in Nat : (x >= 4 /\ y >= x) =>
           /\ y >= 4
           /\ y \div 2 \in Nat /\ y \div 2 >= x \div 2 /\ y \div 2 < y
           /\ y - y \div 2 >= x \div 2 /\ y - y \div 2 < y /\ y - y \div 2 \in Nat
    OBVIOUS
  <1>4. ASSUME NEW b \in BOOLEAN
        PROVE  Capacity(b) \in Nat /\ Capacity(b) >= InnerCapacity
    BY <1>1 DEF Capacity
  <1> QED
    BY <1>1, <1>2, <1>3, <1>4, Zenon DEF Low

LeafKeys(N, L) == UNION {Keys(N[q]) : q \in {s \in DOMAIN L : L[s] = 0}}

Filled(N, L, F) == \A q \in DOMAIN L \ F : Count(N[q]) >= Low

Whole(N, L, t, X, F, C) ==
    /\ Parents(N, L, {t} \cup X)
    /\ Filled(N, L, {t} \cup F)
    /\ LeafKeys(N, L) = C
    /\ t \in DOMAIN L
    /\ \A q \in DOMAIN L : L[q] <= L[t]

\* Page p is where key k belongs on its level.
Home(N, L, p, k) ==
    \A q : Beside(L, p, q) =>
        /\ LeftOf(N[p], N[q]) => \A x \in Keys(N[q]) : k < x
        /\ LeftOf(N[q], N[p]) => Least(N[p]) <= k

\* Nodes below the root have slots, and only the root and the pages in X have
\* no slot that leads to them.
LEMMA WholeFacts ==
    ASSUME NEW N, NEW L, Layered(N, L), NEW t, NEW X, NEW F, NEW C, Whole(N, L, t, X, F, C)
    PROVE  /\ \A q \in DOMAIN L \ ({t} \cup X) :
                 /\ Slots(N[q]) # {}
                 /\ \E p, e : Inner(N, L, p, e) /\ e.son = q /\ L[p] = L[q] + 1
                 /\ L[q] < L[t]
           /\ \A p, e : Inner(N, L, p, e) => e.son # t
           /\ \A x : x \in LeafKeys(N, L) <=> \E q \in DOMAIN L : L[q] = 0 /\ x \in Keys(N[q])
  <1>1. /\ Parents(N, L, {t} \cup X) /\ t \in DOMAIN L
        /\ \A q \in DOMAIN L : L[q] <= L[t]
    BY Zenon DEF Whole
  <1>2. \A q \in DOMAIN L : L[q] \in Nat
    BY LayeredFacts
  <1>3. ASSUME NEW p, NEW e, Inner(N, L, p, e)
        PROVE  p \in DOMAIN L /\ L[e.son] = L[p] - 1 /\ e.son \in DOMAIN L /\ Slots(N[e.son]) # {}
    <2>1. p \in DOMAIN L
      BY <1>3 DEF Inner
    <2> QED
      BY <1>3, <2>1, LayeredFacts
  <1>4. ASSUME NEW q \in DOMAIN L \ ({t} \cup X)
        PROVE  /\ Slots(N[q]) # {}
               /\ \E p, e : Inner(N, L, p, e) /\ e.son = q /\ L[p] = L[q] + 1
               /\ L[q] < L[t]
    <2>1. PICK p, e : Inner(N, L, p, e) /\ e.son = q
      BY <1>1 DEF Parents
    <2>2. L[q] = L[p] - 1 /\ Slots(N[q]) # {} /\ p \in DOMAIN L
      BY <1>3, <2>1
    <2>3. L[p] = L[q] + 1 /\ L[q] < L[t]
      <3>1. L[p] \in Nat /\ L[q] \in Nat /\ L[t] \in Nat /\ L[p] <= L[t]
        BY <1>1, <1>2, <2>2
      <3> QED
        BY <2>2, <3>1
    <2> QED
      BY <2>1, <2>2, <2>3
  <1>5. ASSUME NEW p, NEW e, Inner(N, L, p, e) PROVE e.son # t
    <2>1. L[p] <= L[t] /\ L[p] \in Nat /\ L[t] \in Nat /\ L[e.son] = L[p] - 1
      BY <1>1, <1>2, <1>3, <1>5
    <2>2. \A x, y \in Nat : x <= y => x - 1 # y
      OBVIOUS
    <2> QED
      BY <2>1, <2>2, Zenon
  <1>6. \A x : x \in LeafKeys(N, L) <=> \E q \in DOMAIN L : L[q] = 0 /\ x \in Keys(N[q])
    BY DEF LeafKeys
  <1> QED
    BY <1>4, <1>5, <1>6

LEMMA LeastIs ==
    ASSUME NEW n \in Nodes, Increasing(n), NEW x \in Keys(n), \A y \in Keys(n) : x <= y
    PROVE  Least(n) = x
  <1>1. Slots(n) # {}
    BY DEF Keys
  <1>2. Least(n) \in Keys(n) /\ Least(n) \in Nat /\ \A k \in Keys(n) : Least(n) <= k
    BY <1>1, LeastFacts
  <1>3. x \in Nat
    BY SlotSets
  <1> QED
    BY <1>2, <1>3

\* The leaf that k belongs to tells whether k is an entry.
LEMMA HomeLeaf ==
    ASSUME NEW N, NEW L, Layered(N, L), NEW t, NEW C, Whole(N, L, t, {}, {}, C),
           NEW p \in DOMAIN L, L[p] = 0, NEW k \in Nat, Home(N, L, p, k)
    PROVE  /\ k \in C <=> k \in Keys(N[p])
           /\ \A q : Beside(L, p, q) =>
                 /\ LeftOf(N[p], N[q]) => \A x \in Keys(N[q]) : k < x
                 /\ LeftOf(N[q], N[p]) => \A x \in Keys(N[q]) : x < k
  <1>1. C = LeafKeys(N, L)
    BY DEF Whole
  <1>2. ASSUME NEW q, Beside(L, p, q)
        PROVE  /\ LeftOf(N[p], N[q]) => \A x \in Keys(N[q]) : k < x
               /\ LeftOf(N[q], N[p]) => \A x \in Keys(N[q]) : x < k
    <2>1. ASSUME LeftOf(N[q], N[p]), NEW x \in Keys(N[q]) PROVE x < k
      <3>1. p # t
        <4>1. ASSUME p = t PROVE FALSE
          <5>1. q \in DOMAIN L /\ L[q] = L[t] /\ q # t
            BY <1>2, <4>1, BesideFacts
          <5>2. L[q] < L[t] /\ L[t] \in Nat
            BY <5>1, WholeFacts, LayeredFacts
          <5> QED
            BY <5>1, <5>2
        <4> QED
          BY <4>1
      <3>2. Slots(N[p]) # {} /\ N[p] \in Nodes /\ Increasing(N[p]) /\ q \in DOMAIN L
        <4>1. Slots(N[p]) # {}
          BY <3>1, WholeFacts
        <4> QED
          BY <1>2, <4>1, LayeredFacts, BesideFacts
      <3>3. Least(N[p]) \in Keys(N[p]) /\ Least(N[p]) \in Nat
        BY <3>2, LeastFacts
      <3>4. x < Least(N[p])
        BY <2>1, <3>3 DEF LeftOf
      <3>5. Least(N[p]) <= k
        BY <1>2, <2>1 DEF Home
      <3>6. x \in Nat
        <4>1. N[q] \in Nodes
          BY <3>2, LayeredFacts
        <4> QED
          BY <4>1, SlotSets
      <3> QED
        BY <3>3, <3>4, <3>5, <3>6
    <2>2. LeftOf(N[p], N[q]) => \A x \in Keys(N[q]) : k < x
      BY <1>2 DEF Home
    <2> QED
      BY <2>1, <2>2
  <1>3. ASSUME k \in C PROVE k \in Keys(N[p])
    <2>1. PICK q \in DOMAIN L : L[q] = 0 /\ k \in Keys(N[q])
      BY <1>1, <1>3, WholeFacts
    <2>2. ASSUME q # p PROVE FALSE
      <3>1. Beside(L, p, q)
        BY <2>1, <2>2 DEF Beside
      <3>2. LeftOf(N[p], N[q]) \/ LeftOf(N[q], N[p])
        BY <3>1, LayeredFacts
      <3>3. k < k
        BY <1>2, <2>1, <3>1, <3>2
      <3> QED
        BY <3>3
    <2> QED
      BY <2>1, <2>2
  <1>4. ASSUME k \in Keys(N[p]) PROVE k \in C
    BY <1>1, <1>4, WholeFacts
  <1> QED
    BY <1>2, <1>3, <1>4

\* The son that k belongs to is its home if the page is.
LEMMA HomeOfSon ==
    ASSUME NEW N, NEW L, Layered(N, L), Exact(N, L, {}), NEW t, NEW F, NEW C,
           Whole(N, L, t, {}, F, C), NEW p \in DOMAIN L, L[p] > 0, Slots(N[p]) # {},
           NEW k \in Nat, Home(N, L, p, k)
    PROVE  /\ Son(N[p], k) \in DOMAIN L /\ L[Son(N[p], k)] = L[p] - 1
           /\ Slots(N[Son(N[p], k)]) # {}
           /\ Home(N, L, Son(N[p], k), k)
  <1>i. PICK i : i = SonPos(N[p], k)
    OBVIOUS
  <1>e. PICK e : e = N[p].slots[i]
    OBVIOUS
  <1>c. PICK c : c = Son(N[p], k)
    OBVIOUS
  <1>1. N[p] \in Nodes /\ Increasing(N[p]) /\ L[p] \in Nat
    BY LayeredFacts
  <1>2. /\ i \in 1 .. Count(N[p]) /\ e \in Slots(N[p]) /\ c = e.son
        /\ \A f \in Slots(N[p]) : e.key < f.key => k < f.key
        /\ e.key <= k \/ (i = 1 /\ \A f \in Slots(N[p]) : e.key <= f.key)
        /\ i = 1 => e.key = Least(N[p])
    BY <1>1, <1>i, <1>e, <1>c, SonSets
  <1>3. Inner(N, L, p, e)
    BY <1>2 DEF Inner
  <1>4. c \in DOMAIN L /\ L[c] = L[p] - 1 /\ Slots(N[c]) # {} /\ e.key \in Nat
    BY <1>2, <1>3, LayeredFacts
  <1>5. ASSUME NEW q, NEW g, Inner(N, L, q, g)
        PROVE  /\ g.key = Least(N[g.son]) /\ g.key \in Nat
               /\ g.key \in Keys(N[g.son]) /\ \A x \in Keys(N[g.son]) : g.key <= x /\ x \in Nat
    <2>1. g.key = Least(N[g.son])
      BY <1>5 DEF Exact
    <2>2. g.son \in DOMAIN L /\ Slots(N[g.son]) # {}
      BY <1>5, LayeredFacts
    <2>3. N[g.son] \in Nodes /\ Increasing(N[g.son])
      BY <2>2, LayeredFacts
    <2> QED
      BY <2>1, <2>2, <2>3, LeastFacts, SlotSets
  <1>6. ASSUME NEW s, Beside(L, c, s)
        PROVE  /\ LeftOf(N[c], N[s]) => \A x \in Keys(N[s]) : k < x
               /\ LeftOf(N[s], N[c]) => Least(N[c]) <= k
    <2>1. s \in DOMAIN L /\ L[s] = L[p] - 1 /\ s # c
      BY <1>4, <1>6, BesideFacts
    <2>2. s # t
      <3>1. L[p] <= L[t] /\ L[t] \in Nat
        <4>1. t \in DOMAIN L /\ L[p] <= L[t]
          BY DEF Whole
        <4> QED
          BY <4>1, LayeredFacts
      <3> QED
        BY <1>1, <2>1, <3>1
    <2>3. PICK q, g : Inner(N, L, q, g) /\ g.son = s /\ L[q] = L[s] + 1
      BY <2>1, <2>2, WholeFacts
    <2>4. q \in DOMAIN L /\ L[q] = L[p] /\ g \in Slots(N[q])
      BY <1>1, <2>1, <2>3 DEF Inner
    <2>5. q # p => Beside(L, p, q)
      BY <2>4 DEF Beside
    <2>6. ASSUME LeftOf(N[c], N[s]), NEW x \in Keys(N[s]) PROVE k < x
      <3>1. e.key < g.key
        BY <1>2, <1>3, <1>5, <2>3, <2>6, Zenon DEF LeftOf
      <3>2. k < g.key
        <4>1. CASE q = p
          BY <1>2, <2>4, <3>1, <4>1
        <4>2. CASE q # p
          <5>1. ~LeftOf(N[q], N[p])
            <6>1. ~(g.key < e.key)
              BY <1>3, <1>5, <2>3, <3>1
            <6> QED
              BY <1>2, <2>4, <6>1, Zenon DEF LeftOf, Keys
          <5>2. LeftOf(N[p], N[q])
            BY <2>5, <4>2, <5>1, LayeredFacts
          <5> QED
            BY <2>4, <2>5, <4>2, <5>2, Zenon DEF Home, Keys
        <4> QED
          BY <4>1, <4>2
      <3>3. g.key <= x /\ g.key \in Nat /\ x \in Nat
        BY <1>5, <2>3, <2>6
      <3> QED
        BY <3>2, <3>3
    <2>7. ASSUME LeftOf(N[s], N[c]) PROVE e.key <= k
      <3>1. g.key < e.key
        BY <1>2, <1>3, <1>5, <2>3, <2>7, Zenon DEF LeftOf
      <3>2. ASSUME i = 1, \A f \in Slots(N[p]) : e.key <= f.key PROVE e.key <= k
        <4>1. q # p
          <5>1. ~(e.key <= g.key)
            BY <1>3, <1>5, <2>3, <3>1
          <5> QED
            BY <2>4, <3>2, <5>1
        <4>2. ~LeftOf(N[p], N[q])
          <5>1. ~(e.key < g.key)
            BY <1>3, <1>5, <2>3, <3>1
          <5> QED
            BY <1>2, <2>4, <5>1, Zenon DEF LeftOf, Keys
        <4>3. LeftOf(N[q], N[p])
          BY <2>5, <4>1, <4>2, LayeredFacts
        <4>4. Least(N[p]) <= k
          BY <2>5, <4>1, <4>3, Zenon DEF Home
        <4> QED
          BY <1>2, <3>2, <4>4
      <3> QED
        BY <1>2, <3>2
    <2>8. e.key = Least(N[c])
      BY <1>2, <1>3, <1>5
    <2> QED
      BY <2>6, <2>7, <2>8
  <1>7. Home(N, L, c, k)
    BY <1>6, Zenon DEF Home
  <1> QED
    BY <1>c, <1>4, <1>7

\* The entries of the leaves, when none but page p changes.
LEMMA LeafKeysKept ==
    ASSUME NEW N, NEW L, NEW M, \A q \in DOMAIN L : L[q] = 0 => M[q] = N[q]
    PROVE  LeafKeys(M, L) = LeafKeys(N, L)
  <1>1. \A x : x \in LeafKeys(M, L) <=> \E q \in DOMAIN L : L[q] = 0 /\ x \in Keys(M[q])
    BY DEF LeafKeys
  <1>2. \A x : x \in LeafKeys(N, L) <=> \E q \in DOMAIN L : L[q] = 0 /\ x \in Keys(N[q])
    BY DEF LeafKeys
  <1>3. \A x : x \in LeafKeys(M, L) <=> x \in LeafKeys(N, L)
    BY <1>1, <1>2
  <1> QED
    BY <1>3

LEMMA RaiseWhole ==
    ASSUME NEW N, NEW L, NEW c, NEW p, Near(N, L, p, c), NEW i \in 1 .. Count(N[p]),
           Inner(N, L, p, N[p].slots[i]), N[p].slots[i].son = c,
           NEW M, SetsKey(N, M, p, i, Least(N[c])),
           NEW t, NEW X, NEW F, NEW C, Whole(N, L, t, X, F, C)
    PROVE  Whole(M, L, t, X, F, C)
  <1>1. Layered(N, L) /\ p \in DOMAIN L
    BY DEF Near
  <1>2. L[p] > 0
    BY DEF Inner
  <1>3. /\ Count(M[p]) = Count(N[p])
        /\ \A q \in PageIds : q # p => M[q] = N[q]
        /\ \A s \in DOMAIN L : (\E q, f : Inner(N, L, q, f) /\ f.son = s)
                               => \E q, f : Inner(M, L, q, f) /\ f.son = s
    <2>1. Raised(N, M, L, p, i, c)
      BY Raise
    <2> QED
      BY <2>1, Zenon DEF Raised
  <1>4. \A q \in DOMAIN L : q \in PageIds
    BY <1>1, LayeredFacts
  <1>5. /\ Parents(N, L, {t} \cup X) /\ Filled(N, L, {t} \cup F)
        /\ LeafKeys(N, L) = C /\ t \in DOMAIN L /\ \A q \in DOMAIN L : L[q] <= L[t]
    BY Zenon DEF Whole
  <1>6. Parents(M, L, {t} \cup X)
    BY <1>3, <1>5 DEF Parents
  <1>7. Filled(M, L, {t} \cup F)
    BY <1>3, <1>4, <1>5 DEF Filled
  <1>8. LeafKeys(M, L) = C
    <2>1. \A q \in DOMAIN L : L[q] = 0 => M[q] = N[q]
      BY <1>2, <1>3, <1>4
    <2> QED
      BY <1>5, <2>1, LeafKeysKept
  <1> QED
    BY <1>5, <1>6, <1>7, <1>8, Zenon DEF Whole

LEMMA AddSonWhole ==
    ASSUME NEW N, NEW L, NEW p, Mid(N, L, p), L[p] > 0, NEW o, NEW k,
           NEW m, NEW M, Replaced(N, M, L, p, m), SlotsReplaced(N, M, L, p, m),
           Slots(m) = Slots(N[p]) \cup {[key |-> k, son |-> o]},
           Count(m) = Count(N[p]) + 1, N[p] \in Nodes,
           NEW t, NEW F, NEW C, Whole(N, L, t, {o}, F, C)
    PROVE  Whole(M, L, t, {}, F, C)
  <1>1. Layered(N, L) /\ p \in DOMAIN L
    BY DEF Mid
  <1>2. M[p] = m /\ \A q \in PageIds : q # p => M[q] = N[q]
    BY Zenon DEF Replaced
  <1>3. /\ \A q, e : q # p => (Inner(M, L, q, e) <=> Inner(N, L, q, e))
        /\ \A e : Inner(M, L, p, e) <=> L[p] > 0 /\ e \in Slots(m)
    BY Zenon DEF SlotsReplaced
  <1>4. \A q \in DOMAIN L : q \in PageIds
    BY <1>1, LayeredFacts
  <1>5. /\ Parents(N, L, {t} \cup {o}) /\ Filled(N, L, {t} \cup F)
        /\ LeafKeys(N, L) = C /\ t \in DOMAIN L /\ \A q \in DOMAIN L : L[q] <= L[t]
    BY Zenon DEF Whole
  <1>6. Parents(M, L, {t} \cup {})
    <2>1. ASSUME NEW s \in DOMAIN L, s # t PROVE \E q, f : Inner(M, L, q, f) /\ f.son = s
      <3>1. CASE s = o
        <4>d. PICK d : d = [key |-> k, son |-> o]
          OBVIOUS
        <4>1. d.son = o
          BY <4>d
        <4>2. Inner(M, L, p, d)
          BY <1>3, <4>d
        <4> QED
          BY <3>1, <4>1, <4>2
      <3>2. CASE s # o
        <4>1. PICK q, f : Inner(N, L, q, f) /\ f.son = s
          BY <1>5, <2>1, <3>2 DEF Parents
        <4>2. Inner(M, L, q, f)
          <5>1. CASE q = p
            BY <1>3, <4>1, <5>1 DEF Inner
          <5>2. CASE q # p
            BY <1>3, <4>1, <5>2
          <5> QED
            BY <5>1, <5>2
        <4> QED
          BY <4>1, <4>2
      <3> QED
        BY <3>1, <3>2
    <2> QED
      BY <2>1 DEF Parents
  <1>7. Filled(M, L, {t} \cup F)
    <2>1. Count(m) = Count(N[p]) + 1 /\ Count(N[p]) \in Nat /\ Low \in Nat
      BY NodeFacts, Capacities
    <2>2. ASSUME NEW q \in DOMAIN L \ ({t} \cup F) PROVE Count(M[q]) >= Low
      <3>1. Count(N[q]) >= Low
        BY <1>5, <2>2 DEF Filled
      <3>2. CASE q = p
        BY <1>2, <2>1, <3>1, <3>2
      <3>3. CASE q # p
        BY <1>2, <1>4, <3>1, <3>3
      <3> QED
        BY <3>2, <3>3
    <2> QED
      BY <2>2 DEF Filled
  <1>8. LeafKeys(M, L) = C
    <2>1. \A q \in DOMAIN L : L[q] = 0 => M[q] = N[q]
      BY <1>2, <1>4
    <2> QED
      BY <1>5, <2>1, LeafKeysKept
  <1> QED
    BY <1>5, <1>6, <1>7, <1>8, Zenon DEF Whole

LEMMA SplitWhole ==
    ASSUME NEW N, NEW L, NEW p, Mid(N, L, p), NEW o \in PageIds \ InitialPages,
           o \notin DOMAIN L, NEW K, Joins(L, K, p, o), NEW M, Halved(N, L, M, K, p, o),
           NEW b \in BOOLEAN, Count(N[p]) = Capacity(b),
           NEW t, NEW F, NEW C, Whole(N, L, t, {}, F, C)
    PROVE  Whole(M, K, t, {o}, F, C)
  <1>1. Layered(N, L) /\ Leveled(L) /\ p \in DOMAIN L
    BY DEF Mid, Layered
  <1>2. /\ Slots(N[p]) = Slots(M[p]) \cup Slots(M[o])
        /\ Count(M[p]) = Count(N[p]) \div 2
        /\ Count(M[o]) = Count(N[p]) - Count(N[p]) \div 2
        /\ \A q \in PageIds : q # p /\ q # o => M[q] = N[q]
    BY Zenon DEF Halved
  <1>3. \A q, e : Inner(N, L, q, e) => \E s : Inner(M, K, s, e)
    <2>1. SlotsHalved(N, L, M, K, p, o)
      BY SplitMid
    <2> QED
      BY <2>1 DEF SlotsHalved
  <1>4. /\ DOMAIN K = DOMAIN L \cup {o} /\ K[o] = L[p]
        /\ \A q \in DOMAIN L : K[q] = L[q] /\ q # o
    BY <1>1 DEF Joins
  <1>5. /\ Parents(N, L, {t} \cup {}) /\ Filled(N, L, {t} \cup F)
        /\ LeafKeys(N, L) = C /\ t \in DOMAIN L /\ \A q \in DOMAIN L : L[q] <= L[t]
    BY Zenon DEF Whole
  <1>6. Parents(M, K, {t} \cup {o})
    <2>1. ASSUME NEW s \in DOMAIN K, s # t, s # o
          PROVE  \E q, f : Inner(M, K, q, f) /\ f.son = s
      <3>1. PICK q, f : Inner(N, L, q, f) /\ f.son = s
        BY <1>4, <1>5, <2>1 DEF Parents
      <3> QED
        BY <1>3, <3>1
    <2> QED
      BY <2>1 DEF Parents
  <1>7. Filled(M, K, {t} \cup F)
    <2>1. PICK c \in Nat : /\ c = Capacity(b) /\ c \div 2 >= Low /\ c - c \div 2 >= Low
      BY Capacities
    <2>2. Count(M[p]) >= Low /\ Count(M[o]) >= Low
      BY <1>2, <2>1, Zenon
    <2>3. ASSUME NEW q \in DOMAIN K \ ({t} \cup F) PROVE Count(M[q]) >= Low
      <3>1. CASE q # p /\ q # o
        <4>1. q \in DOMAIN L /\ q \in PageIds
          BY <1>1, <1>4, <3>1, LayeredFacts
        <4> QED
          BY <1>2, <1>5, <2>3, <3>1, <4>1 DEF Filled
      <3> QED
        BY <2>2, <3>1
    <2> QED
      BY <2>3 DEF Filled
  <1>8. LeafKeys(M, K) = C
    <2>1. \A x : x \in LeafKeys(M, K) <=> \E q \in DOMAIN K : K[q] = 0 /\ x \in Keys(M[q])
      BY DEF LeafKeys
    <2>2. \A x : x \in LeafKeys(N, L) <=> \E q \in DOMAIN L : L[q] = 0 /\ x \in Keys(N[q])
      BY DEF LeafKeys
    <2>3. Keys(N[p]) = Keys(M[p]) \cup Keys(M[o])
      BY <1>2, Zenon DEF Keys
    <2>4. \A q \in DOMAIN L : q \in PageIds
      BY <1>1, LayeredFacts
    <2>5. ASSUME NEW x \in LeafKeys(M, K) PROVE x \in LeafKeys(N, L)
      <3>1. PICK q \in DOMAIN K : K[q] = 0 /\ x \in Keys(M[q])
        BY <2>1
      <3>2. CASE q = p \/ q = o
        BY <1>1, <1>4, <2>2, <2>3, <3>1, <3>2
      <3>3. CASE q # p /\ q # o
        BY <1>2, <1>4, <2>2, <2>4, <3>1, <3>3
      <3> QED
        BY <3>2, <3>3
    <2>6. ASSUME NEW x \in LeafKeys(N, L) PROVE x \in LeafKeys(M, K)
      <3>1. PICK q \in DOMAIN L : L[q] = 0 /\ x \in Keys(N[q])
        BY <2>2
      <3>2. CASE q = p
        BY <1>1, <1>4, <2>1, <2>3, <3>1, <3>2
      <3>3. CASE q # p
        BY <1>2, <1>4, <2>1, <2>4, <3>1, <3>3
      <3> QED
        BY <3>2, <3>3
    <2> QED
      BY <1>5, <2>5, <2>6
  <1>9. t \in DOMAIN K /\ \A q \in DOMAIN K : K[q] <= K[t]
    BY <1>1, <1>4, <1>5
  <1> QED
    BY <1>6, <1>7, <1>8, <1>9, Zenon DEF Whole

LEMMA DropWhole ==
    ASSUME NEW N, NEW L, NEW p, Mid(N, L, p), L[p] > 0, NEW e, NEW m, NEW M,
           Replaced(N, M, L, p, m), SlotsReplaced(N, M, L, p, m),
           Slots(m) = Slots(N[p]) \ {e},
           NEW t, NEW c, NEW C, Whole(N, L, t, {}, {c}, C)
    PROVE  Whole(M, L, t, {e.son}, {c, p}, C)
  <1>1. Layered(N, L) /\ p \in DOMAIN L
    BY DEF Mid
  <1>2. M[p] = m /\ \A q \in PageIds : q # p => M[q] = N[q]
    BY Zenon DEF Replaced
  <1>3. /\ \A q, f : q # p => (Inner(M, L, q, f) <=> Inner(N, L, q, f))
        /\ \A f : Inner(M, L, p, f) <=> L[p] > 0 /\ f \in Slots(m)
    BY Zenon DEF SlotsReplaced
  <1>4. \A q \in DOMAIN L : q \in PageIds
    BY <1>1, LayeredFacts
  <1>5. /\ Parents(N, L, {t} \cup {}) /\ Filled(N, L, {t} \cup {c})
        /\ LeafKeys(N, L) = C /\ t \in DOMAIN L /\ \A q \in DOMAIN L : L[q] <= L[t]
    BY Zenon DEF Whole
  <1>6. Parents(M, L, {t} \cup {e.son})
    <2>1. ASSUME NEW s \in DOMAIN L, s # t, s # e.son
          PROVE  \E q, f : Inner(M, L, q, f) /\ f.son = s
      <3>1. PICK q, f : Inner(N, L, q, f) /\ f.son = s
        BY <1>5, <2>1 DEF Parents
      <3>2. Inner(M, L, q, f)
        <4>1. CASE q = p
          <5>1. f \in Slots(N[p]) /\ f # e
            BY <2>1, <3>1, <4>1 DEF Inner
          <5> QED
            BY <1>3, <4>1, <5>1
        <4>2. CASE q # p
          BY <1>3, <3>1, <4>2
        <4> QED
          BY <4>1, <4>2
      <3> QED
        BY <3>1, <3>2
    <2> QED
      BY <2>1 DEF Parents
  <1>7. Filled(M, L, {t} \cup {c, p})
    BY <1>2, <1>4, <1>5 DEF Filled
  <1>8. LeafKeys(M, L) = C
    <2>1. \A q \in DOMAIN L : L[q] = 0 => M[q] = N[q]
      BY <1>2, <1>4
    <2> QED
      BY <1>5, <2>1, LeafKeysKept
  <1> QED
    BY <1>5, <1>6, <1>7, <1>8, Zenon DEF Whole

LEMMA MergeWhole ==
    ASSUME NEW N, NEW L, NEW p, Mid(N, L, p), NEW l \in DOMAIN L, NEW r \in DOMAIN L,
           L[l] = L[p] - 1, L[r] = L[p] - 1, l # r,
           NEW K, Leaves(L, K, r), NEW M, Fused(N, L, M, K, l, r),
           NEW t, r # t, l # t, NEW c \in {l, r}, NEW C, Whole(N, L, t, {r}, {c, p}, C)
    PROVE  Whole(M, K, t, {}, {p}, C)
  <1>1. Layered(N, L) /\ p \in DOMAIN L
    BY DEF Mid
  <1>2. /\ Slots(M[l]) = Slots(N[l]) \cup Slots(N[r])
        /\ Count(M[l]) = Count(N[l]) + Count(N[r])
        /\ \A q \in PageIds : q # l => M[q] = N[q]
    BY Zenon DEF Fused
  <1>3. DOMAIN K = DOMAIN L \ {r} /\ \A q \in DOMAIN K : K[q] = L[q]
    BY DEF Leaves
  <1>4. \A q \in DOMAIN L : q \in PageIds /\ N[q] \in Nodes /\ L[q] \in Nat
    BY <1>1, LayeredFacts
  <1>5. /\ Parents(N, L, {t} \cup {r}) /\ Filled(N, L, {t} \cup {c, p})
        /\ LeafKeys(N, L) = C /\ t \in DOMAIN L /\ \A q \in DOMAIN L : L[q] <= L[t]
    BY Zenon DEF Whole
  <1>6. p # l /\ p # r
    <2>1. \A x \in Nat : x - 1 # x
      OBVIOUS
    <2> QED
      BY <1>1, <1>4, <2>1, Zenon
  <1>7. Parents(M, K, {t} \cup {})
    <2>0. \A q, e : Inner(N, L, q, e) => \E s : Inner(M, K, s, e)
      <3>1. SlotsFused(N, L, M, K, l, r)
        BY MergeMid
      <3> QED
        BY <3>1 DEF SlotsFused
    <2>1. ASSUME NEW s \in DOMAIN K, s # t PROVE \E q, f : Inner(M, K, q, f) /\ f.son = s
      <3>1. PICK q, f : Inner(N, L, q, f) /\ f.son = s
        BY <1>3, <1>5, <2>1 DEF Parents
      <3> QED
        BY <2>0, <3>1
    <2> QED
      BY <2>1 DEF Parents
  <1>8. Filled(M, K, {t} \cup {p})
    <2>1. Count(M[l]) >= Low
      <3>1. Count(N[l]) \in Nat /\ Count(N[r]) \in Nat /\ Low \in Nat
        BY <1>4, NodeFacts, Capacities
      <3>2. Count(N[l]) >= Low \/ Count(N[r]) >= Low
        BY <1>5, <1>6 DEF Filled
      <3> QED
        BY <1>2, <3>1, <3>2
    <2>2. ASSUME NEW q \in DOMAIN K \ {t, p} PROVE Count(M[q]) >= Low
      <3>1. CASE q = l
        BY <2>1, <3>1
      <3>2. CASE q # l
        BY <1>2, <1>3, <1>4, <1>5, <2>2, <3>2 DEF Filled
      <3> QED
        BY <3>1, <3>2
    <2> QED
      BY <2>2 DEF Filled
  <1>9. LeafKeys(M, K) = C
    <2>1. \A x : x \in LeafKeys(M, K) <=> \E q \in DOMAIN K : K[q] = 0 /\ x \in Keys(M[q])
      BY DEF LeafKeys
    <2>2. \A x : x \in LeafKeys(N, L) <=> \E q \in DOMAIN L : L[q] = 0 /\ x \in Keys(N[q])
      BY DEF LeafKeys
    <2>3. Keys(M[l]) = Keys(N[l]) \cup Keys(N[r])
      BY <1>2, Zenon DEF Keys
    <2>5. ASSUME NEW x \in LeafKeys(M, K) PROVE x \in LeafKeys(N, L)
      <3>1. PICK q \in DOMAIN K : K[q] = 0 /\ x \in Keys(M[q])
        BY <2>1
      <3>2. CASE q = l
        BY <1>3, <2>2, <2>3, <3>1, <3>2
      <3>3. CASE q # l
        BY <1>2, <1>3, <1>4, <2>2, <3>1, <3>3
      <3> QED
        BY <3>2, <3>3
    <2>6. ASSUME NEW x \in LeafKeys(N, L) PROVE x \in LeafKeys(M, K)
      <3>1. PICK q \in DOMAIN L : L[q] = 0 /\ x \in Keys(N[q])
        BY <2>2
      <3>2. CASE q \in {l, r}
        BY <1>3, <2>1, <2>3, <3>1, <3>2
      <3>3. CASE q \notin {l, r}
        BY <1>2, <1>3, <1>4, <2>1, <3>1, <3>3
      <3> QED
        BY <3>2, <3>3
    <2> QED
      BY <1>5, <2>5, <2>6
  <1>10. t \in DOMAIN K /\ \A q \in DOMAIN K : K[q] <= K[t]
    BY <1>3, <1>5
  <1> QED
    BY <1>7, <1>8, <1>9, <1>10, Zenon DEF Whole

LEMMA ShareWhole ==
    ASSUME NEW N, NEW L, NEW p, Mid(N, L, p), NEW l \in DOMAIN L, NEW r \in DOMAIN L,
           L[l] = L[p] - 1, L[r] = L[p] - 1, l # r, NEW M, Shared(N, L, M, l, r),
           Count(N[l]) + Count(N[r]) >= InnerCapacity,
           NEW t, NEW c \in {l, r}, NEW C, Whole(N, L, t, {}, {c}, C)
    PROVE  Whole(M, L, t, {}, {}, C)
  <1>1. Layered(N, L) /\ p \in DOMAIN L
    BY DEF Mid
  <1>2. /\ Slots(M[l]) \cup Slots(M[r]) = Slots(N[l]) \cup Slots(N[r])
        /\ \E h \in Nat : /\ h = (Count(N[l]) + Count(N[r])) \div 2
                          /\ Count(M[l]) = h /\ Count(M[r]) = (Count(N[l]) + Count(N[r])) - h
        /\ \A q \in PageIds : q # l /\ q # r => M[q] = N[q]
    BY Zenon DEF Shared
  <1>4. \A q \in DOMAIN L : q \in PageIds /\ N[q] \in Nodes
    BY <1>1, LayeredFacts
  <1>5. /\ Parents(N, L, {t} \cup {}) /\ Filled(N, L, {t} \cup {c})
        /\ LeafKeys(N, L) = C /\ t \in DOMAIN L /\ \A q \in DOMAIN L : L[q] <= L[t]
    BY Zenon DEF Whole
  <1>7. Parents(M, L, {t} \cup {})
    <2>0. \A q, e : Inner(N, L, q, e) => \E s : Inner(M, L, s, e)
      <3>1. SlotsShared(N, L, M, l, r)
        BY ShareNear
      <3> QED
        BY <3>1 DEF SlotsShared
    <2> QED
      BY <1>5, <2>0, Zenon DEF Parents
  <1>8. Filled(M, L, {t} \cup {})
    <2>1. Count(M[l]) >= Low /\ Count(M[r]) >= Low
      <3>1. Count(N[l]) \in Nat /\ Count(N[r]) \in Nat
        BY <1>4, NodeFacts
      <3>2. \A a, b, x \in Nat : a + b >= x => /\ (a + b) \div 2 >= x \div 2
                                               /\ (a + b) - (a + b) \div 2 >= x \div 2
        OBVIOUS
      <3>3. InnerCapacity \in Nat
        BY CapacityAssumption
      <3> QED
        BY <1>2, <3>1, <3>2, <3>3, Zenon DEF Low
    <2>2. ASSUME NEW q \in DOMAIN L \ {t} PROVE Count(M[q]) >= Low
      <3>1. CASE q \in {l, r}
        BY <2>1, <3>1
      <3>2. CASE q \notin {l, r}
        BY <1>2, <1>4, <1>5, <2>2, <3>2 DEF Filled
      <3> QED
        BY <3>1, <3>2
    <2> QED
      BY <2>2 DEF Filled
  <1>9. LeafKeys(M, L) = C
    <2>1. \A x : x \in LeafKeys(M, L) <=> \E q \in DOMAIN L : L[q] = 0 /\ x \in Keys(M[q])
      BY DEF LeafKeys
    <2>2. \A x : x \in LeafKeys(N, L) <=> \E q \in DOMAIN L : L[q] = 0 /\ x \in Keys(N[q])
      BY DEF LeafKeys
    <2>3. Keys(M[l]) \cup Keys(M[r]) = Keys(N[l]) \cup Keys(N[r])
      BY <1>2, Zenon DEF Keys
    <2>5. ASSUME NEW x \in LeafKeys(M, L) PROVE x \in LeafKeys(N, L)
      <3>1. PICK q \in DOMAIN L : L[q] = 0 /\ x \in Keys(M[q])
        BY <2>1
      <3>2. CASE q \in {l, r}
        BY <2>2, <2>3, <3>1, <3>2
      <3>3. CASE q \notin {l, r}
        BY <1>2, <1>4, <2>2, <3>1, <3>3
      <3> QED
        BY <3>2, <3>3
    <2>6. ASSUME NEW x \in LeafKeys(N, L) PROVE x \in LeafKeys(M, L)
      <3>1. PICK q \in DOMAIN L : L[q] = 0 /\ x \in Keys(N[q])
        BY <2>2
      <3>2. CASE q \in {l, r}
        BY <2>1, <2>3, <3>1, <3>2
      <3>3. CASE q \notin {l, r}
        BY <1>2, <1>4, <2>1, <3>1, <3>3
      <3> QED
        BY <3>2, <3>3
    <2> QED
      BY <1>5, <2>5, <2>6
  <1> QED
    BY <1>5, <1>7, <1>8, <1>9, Zenon DEF Whole
-----------------------------------------------------------------------------
(* What happens on the leaf.                                                  *)

\* The entries of leaf p are now those of m, so all entries are those in D.
LeafEntries(N, L, p, m, D) ==
    \A x : x \in D <=> \/ x \in Keys(m)
                       \/ \E q \in DOMAIN L : q # p /\ L[q] = 0 /\ x \in Keys(N[q])

LEMMA ReplaceLeaf ==
    ASSUME NEW N, NEW L, Layered(N, L), Exact(N, L, {}), NEW t, NEW C,
           Whole(N, L, t, {}, {}, C), NEW p \in DOMAIN L, L[p] = 0,
           NEW m, Fits(N, L, p, m), NEW M, Puts(N, M, p, m),
           NEW F, p \in {t} \cup F \/ Count(m) >= Low, NEW D, LeafEntries(N, L, p, m, D)
    PROVE  Mid(M, L, p) /\ Whole(M, L, t, {}, F, D) /\ Replaced(N, M, L, p, m)
  <1>1. Replaced(N, M, L, p, m) /\ SlotsReplaced(N, M, L, p, m)
    BY ReplaceNode, ReplacedSlots
  <1>2. Layered(M, L) /\ M[p] = m /\ \A q \in PageIds : q # p => M[q] = N[q]
    BY <1>1, Zenon DEF Replaced
  <1>3. /\ \A q, e : q # p => (Inner(M, L, q, e) <=> Inner(N, L, q, e))
        /\ Aligned(N, L, p) => Aligned(M, L, p)
    BY <1>1, Zenon DEF SlotsReplaced
  <1>4. \A q, e : Inner(M, L, q, e) <=> Inner(N, L, q, e)
    <2>1. \A e : ~Inner(M, L, p, e) /\ ~Inner(N, L, p, e)
      BY DEF Inner
    <2> QED
      BY <1>3, <2>1
  <1>5. Aligned(M, L, p)
    <2>1. Aligned(N, L, p)
      BY AlignedIfExact
    <2> QED
      BY <1>3, <2>1
  <1>6. \A q \in DOMAIN L : q \in PageIds
    BY LayeredFacts
  <1>7. Exact(M, L, {p})
    <2>1. ASSUME NEW q, NEW e, Inner(M, L, q, e), e.son # p PROVE e.key = Least(M[e.son])
      <3>1. Inner(N, L, q, e)
        BY <1>4, <2>1
      <3>2. e.key = Least(N[e.son]) /\ e.son \in PageIds
        BY <1>6, <3>1, LayeredFacts DEF Exact
      <3> QED
        BY <1>2, <2>1, <3>2
    <2> QED
      BY <2>1, Zenon DEF Exact
  <1>8. Mid(M, L, p)
    BY <1>2, <1>5, <1>7 DEF Mid
  <1>9. /\ Parents(N, L, {t} \cup {}) /\ Filled(N, L, {t} \cup {})
        /\ t \in DOMAIN L /\ \A q \in DOMAIN L : L[q] <= L[t]
    BY Zenon DEF Whole
  <1>10. Parents(M, L, {t} \cup {})
    BY <1>4, <1>9 DEF Parents
  <1>11. Filled(M, L, {t} \cup F)
    BY <1>2, <1>6, <1>9 DEF Filled
  <1>12. LeafKeys(M, L) = D
    <2>1. \A x : x \in LeafKeys(M, L) <=> \E q \in DOMAIN L : L[q] = 0 /\ x \in Keys(M[q])
      BY DEF LeafKeys
    <2>2. \A x : x \in D <=> \/ x \in Keys(m)
                             \/ \E q \in DOMAIN L : q # p /\ L[q] = 0 /\ x \in Keys(N[q])
      BY DEF LeafEntries
    <2>3. \A x : x \in LeafKeys(M, L) <=> x \in D
      BY <1>2, <1>6, <2>1, <2>2
    <2> QED
      BY <2>3
  <1>13. Whole(M, L, t, {}, F, D)
    BY <1>9, <1>10, <1>11, <1>12, Zenon DEF Whole
  <1> QED
    BY <1>1, <1>8, <1>13

\* The least key of a node that gets key k.
LowestOf(n, k) == IF Slots(n) # {} /\ Least(n) < k THEN Least(n) ELSE k

\* Key k gets onto page p, where it belongs.
LEMMA PutKey ==
    ASSUME NEW N, NEW L, Layered(N, L), Exact(N, L, {}), NEW t, NEW C,
           Whole(N, L, t, {}, {}, C), NEW p \in DOMAIN L, L[p] = 0,
           NEW k \in Entries, Home(N, L, p, k), k \notin C,
           NEW m, m = InsertSlot(N[p], LowerBound(N[p], k), k, 0), NEW M, Puts(N, M, p, m)
    PROVE  /\ Mid(M, L, p) /\ Whole(M, L, t, {}, {}, C \cup {k}) /\ Replaced(N, M, L, p, m)
           /\ m \in Nodes /\ m.leaf = N[p].leaf /\ Count(m) = Count(N[p]) + 1
           /\ Slots(m) # {} /\ Least(m) = LowestOf(N[p], k)
  <1>1. N[p] \in Nodes /\ Increasing(N[p]) /\ k \in Nat /\ 0 \in PageIds /\ Count(N[p]) \in Nat
    BY LayeredFacts, EntriesAreNumbers, MaxPageNumAssumption, NodeFacts DEF PageIds
  <1>2. /\ k \notin Keys(N[p])
        /\ \A q : Beside(L, p, q) => /\ LeftOf(N[p], N[q]) => \A x \in Keys(N[q]) : k < x
                                     /\ LeftOf(N[q], N[p]) => \A x \in Keys(N[q]) : x < k
    BY <1>1, HomeLeaf
  <1>d. PICK d : d = [key |-> k, son |-> 0]
    OBVIOUS
  <1>3. /\ m \in Nodes /\ m.leaf = N[p].leaf /\ m.next = N[p].next
        /\ Count(m) = Count(N[p]) + 1 /\ Increasing(m)
        /\ Slots(m) = Slots(N[p]) \cup {d} /\ d.key = k
    BY <1>1, <1>2, <1>d, InsertSets
  <1>4. \A x : x \in Keys(m) <=> x \in Keys(N[p]) \/ x = k
    BY <1>3 DEF Keys
  <1>5. Fits(N, L, p, m)
    <2>1. \A q : Beside(L, p, q) => /\ LeftOf(N[p], N[q]) => LeftOf(m, N[q])
                                    /\ LeftOf(N[q], N[p]) => LeftOf(N[q], m)
      BY <1>2, <1>4, Zenon DEF LeftOf
    <2>2. ~(L[p] > 0) /\ Slots(m) # {}
      BY <1>3
    <2> QED
      BY <1>3, <2>1, <2>2, Zenon DEF Fits
  <1>6. p \in {t} \cup {} \/ Count(m) >= Low
    <2>1. p # t => Count(N[p]) >= Low
      BY DEF Whole, Filled
    <2> QED
      BY <1>1, <1>3, <2>1, Capacities
  <1>7. LeafEntries(N, L, p, m, C \cup {k})
    <2>1. \A x : x \in C <=> \E q \in DOMAIN L : L[q] = 0 /\ x \in Keys(N[q])
      BY DEF Whole, LeafKeys
    <2> QED
      BY <1>4, <2>1, Zenon DEF LeafEntries
  <1>8. Mid(M, L, p) /\ Whole(M, L, t, {}, {}, C \cup {k}) /\ Replaced(N, M, L, p, m)
    BY <1>5, <1>6, <1>7, ReplaceLeaf
  <1>9. Least(m) = LowestOf(N[p], k)
    <2>1. CASE Slots(N[p]) = {}
      <3>1. Keys(N[p]) = {}
        BY <2>1 DEF Keys
      <3> QED
        BY <1>1, <1>3, <1>4, <2>1, <3>1, LeastIs DEF LowestOf
    <2>2. CASE Slots(N[p]) # {}
      <3>1. Least(N[p]) \in Keys(N[p]) /\ Least(N[p]) \in Nat
            /\ \A x \in Keys(N[p]) : Least(N[p]) <= x /\ x \in Nat
        BY <1>1, <2>2, LeastFacts, SlotSets
      <3>2. LowestOf(N[p], k) \in Keys(m) /\ \A x \in Keys(m) : LowestOf(N[p], k) <= x
        BY <1>1, <1>4, <2>2, <3>1 DEF LowestOf
      <3> QED
        BY <1>3, <3>2, LeastIs
    <2> QED
      BY <2>1, <2>2
  <1>10. Slots(m) # {}
    BY <1>3
  <1> QED
    BY <1>3, <1>8, <1>9, <1>10

\* Key k is taken from page p.
LEMMA TakeKey ==
    ASSUME NEW N, NEW L, Layered(N, L), Exact(N, L, {}), NEW t, NEW C,
           Whole(N, L, t, {}, {}, C), NEW p \in DOMAIN L, L[p] = 0,
           NEW k \in Entries, Home(N, L, p, k), k \in C,
           NEW m, m = RemoveSlot(N[p], LowerBound(N[p], k)), NEW M, Puts(N, M, p, m)
    PROVE  /\ Mid(M, L, p) /\ Whole(M, L, t, {}, {p}, C \ {k}) /\ Replaced(N, M, L, p, m)
           /\ m \in Nodes /\ m.leaf = N[p].leaf /\ Count(m) = Count(N[p]) - 1
           /\ p # t => Slots(m) # {}
  <1>1. N[p] \in Nodes /\ Increasing(N[p]) /\ k \in Nat /\ Count(N[p]) \in Nat
    BY LayeredFacts, EntriesAreNumbers, NodeFacts
  <1>2. /\ k \in Keys(N[p])
        /\ \A q : Beside(L, p, q) => /\ LeftOf(N[p], N[q]) => \A x \in Keys(N[q]) : k < x
                                     /\ LeftOf(N[q], N[p]) => \A x \in Keys(N[q]) : x < k
    BY <1>1, HomeLeaf
  <1>i. PICK i \in 1 .. Count(N[p]) : KeyIn(N[p], i) = k
    BY <1>1, <1>2, SlotSets DEF Keys
  <1>e. PICK e : e = N[p].slots[i]
    OBVIOUS
  <1>3. /\ m \in Nodes /\ m.leaf = N[p].leaf /\ m.next = N[p].next
        /\ Count(m) = Count(N[p]) - 1 /\ Increasing(m)
        /\ Slots(m) = Slots(N[p]) \ {e}
    <2>1. LowerBound(N[p], k) = i
      BY <1>1, <1>i, LowerBoundFinds
    <2> QED
      BY <1>1, <1>e, <2>1, RemoveSets
  <1>4. \A x : x \in Keys(m) <=> x \in Keys(N[p]) /\ x # k
    <2>1. e \in Slots(N[p]) /\ e.key = k
      BY <1>e, <1>i DEF Slots, KeyIn
    <2>2. \A f \in Slots(N[p]) : f.key = k => f = e
      BY <1>1, <2>1, SlotsApart
    <2> QED
      BY <1>3, <2>1, <2>2, Zenon DEF Keys
  <1>5. p # t => Slots(m) # {}
    <2>1. ASSUME p # t PROVE Slots(m) # {}
      <3>1. Count(N[p]) >= Low
        BY <2>1 DEF Whole, Filled
      <3>2. Count(m) # 0
        BY <1>1, <1>3, <3>1, Capacities
      <3> QED
        BY <1>3, <3>2, SlotSets
    <2> QED
      BY <2>1
  <1>6. Fits(N, L, p, m)
    <2>1. \A q : Beside(L, p, q) => /\ LeftOf(N[p], N[q]) => LeftOf(m, N[q])
                                    /\ LeftOf(N[q], N[p]) => LeftOf(N[q], m)
      BY <1>4, Zenon DEF LeftOf
    <2>2. ~(L[p] > 0)
      OBVIOUS
    <2>3. Slots(m) # {} \/ \A q, e1 : Inner(N, L, q, e1) => e1.son # p
      BY <1>5, WholeFacts
    <2> QED
      BY <1>3, <2>1, <2>2, <2>3, Zenon DEF Fits
  <1>7. LeafEntries(N, L, p, m, C \ {k})
    <2>1. \A x : x \in C <=> \E q \in DOMAIN L : L[q] = 0 /\ x \in Keys(N[q])
      BY DEF Whole, LeafKeys
    <2>2. ASSUME NEW q \in DOMAIN L, q # p, L[q] = 0 PROVE k \notin Keys(N[q])
      <3>1. Beside(L, p, q)
        BY <2>2 DEF Beside
      <3>2. LeftOf(N[p], N[q]) \/ LeftOf(N[q], N[p])
        BY <3>1, LayeredFacts
      <3>3. ~(k < k)
        BY <1>1
      <3> QED
        BY <1>2, <3>1, <3>2, <3>3
    <2> QED
      BY <1>4, <2>1, <2>2, Zenon DEF LeafEntries
  <1>8. Mid(M, L, p) /\ Whole(M, L, t, {}, {p}, C \ {k}) /\ Replaced(N, M, L, p, m)
    BY <1>6, <1>7, ReplaceLeaf
  <1> QED
    BY <1>3, <1>5, <1>8
-----------------------------------------------------------------------------
(* The way back of an insertion.  N and K are the nodes and levels before it. *)

\* Nothing has changed above page c.
Upper(N, K, M, L, c) ==
    /\ c \in DOMAIN K /\ L[c] = K[c]
    /\ \A q \in DOMAIN L : L[q] > K[c] => q \in DOMAIN K
    /\ \A q \in DOMAIN K : K[q] > K[c] => q \in DOMAIN L /\ L[q] = K[q] /\ M[q] = N[q]

\* Slot i of page p is the one of its son c that key k goes to.
OwnSlot(N, K, M, L, p, c, k, i, e) ==
    /\ M[p] = N[p] /\ p \in DOMAIN L /\ L[p] = K[p] /\ p # c
    /\ i \in 1 .. Count(N[p]) /\ e \in Slots(N[p]) /\ e.son = c
    /\ Inner(M, L, p, e)
    /\ e.key = Least(N[c]) /\ e.key \in Nat /\ Slots(N[c]) # {}
    /\ e.key <= k \/ i = 1
    /\ Least(N[p]) <= e.key /\ (i = 1 => e.key = Least(N[p])) /\ Least(N[p]) \in Nat

LEMMA SonBefore ==
    ASSUME NEW N, NEW K, Layered(N, K), Exact(N, K, {}), NEW p \in DOMAIN K, K[p] > 0,
           Slots(N[p]) # {}, NEW k \in Nat, NEW c, c = Son(N[p], k),
           NEW M, NEW L, Upper(N, K, M, L, c),
           NEW i, i = SonPos(N[p], k), NEW e, e = N[p].slots[i]
    PROVE  OwnSlot(N, K, M, L, p, c, k, i, e)
  <1>1. N[p] \in Nodes /\ Increasing(N[p]) /\ K[p] \in Nat
    BY LayeredFacts
  <1>2. /\ i \in 1 .. Count(N[p]) /\ e \in Slots(N[p]) /\ Son(N[p], k) = e.son
        /\ e.key <= k \/ i = 1
        /\ i = 1 => e.key = Least(N[p])
    BY <1>1, SonSets
  <1>3. Inner(N, K, p, e)
    BY <1>2 DEF Inner
  <1>4. /\ c \in DOMAIN K /\ K[c] = K[p] - 1 /\ Slots(N[c]) # {} /\ e.key \in Nat
        /\ e.key \in Keys(N[p])
    BY <1>2, <1>3, LayeredFacts
  <1>5. e.key = Least(N[c])
    BY <1>2, <1>3 DEF Exact
  <1>6. Least(N[p]) <= e.key /\ Least(N[p]) \in Nat
    BY <1>1, <1>4, LeastFacts
  <1>7. K[p] > K[c] /\ p # c
    BY <1>1, <1>4
  <1>8. M[p] = N[p] /\ p \in DOMAIN L /\ L[p] = K[p]
    BY <1>7, Zenon DEF Upper
  <1>9. Inner(M, L, p, e)
    BY <1>2, <1>8 DEF Inner
  <1> QED
    BY <1>2, <1>4, <1>5, <1>6, <1>7, <1>8, <1>9 DEF OwnSlot

\* The slot of a son that has got key k is right after the code lowered it.
SonLowered(B, L, p, c, m, M) ==
    /\ Mid(M, L, p)
    /\ M[p] = m /\ \A q \in PageIds : q # p => M[q] = B[q]
    /\ m \in Nodes /\ m.leaf = B[p].leaf /\ Count(m) = Count(B[p]) /\ Slots(m) # {}
    /\ \E d : Inner(M, L, p, d) /\ d.son = c
    /\ \A q, f : Inner(M, L, q, f) => \E s, g : Inner(B, L, s, g) /\ g.son = f.son

LEMMA LowerSon ==
    ASSUME NEW N, NEW K, Layered(N, K), Exact(N, K, {}), NEW p \in DOMAIN K, K[p] > 0,
           Slots(N[p]) # {}, NEW k \in Entries, NEW c, c = Son(N[p], k),
           NEW B, NEW L, Upper(N, K, B, L, c), Mid(B, L, c),
           Least(B[c]) = LowestOf(N[c], k),
           NEW t, NEW X, NEW F, NEW C, Whole(B, L, t, X, F, C),
           NEW m, m = Lowered(N[p], k), NEW M, Puts(B, M, p, m)
    PROVE  /\ SonLowered(B, L, p, c, m, M)
           /\ Whole(M, L, t, X, F, C)
           /\ Least(m) = LowestOf(N[p], k)
  <1>i. PICK i : i = SonPos(N[p], k)
    OBVIOUS
  <1>e. PICK e : e = N[p].slots[i]
    OBVIOUS
  <1>0. k \in Nat
    BY EntriesAreNumbers
  <1>1. /\ B[p] = N[p] /\ p \in DOMAIN L /\ L[p] = K[p] /\ p # c
        /\ i \in 1 .. Count(N[p]) /\ e \in Slots(N[p]) /\ e.son = c
        /\ Inner(B, L, p, e)
        /\ e.key = Least(N[c]) /\ e.key \in Nat /\ Slots(N[c]) # {}
        /\ e.key <= k \/ i = 1
        /\ Least(N[p]) <= e.key /\ (i = 1 => e.key = Least(N[p])) /\ Least(N[p]) \in Nat
    <2>1. OwnSlot(N, K, B, L, p, c, k, i, e)
      BY <1>0, <1>i, <1>e, SonBefore
    <2> QED
      BY <2>1, Zenon DEF OwnSlot
  <1>2. Layered(B, L) /\ Exact(B, L, {c}) /\ Aligned(B, L, c) /\ c \in DOMAIN L
    BY DEF Mid
  <1>3. Near(B, L, p, c)
    BY <1>1, MidNear
  <1>4. B[p] \in Nodes /\ p \in PageIds /\ B \in [PageIds -> Nodes]
    BY <1>1, <1>2, LayeredFacts DEF Layered
  <1>5. CASE i = 1 /\ k < e.key
    <2>1. Least(B[c]) = k /\ LowestOf(N[p], k) = k
      BY <1>0, <1>1, <1>5 DEF LowestOf
    <2>2. m = [N[p] EXCEPT !.slots[i].key = k]
      BY <1>i, <1>e, <1>5 DEF Lowered
    <2>3. WithKey(N[p], m, i, k)
      BY <1>1, <1>4, <2>2, WithKeyFacts
    <2>4. m \in Nodes /\ Least(m) = k
      BY <1>5, <2>3 DEF WithKey, Least
    <2>5. SetsKey(B, M, p, i, Least(B[c]))
      BY <1>1, <2>1, <2>2 DEF SetsKey, Puts
    <2>6. Inner(B, L, p, B[p].slots[i]) /\ B[p].slots[i].son = c /\ i \in 1 .. Count(B[p])
      BY <1>e, <1>1
    <2>7. Raised(B, M, L, p, i, c) /\ Whole(M, L, t, X, F, C)
      BY <1>3, <2>5, <2>6, Raise, RaiseWhole
    <2>d. PICK d : d = [key |-> Least(B[c]), son |-> c]
      OBVIOUS
    <2>8. /\ Mid(M, L, p)
          /\ M[p].leaf = B[p].leaf /\ Count(M[p]) = Count(B[p])
          /\ Slots(M[p]) = (Slots(B[p]) \ {B[p].slots[i]}) \cup {d}
          /\ \A q \in PageIds : q # p => M[q] = B[q]
          /\ \A q, f : q # p => (Inner(M, L, q, f) <=> Inner(B, L, q, f))
      BY <2>7, <2>d, Zenon DEF Raised
    <2>9. M[p] = m
      BY <1>4 DEF Puts
    <2>10. Slots(m) # {} /\ Inner(M, L, p, d) /\ d.son = c
      <3>1. d \in Slots(M[p]) /\ d.son = c
        BY <2>8, <2>d
      <3> QED
        BY <1>1, <2>9, <3>1 DEF Inner
    <2>11. ASSUME NEW q, NEW f, Inner(M, L, q, f)
           PROVE  \E s, g : Inner(B, L, s, g) /\ g.son = f.son
      <3>1. CASE q = p /\ f = d
        BY <1>1, <2>10, <3>1
      <3>2. CASE q = p /\ f # d
        <4>1. f \in Slots(B[p])
          BY <2>8, <2>11, <3>2 DEF Inner
        <4>2. Inner(B, L, p, f)
          BY <1>1, <4>1 DEF Inner
        <4> QED
          BY <4>2
      <3>3. CASE q # p
        BY <2>8, <2>11, <3>3
      <3> QED
        BY <3>1, <3>2, <3>3
    <2>12. SonLowered(B, L, p, c, m, M)
      BY <2>4, <2>8, <2>9, <2>10, <2>11, Zenon DEF SonLowered
    <2> QED
      BY <2>1, <2>4, <2>7, <2>12
  <1>6. CASE ~(i = 1 /\ k < e.key)
    <2>1. e.key <= k
      BY <1>0, <1>1, <1>6
    <2>2. Least(B[c]) = e.key /\ Least(N[p]) = LowestOf(N[p], k)
      BY <1>0, <1>1, <2>1 DEF LowestOf
    <2>3. m = N[p]
      BY <1>i, <1>e, <1>6 DEF Lowered
    <2>4. M = B
      BY <1>1, <1>4, <2>3 DEF Puts
    <2>5. Exact(B, L, {p})
      <3>1. ASSUME NEW q, NEW f, Inner(B, L, q, f), f.son # p PROVE f.key = Least(B[f.son])
        <4>1. CASE f.son = c
          <5>1. f = e
            BY <1>1, <1>2, <3>1, <4>1, Zenon DEF Aligned
          <5> QED
            BY <1>1, <2>2, <5>1
        <4>2. CASE f.son # c
          BY <1>2, <3>1, <4>2 DEF Exact
        <4> QED
          BY <4>1, <4>2
      <3> QED
        BY <3>1, Zenon DEF Exact
    <2>6. Mid(B, L, p)
      BY <1>1, <1>2, <1>3, <2>5 DEF Mid, Near
    <2>7. SonLowered(B, L, p, c, m, M)
      BY <1>1, <1>4, <2>3, <2>4, <2>6, Zenon DEF SonLowered
    <2> QED
      BY <2>2, <2>3, <2>4, <2>7
  <1> QED
    BY <1>5, <1>6

Sized(N, F) == \A q \in PageIds \ F : Count(N[q]) < Capacity(N[q].leaf)

Takes(L, u) == DOMAIN L \cup InitialPages \subseteq u /\ u \subseteq PageIds

\* Page o was split off page c: it has the keys from k on.
SplitOff(N, L, c, o, k) ==
    /\ o = N[c].next /\ o # NoNode /\ Slots(N[o]) # {} /\ k = Least(N[o])
    /\ \A q, e : Inner(N, L, q, e) => e.son # o
    /\ Count(N[c]) >= Low

\* Page p has got its slots, but may have no room for more.
Filling(N, K, t, C, k, M, L, u, p) ==
    /\ Mid(M, L, p) /\ Whole(M, L, t, {}, {}, C) /\ Upper(N, K, M, L, p)
    /\ Slots(M[p]) # {} /\ Least(M[p]) = LowestOf(N[p], k)
    /\ Sized(M, {p}) /\ Count(M[p]) <= Capacity(M[p].leaf) /\ Takes(L, u)

\* The insertion leaves page c with the result b.
Grown(N, K, t, C, k, b, L, c) ==
    /\ Mid(b.node, L, c)
    /\ Whole(b.node, L, t, IF b.split THEN {b.other} ELSE {}, {}, C)
    /\ Upper(N, K, b.node, L, c)
    /\ Slots(b.node[c]) # {} /\ Least(b.node[c]) = LowestOf(N[c], k)
    /\ Sized(b.node, {}) /\ Takes(L, b.used)
    /\ b.split => SplitOff(b.node, L, c, b.other, b.mid)

\* What insertEntry does with page p once it has its slots.
SplitsFull(M, u, p, r) ==
    IF Count(M[p]) = Capacity(M[p].leaf)
    THEN \E o : /\ o = NewPage(u) /\ HasFreePage(u)
                /\ r.node = [M EXCEPT ![p] = LeftHalf(M[p], o), ![o] = RightHalf(M[p])]
                /\ r.used = u \cup {o} /\ r.split
                /\ r.other = o /\ r.mid = Least(RightHalf(M[p]))
    ELSE r.node = M /\ r.used = u /\ ~r.split

LEMMA NewPageFree ==
    ASSUME NEW u, HasFreePage(u)
    PROVE  NewPage(u) \in PageIds \ u
  <1> DEFINE T == PageIds \ u
  <1>1. T \in SUBSET Nat /\ T # {}
    BY MaxPageNumAssumption DEF PageIds, HasFreePage
  <1>2. \E p \in T : \A q \in T : p <= q
    <2> HIDE DEF T
    <2> QED
      BY <1>1, LeastNumber
  <1> QED
    BY <1>2 DEF NewPage

LEMMA GrowPage ==
    ASSUME NEW N, NEW K, NEW t, NEW C, NEW k, NEW M, NEW L, NEW u, NEW p,
           Filling(N, K, t, C, k, M, L, u, p), NEW r, SplitsFull(M, u, p, r)
    PROVE  \E J : Grown(N, K, t, C, k, r, J, p)
  <1>1. /\ Mid(M, L, p) /\ Whole(M, L, t, {}, {}, C) /\ Upper(N, K, M, L, p)
        /\ Slots(M[p]) # {} /\ Least(M[p]) = LowestOf(N[p], k)
        /\ Sized(M, {p}) /\ Count(M[p]) <= Capacity(M[p].leaf) /\ Takes(L, u)
    BY Zenon DEF Filling
  <1>2. Layered(M, L) /\ p \in DOMAIN L
    BY <1>1 DEF Mid
  <1>3. /\ M[p] \in Nodes /\ p \in PageIds /\ Count(M[p]) \in Nat /\ M[p].leaf \in BOOLEAN
        /\ M \in [PageIds -> Nodes]
    BY <1>2, LayeredFacts, NodeFacts DEF Layered
  <1>4. CASE Count(M[p]) # Capacity(M[p].leaf)
    <2>1. r.node = M /\ r.used = u /\ ~r.split
      BY <1>4 DEF SplitsFull
    <2>2. Sized(M, {})
      <3>1. Count(M[p]) < Capacity(M[p].leaf)
        BY <1>1, <1>3, <1>4, Capacities
      <3> QED
        BY <1>1, <3>1 DEF Sized
    <2>3. Grown(N, K, t, C, k, r, L, p)
      BY <1>1, <2>1, <2>2, Zenon DEF Grown
    <2> QED
      BY <2>3
  <1>5. CASE Count(M[p]) = Capacity(M[p].leaf)
    <2>o. PICK o : /\ o = NewPage(u) /\ HasFreePage(u)
                   /\ r.node = [M EXCEPT ![p] = LeftHalf(M[p], o), ![o] = RightHalf(M[p])]
                   /\ r.used = u \cup {o} /\ r.split
                   /\ r.other = o /\ r.mid = Least(RightHalf(M[p]))
      BY <1>5 DEF SplitsFull
    <2>m. PICK R : R = r.node
      OBVIOUS
    <2>1. o \in PageIds \ InitialPages /\ o \notin DOMAIN L /\ o \notin u /\ o # NoNode /\ o # p
      BY <1>1, <1>2, <2>o, NewPageFree DEF Takes, InitialPages, NoNode
    <2>J. PICK J : Joins(L, J, p, o)
      BY DEF Joins
    <2>2. PICK c \in Nat : /\ c = Count(M[p]) /\ c >= 4 /\ c \div 2 \in Nat
                           /\ c \div 2 < c /\ c - c \div 2 < c /\ c - c \div 2 \in Nat
                           /\ c \div 2 >= Low
      BY <1>3, <1>5, Capacities
    <2>3. Halved(M, L, R, J, p, o)
      <3>1. R = [M EXCEPT ![p] = LeftHalf(M[p], o), ![o] = RightHalf(M[p])]
        BY <2>m, <2>o
      <3>2. Count(M[p]) >= 2
        BY <2>2
      <3> QED
        BY <1>2, <2>1, <2>J, <3>1, <3>2, SplitPage
    <2>4. Mid(R, J, p) /\ SlotsHalved(M, L, R, J, p, o)
      BY <1>1, <2>1, <2>3, <2>J, SplitMid
    <2>5. Whole(R, J, t, {o}, {}, C)
      BY <1>1, <1>3, <1>5, <2>1, <2>3, <2>J, SplitWhole
    <2>6. /\ R[p].next = o /\ Slots(R[o]) # {} /\ Slots(R[p]) # {}
          /\ R[p].leaf = M[p].leaf /\ R[o].leaf = M[p].leaf
          /\ Slots(M[p]) = Slots(R[p]) \cup Slots(R[o])
          /\ Count(R[p]) = Count(M[p]) \div 2
          /\ Count(R[o]) = Count(M[p]) - Count(M[p]) \div 2
          /\ \A q \in PageIds : q # p /\ q # o => R[q] = M[q]
          /\ LeftOf(R[p], R[o])
      BY <2>3, Zenon DEF Halved
    <2>7. /\ DOMAIN J = DOMAIN L \cup {o} /\ J[o] = L[p]
          /\ \A q \in DOMAIN L : J[q] = L[q] /\ q # o
      BY <1>2, <2>1, <2>J DEF Joins
    <2>8. Upper(N, K, R, J, p)
      <3>1. /\ p \in DOMAIN K /\ L[p] = K[p]
            /\ \A q \in DOMAIN L : L[q] > K[p] => q \in DOMAIN K
            /\ \A q \in DOMAIN K : K[q] > K[p] => q \in DOMAIN L /\ L[q] = K[q] /\ M[q] = N[q]
        BY <1>1, Zenon DEF Upper
      <3>2. ~(K[p] > K[p])
        <4>1. L[p] \in Nat
          BY <1>2, LayeredFacts
        <4> QED
          BY <3>1, <4>1
      <3>3. ASSUME NEW q \in DOMAIN J, J[q] > K[p] PROVE q \in DOMAIN K
        BY <2>7, <3>1, <3>2, <3>3
      <3>4. ASSUME NEW q \in DOMAIN K, K[q] > K[p]
            PROVE  q \in DOMAIN J /\ J[q] = K[q] /\ R[q] = N[q]
        <4>1. q \in DOMAIN L /\ L[q] = K[q] /\ M[q] = N[q] /\ q # p
          BY <3>1, <3>2, <3>4
        <4>2. q \in PageIds /\ q # o
          BY <1>2, <2>7, <4>1, LayeredFacts
        <4> QED
          BY <2>6, <2>7, <4>1, <4>2
      <3> QED
        BY <1>2, <2>7, <3>1, <3>3, <3>4, Zenon DEF Upper
    <2>9. R[p] \in Nodes /\ Increasing(R[p]) /\ R[o] \in Nodes /\ Increasing(R[o])
      <3>1. Layered(R, J)
        BY <2>4 DEF Mid
      <3>2. p \in DOMAIN J /\ o \in DOMAIN J
        BY <1>2, <2>7
      <3> QED
        BY <3>1, <3>2, LayeredFacts
    <2>10. Least(R[p]) = Least(M[p])
      <3>1. Keys(M[p]) = Keys(R[p]) \cup Keys(R[o])
        BY <2>6, Zenon DEF Keys
      <3>2. Least(R[p]) \in Keys(R[p]) /\ \A x \in Keys(R[p]) : Least(R[p]) <= x
        BY <2>6, <2>9, LeastFacts
      <3>3. \A x \in Keys(R[o]) : Least(R[p]) < x
        BY <2>6, <3>2 DEF LeftOf
      <3>4. Keys(R[o]) \subseteq Nat /\ Least(R[p]) \in Nat
        BY <2>6, <2>9, SlotSets, LeastFacts
      <3>5. \A x \in Keys(M[p]) : Least(R[p]) <= x
        BY <3>1, <3>2, <3>3, <3>4
      <3> QED
        BY <1>2, <1>3, <3>1, <3>2, <3>5, LeastIs, LayeredFacts
    <2>11. Sized(R, {})
      <3>1. Count(R[p]) < Capacity(R[p].leaf) /\ Count(R[o]) < Capacity(R[o].leaf)
        BY <1>5, <2>2, <2>6, Zenon
      <3> QED
        BY <1>1, <2>6, <3>1 DEF Sized
    <2>12. Takes(J, u \cup {o})
      BY <1>1, <2>1, <2>7 DEF Takes
    <2>13. SplitOff(R, J, p, o, r.mid)
      <3>1. r.mid = Least(R[o])
        BY <1>3, <2>1, <2>m, <2>o
      <3>2. \A q, e : Inner(R, J, q, e) => e.son # o
        BY <2>4, Zenon DEF SlotsHalved
      <3>3. Count(R[p]) >= Low
        BY <2>2, <2>6, Zenon
      <3> QED
        BY <2>1, <2>6, <3>1, <3>2, <3>3, Zenon DEF SplitOff
    <2>14. Grown(N, K, t, C, k, r, J, p)
      <3>1. Whole(R, J, t, IF r.split THEN {r.other} ELSE {}, {}, C)
        BY <2>5, <2>o, Zenon
      <3>2. Least(R[p]) = LowestOf(N[p], k) /\ Slots(R[p]) # {}
        BY <1>1, <2>6, <2>10
      <3>3. Takes(J, r.used) /\ SplitOff(R, J, p, r.other, r.mid)
        BY <2>12, <2>13, <2>o
      <3> QED
        BY <2>4, <2>8, <2>11, <2>m, <3>1, <3>2, <3>3, Zenon DEF Grown
    <2> QED
      BY <2>14
  <1> QED
    BY <1>4, <1>5

LEMMA InsertStepFacts ==
    ASSUME NEW b, b.node \in [PageIds -> Nodes], NEW p \in PageIds, NEW k,
           NEW M, Puts(b.node, M, p, Entered(k, b.node[p], b)),
           NEW r, r = InsertStep(k, p, b), ~r.fails
    PROVE  ~b.fails /\ SplitsFull(M, b.used, p, r)
  <1> DEFINE m     == Entered(k, b.node[p], b)
             full  == Len(m.slots) = Capacity(m.leaf)
             fails == b.fails \/ (full /\ ~HasFreePage(b.used))
             o     == NewPage(b.used)
             split == full /\ ~fails
  <1>1. r = [node  |-> IF split THEN [b.node EXCEPT ![p] = LeftHalf(m, o), ![o] = RightHalf(m)]
                                ELSE [b.node EXCEPT ![p] = m],
             used  |-> IF split THEN b.used \cup {o} ELSE b.used,
             split |-> split,
             other |-> IF split THEN o ELSE b.other,
             mid   |-> IF split THEN RightHalf(m).slots[1].key ELSE b.mid,
             fails |-> fails]
    BY Zenon DEF InsertStep
  <1>2. full \in BOOLEAN /\ fails \in BOOLEAN /\ split \in BOOLEAN
    <2> HIDE DEF m
    <2> QED
      BY Zenon
  <1>3. (fails => b.fails \/ ~HasFreePage(b.used)) /\ (~fails => ~b.fails)
        /\ (split <=> full /\ ~fails) /\ (~fails /\ full => HasFreePage(b.used))
    <2> HIDE DEF m
    <2> QED
      BY Zenon
  <1>4. (full <=> Count(m) = Capacity(m.leaf)) /\ o = NewPage(b.used)
    <2> HIDE DEF m
    <2> QED
      BY Zenon DEF Count
  <1>5. Puts(b.node, M, p, m)
    OBVIOUS
  <1> HIDE DEF split, fails, full, o, m
  <1>6. /\ r.node  = IF split THEN [b.node EXCEPT ![p] = LeftHalf(m, o), ![o] = RightHalf(m)]
                              ELSE [b.node EXCEPT ![p] = m]
        /\ r.used  = IF split THEN b.used \cup {o} ELSE b.used
        /\ r.split = split
        /\ r.other = IF split THEN o ELSE b.other
        /\ r.mid   = IF split THEN RightHalf(m).slots[1].key ELSE b.mid
        /\ r.fails = fails
    BY <1>1
  <1>7. ~fails /\ M[p] = m
    BY <1>5, <1>6 DEF Puts
  <1>8. CASE full
    <2>1. HasFreePage(b.used) /\ split
      BY <1>3, <1>7, <1>8
    <2>2. /\ r.node = [b.node EXCEPT ![p] = LeftHalf(m, o), ![o] = RightHalf(m)]
          /\ r.used = b.used \cup {o} /\ r.split /\ r.other = o
          /\ r.mid = Least(RightHalf(m))
      BY <1>6, <2>1, Zenon DEF Least, KeyIn
    <2>3. [M EXCEPT ![p] = LeftHalf(m, o), ![o] = RightHalf(m)] = r.node
      BY <1>5, <2>2 DEF Puts
    <2>4. Count(M[p]) = Capacity(M[p].leaf)
      BY <1>4, <1>7, <1>8
    <2> QED
      BY <1>3, <1>4, <1>7, <2>1, <2>2, <2>3, <2>4, Zenon DEF SplitsFull
  <1>9. CASE ~full
    <2>1. r.node = [b.node EXCEPT ![p] = m] /\ r.used = b.used /\ ~r.split
      BY <1>3, <1>6, <1>9
    <2>2. Count(M[p]) # Capacity(M[p].leaf)
      BY <1>4, <1>7, <1>9
    <2> QED
      BY <1>3, <1>5, <1>7, <2>1, <2>2, Zenon DEF SplitsFull, Puts
  <1> QED
    BY <1>8, <1>9

\* Page p is the parent of the page that the insertion has just left.
LEMMA GrowInner ==
    ASSUME NEW N, NEW K, Layered(N, K), Exact(N, K, {}), NEW p \in DOMAIN K, K[p] > 0,
           Slots(N[p]) # {}, NEW k \in Entries, NEW c, c = Son(N[p], k),
           NEW t, NEW C, NEW b, NEW L, Grown(N, K, t, C, k, b, L, c), b.split \in BOOLEAN,
           NEW m, m = Entered(k, b.node[p], b), NEW M, Puts(b.node, M, p, m)
    PROVE  Filling(N, K, t, C, k, M, L, b.used, p)
  <1>B. PICK B : B = b.node
    OBVIOUS
  <1>1. /\ Mid(B, L, c)
        /\ Whole(B, L, t, IF b.split THEN {b.other} ELSE {}, {}, C)
        /\ Upper(N, K, B, L, c)
        /\ Slots(B[c]) # {} /\ Least(B[c]) = LowestOf(N[c], k)
        /\ Sized(B, {}) /\ Takes(L, b.used)
        /\ b.split => SplitOff(B, L, c, b.other, b.mid)
    BY <1>B, Zenon DEF Grown
  <1>l. PICK l : l = Lowered(N[p], k)
    OBVIOUS
  <1>P. PICK P : Puts(B, P, p, l)
    BY DEF Puts
  <1>2. /\ SonLowered(B, L, p, c, l, P)
        /\ Whole(P, L, t, IF b.split THEN {b.other} ELSE {}, {}, C)
        /\ Least(l) = LowestOf(N[p], k)
    BY <1>1, <1>l, <1>P, LowerSon
  <1>3. /\ Mid(P, L, p)
        /\ P[p] = l /\ \A q \in PageIds : q # p => P[q] = B[q]
        /\ l \in Nodes /\ l.leaf = B[p].leaf /\ Count(l) = Count(B[p]) /\ Slots(l) # {}
        /\ \E d : Inner(P, L, p, d) /\ d.son = c
        /\ \A q, f : Inner(P, L, q, f) => \E s, g : Inner(B, L, s, g) /\ g.son = f.son
    BY <1>2, Zenon DEF SonLowered
  <1>4. /\ B[p] = N[p] /\ p \in DOMAIN L /\ L[p] = K[p] /\ p # c /\ c \in DOMAIN K /\ p \in PageIds
        /\ Layered(B, L) /\ Layered(P, L) /\ B \in [PageIds -> Nodes]
        /\ P \in [PageIds -> Nodes]
    <2>i. PICK i : i = SonPos(N[p], k)
      OBVIOUS
    <2>e. PICK e : e = N[p].slots[i]
      OBVIOUS
    <2>1. k \in Nat
      BY EntriesAreNumbers
    <2>2. OwnSlot(N, K, B, L, p, c, k, i, e)
      BY <1>1, <2>1, <2>i, <2>e, SonBefore
    <2>3. B[p] = N[p] /\ p \in DOMAIN L /\ L[p] = K[p] /\ p # c
      BY <2>2, Zenon DEF OwnSlot
    <2>4. Layered(B, L) /\ Layered(P, L) /\ c \in DOMAIN K
      BY <1>1, <1>3 DEF Mid, Upper
    <2> QED
      BY <2>3, <2>4, LayeredFacts DEF Layered
  <1>5. ~B[p].leaf /\ B[p] \in Nodes /\ L[p] > 0
    BY <1>4 DEF Layered, LeavesBelow
  <1>6. K[p] > K[c]
    <2>1. K[c] \in Nat /\ K[c] = K[p] - 1
      <3>1. k \in Nat
        BY EntriesAreNumbers
      <3>2. N[p] \in Nodes /\ Increasing(N[p]) /\ K[p] \in Nat
        BY LayeredFacts
      <3>3. \E e \in Slots(N[p]) : e.son = c
        BY <3>1, <3>2, SonSets
      <3>4. \E e : Inner(N, K, p, e) /\ e.son = c
        BY <3>3 DEF Inner
      <3> QED
        BY <1>4, <3>4, LayeredFacts
    <2>2. K[p] \in Nat
      BY LayeredFacts
    <2> QED
      BY <2>1, <2>2
  <1>7. \A R : (\A q \in PageIds : q # p => R[q] = B[q]) => Upper(N, K, R, L, p)
    <2>1. /\ \A q \in DOMAIN L : L[q] > K[c] => q \in DOMAIN K
          /\ \A q \in DOMAIN K : K[q] > K[c] => q \in DOMAIN L /\ L[q] = K[q] /\ B[q] = N[q]
      BY <1>1, Zenon DEF Upper
    <2>2. /\ \A q \in DOMAIN L : L[q] \in Nat /\ q \in PageIds
          /\ \A q \in DOMAIN K : K[q] \in Nat
      BY <1>4, LayeredFacts
    <2>3. \A q \in DOMAIN L : L[q] > K[p] => q \in DOMAIN K
      BY <1>4, <1>6, <2>1, <2>2
    <2>4. \A q \in DOMAIN K : K[q] > K[p] => q \in DOMAIN L /\ L[q] = K[q] /\ B[q] = N[q] /\ q # p
      BY <1>4, <1>6, <2>1, <2>2
    <2> QED
      BY <1>4, <2>2, <2>3, <2>4, Zenon DEF Upper
  <1>8. \A R : (\A q \in PageIds : q # p => R[q] = B[q]) => Sized(R, {p})
    BY <1>1 DEF Sized
  <1>9. Count(B[p]) < Capacity(B[p].leaf) /\ Count(B[p]) \in Nat
    BY <1>1, <1>4, <1>5, NodeFacts DEF Sized
  <1>10. CASE ~b.split
    <2>1. m = l
      BY <1>B, <1>l, <1>4, <1>5, <1>10 DEF Entered
    <2>2. M = P
      BY <1>B, <1>P, <2>1 DEF Puts
    <2>3. Whole(M, L, t, {}, {}, C)
      BY <1>2, <1>10, <2>2
    <2>4. Count(M[p]) <= Capacity(M[p].leaf)
      BY <1>3, <1>5, <1>9, <2>2, NodeFacts, Capacities
    <2>5. Upper(N, K, M, L, p) /\ Sized(M, {p})
      BY <1>3, <1>7, <1>8, <2>2
    <2> QED
      BY <1>1, <1>2, <1>3, <2>2, <2>3, <2>4, <2>5, Zenon DEF Filling
  <1>11. CASE b.split
    <2>o. PICK o : o = b.other
      OBVIOUS
    <2>x. PICK x : x = b.mid
      OBVIOUS
    <2>d. PICK d : Inner(P, L, p, d) /\ d.son = c
      BY <1>3
    <2>1. /\ o = B[c].next /\ o # NoNode /\ Slots(B[o]) # {} /\ x = Least(B[o])
          /\ \A q, e : Inner(B, L, q, e) => e.son # o
      BY <1>1, <1>11, <2>o, <2>x, Zenon DEF SplitOff
    <2>2. P[c] = B[c] /\ P[o] = B[o] /\ p # o
      <3>1. c \in PageIds /\ o \in PageIds
        <4>1. c \in PageIds
          BY <1>4, LayeredFacts
        <4> QED
          BY <1>4, <2>1, <4>1, NodeFacts
      <3>2. p # o
        <4>1. IsNext(B, L, c, o) /\ c \in DOMAIN L
          BY <1>1, <2>1 DEF Mid, Layered, Linked
        <4>2. Beside(L, c, o)
          BY <2>1, <4>1 DEF IsNext
        <4>3. L[o] = L[c] /\ L[c] = K[c] /\ K[c] \in Nat
          BY <1>1, <4>2, LayeredFacts DEF Beside, Upper
        <4> QED
          BY <1>4, <1>6, <4>3
      <3> QED
        BY <1>3, <1>4, <3>1, <3>2
    <2>3. \A q, f : Inner(P, L, q, f) => f.son # o
      BY <1>3, <2>1
    <2>13. o = P[d.son].next /\ o # NoNode /\ Slots(P[o]) # {} /\ x = Least(P[o])
      BY <2>d, <2>1, <2>2
    <2>4. m = InsertSlot(P[p], LowerBound(P[p], x), x, o)
      BY <1>B, <1>l, <1>3, <1>4, <1>5, <1>11, <2>o, <2>x DEF Entered
    <2>5. Puts(P, M, p, m)
      BY <1>B, <1>P, <1>4 DEF Puts
    <2>6. /\ Mid(M, L, p) /\ Replaced(P, M, L, p, m)
          /\ m \in Nodes /\ m.leaf = P[p].leaf /\ m.next = P[p].next
          /\ Count(m) = Count(P[p]) + 1
          /\ Slots(m) = Slots(P[p]) \cup {[key |-> x, son |-> o]}
          /\ SlotsReplaced(P, M, L, p, m)
      <3>1. SonAdded(P, M, L, p, m, x, o)
        BY <1>3, <2>d, <2>3, <2>4, <2>5, <2>13, AddSon
      <3> QED
        BY <3>1, Zenon DEF SonAdded
    <2>7. Whole(M, L, t, {}, {}, C)
      <3>1. Whole(P, L, t, {o}, {}, C)
        BY <1>2, <1>11, <2>o
      <3>2. P[p] \in Nodes
        BY <1>3
      <3> QED
        BY <1>3, <1>5, <2>6, <3>1, <3>2, AddSonWhole
    <2>8. M[p] = m /\ \A q \in PageIds : q # p => M[q] = P[q]
      BY <2>6, Zenon DEF Replaced
    <2>9. Upper(N, K, M, L, p) /\ Sized(M, {p})
      BY <1>3, <1>7, <1>8, <2>8
    <2>10. Count(M[p]) <= Capacity(M[p].leaf)
      <3>1. \E y \in Nat : y = Capacity(B[p].leaf)
        BY <1>5, NodeFacts, Capacities
      <3>2. Count(M[p]) = Count(B[p]) + 1 /\ M[p].leaf = B[p].leaf
        BY <1>3, <2>6, <2>8
      <3> QED
        BY <1>9, <3>1, <3>2
    <2>11. Least(m) = Least(l)
      <3>1. d.key < x /\ x \in Nat
        BY <1>3, <2>d, <2>3, <2>13, NextInOrder
      <3>2. d.key \in Nat /\ d.key \in Keys(l)
        BY <1>3, <1>4, <2>d, LayeredFacts
      <3>3. Increasing(l) /\ Increasing(m)
        <4>1. Layered(M, L)
          BY <2>6 DEF Mid
        <4> QED
          BY <1>3, <1>4, <2>8, <4>1, LayeredFacts
      <3>4. Least(l) \in Keys(l) /\ Least(l) \in Nat /\ \A y \in Keys(l) : Least(l) <= y
        BY <1>3, <3>3, LeastFacts
      <3>5. \A y : y \in Keys(m) <=> y \in Keys(l) \/ y = x
        <4>g. PICK g : g = [key |-> x, son |-> o]
          OBVIOUS
        <4>1. Slots(m) = Slots(l) \cup {g} /\ g.key = x
          BY <1>3, <2>6, <4>g
        <4> QED
          BY <4>1 DEF Keys
      <3>6. Least(l) \in Keys(m) /\ \A y \in Keys(m) : Least(l) <= y
        BY <3>1, <3>2, <3>4, <3>5
      <3> QED
        BY <2>6, <3>3, <3>6, LeastIs
    <2>12. Slots(M[p]) # {} /\ Least(M[p]) = LowestOf(N[p], k)
      BY <1>2, <2>6, <2>8, <2>11
    <2> QED
      BY <1>1, <2>6, <2>7, <2>9, <2>10, <2>12, Zenon DEF Filling
  <1> QED
    BY <1>10, <1>11

\* The page that the insertion begins with.
LEMMA GrowLeaf ==
    ASSUME NEW N, NEW K, Layered(N, K), Exact(N, K, {}), NEW t, NEW C,
           Whole(N, K, t, {}, {}, C), Sized(N, {}), NEW b, Takes(K, b.used), b.node = N,
           NEW p \in DOMAIN K, K[p] = 0, NEW k \in Entries, Home(N, K, p, k), k \notin C,
           NEW m, m = Entered(k, b.node[p], b), NEW M, Puts(b.node, M, p, m)
    PROVE  Filling(N, K, t, C \cup {k}, k, M, K, b.used, p)
  <1>1. N[p].leaf /\ N[p] \in Nodes /\ p \in PageIds /\ Count(N[p]) \in Nat
    BY LayeredFacts, NodeFacts DEF Layered, LeavesBelow
  <1>2. m = InsertSlot(N[p], LowerBound(N[p], k), k, 0) /\ Puts(N, M, p, m)
    BY <1>1 DEF Entered
  <1>3. /\ Mid(M, K, p) /\ Whole(M, K, t, {}, {}, C \cup {k}) /\ Replaced(N, M, K, p, m)
        /\ m \in Nodes /\ m.leaf = N[p].leaf /\ Count(m) = Count(N[p]) + 1
        /\ Slots(m) # {} /\ Least(m) = LowestOf(N[p], k)
    BY <1>2, PutKey
  <1>4. M[p] = m /\ \A q \in PageIds : q # p => M[q] = N[q]
    BY <1>3, Zenon DEF Replaced
  <1>5. Upper(N, K, M, K, p)
    <2>1. \A q \in DOMAIN K : q \in PageIds /\ K[q] \in Nat
      BY LayeredFacts
    <2>2. \A q \in DOMAIN K : K[q] > K[p] => M[q] = N[q]
      BY <1>4, <2>1
    <2> QED
      BY <2>2, Zenon DEF Upper
  <1>6. Sized(M, {p})
    BY <1>4 DEF Sized
  <1>7. Count(M[p]) <= Capacity(M[p].leaf)
    <2>1. Count(N[p]) < Capacity(N[p].leaf)
      BY <1>1 DEF Sized
    <2>y. PICK y \in Nat : y = Capacity(N[p].leaf)
      BY <1>1, NodeFacts, Capacities
    <2>2. Count(M[p]) = Count(N[p]) + 1 /\ Capacity(M[p].leaf) = y
      BY <1>3, <1>4, <2>y
    <2>3. \A x, z \in Nat : x < z => x + 1 <= z
      OBVIOUS
    <2>4. Count(N[p]) < y
      BY <2>1, <2>y
    <2> QED
      BY <1>1, <2>2, <2>3, <2>4, Zenon
  <1> QED
    BY <1>3, <1>4, <1>5, <1>6, <1>7, Zenon DEF Filling
-----------------------------------------------------------------------------
(* Trees, and the root that an insertion may add.                             *)

Tree(N, K, t, u, C) ==
    /\ Layered(N, K) /\ Exact(N, K, {}) /\ Whole(N, K, t, {}, {}, C)
    /\ K[t] > 0 => Slots(N[t]) # {}
    /\ Sized(N, {}) /\ Takes(K, u)

\* No slot leads to the root.
LEMMA ExactAtRoot ==
    ASSUME NEW N, NEW L, NEW t, Mid(N, L, t), NEW X, NEW F, NEW C, Whole(N, L, t, X, F, C)
    PROVE  Layered(N, L) /\ Exact(N, L, {})
  <1>1. Layered(N, L) /\ Exact(N, L, {t})
    BY DEF Mid
  <1>2. \A p, e : Inner(N, L, p, e) => e.son # t
    BY <1>1, WholeFacts
  <1> QED
    BY <1>1, <1>2, Zenon DEF Exact

LEMMA GrownTree ==
    ASSUME NEW N, NEW K, NEW t, NEW C, NEW k, NEW b, NEW L, Grown(N, K, t, C, k, b, L, t),
           ~b.split
    PROVE  Tree(b.node, L, t, b.used, C)
  <1>1. /\ Mid(b.node, L, t)
        /\ Whole(b.node, L, t, IF b.split THEN {b.other} ELSE {}, {}, C)
        /\ Slots(b.node[t]) # {} /\ Sized(b.node, {}) /\ Takes(L, b.used)
    BY Zenon DEF Grown
  <1>2. Whole(b.node, L, t, {}, {}, C)
    BY <1>1
  <1>3. Layered(b.node, L) /\ Exact(b.node, L, {})
    BY <1>1, <1>2, ExactAtRoot
  <1> QED
    BY <1>1, <1>2, <1>3, Zenon DEF Tree

TwoSons(t, k, o, l) ==
    [leaf |-> FALSE, next |-> NoNode,
     slots |-> <<[key |-> k, son |-> t], [key |-> l, son |-> o]>>]

LEMMA TwoSonsFacts ==
    ASSUME NEW k \in Entries, NEW l \in Entries, k < l, NEW t \in PageIds, NEW o \in PageIds,
           NEW n, n = TwoSons(t, k, o, l)
    PROVE  /\ n \in Nodes /\ ~n.leaf /\ n.next = NoNode /\ Increasing(n) /\ Count(n) = 2
           /\ Slots(n) = {[key |-> k, son |-> t], [key |-> l, son |-> o]}
  <1>d. PICK d : d = [key |-> k, son |-> t]
    OBVIOUS
  <1>e. PICK e : e = [key |-> l, son |-> o]
    OBVIOUS
  <1>1. d \in SlotTypes /\ e \in SlotTypes /\ d.key = k /\ e.key = l
    BY <1>d, <1>e DEF SlotTypes
  <1>2. <<d, e>> \in Seq(SlotTypes) /\ Len(<<d, e>>) = 2 /\ <<d, e>>[1] = d /\ <<d, e>>[2] = e
    BY <1>1
  <1>3. n.leaf = FALSE /\ n.next = NoNode /\ n.slots = <<d, e>>
    BY <1>d, <1>e DEF TwoSons
  <1>4. n = [leaf |-> FALSE, next |-> NoNode, slots |-> n.slots]
    BY DEF TwoSons
  <1>5. NoNode \in PageIds
    BY MaxPageNumAssumption DEF NoNode, PageIds
  <1>6. n \in Nodes
    BY <1>2, <1>3, <1>4, <1>5 DEF Nodes
  <1>7. Count(n) = 2 /\ n.slots[1] = d /\ n.slots[2] = e
    BY <1>2, <1>3 DEF Count
  <1>8. Increasing(n)
    <2>1. k \in Nat /\ l \in Nat
      BY EntriesAreNumbers
    <2>2. \A i, j \in 1 .. 2 : i < j => i = 1 /\ j = 2
      OBVIOUS
    <2> QED
      BY <1>1, <1>7, <2>2 DEF Increasing, KeyIn
  <1>9. Slots(n) = {d, e}
    <2>1. \A i : i \in 1 .. 2 <=> i = 1 \/ i = 2
      OBVIOUS
    <2> QED
      BY <1>7, <2>1 DEF Slots
  <1> QED
    BY <1>d, <1>e, <1>3, <1>6, <1>7, <1>8, <1>9

LEMMA GrownRoot ==
    ASSUME NEW N, NEW K, NEW t, NEW C, NEW k, NEW b, NEW L, Grown(N, K, t, C, k, b, L, t),
           b.split, NEW p, p = NewPage(b.used), HasFreePage(b.used), NEW M,
           Puts(b.node, M, p, TwoSons(t, Least(b.node[t]), b.other, b.mid))
    PROVE  \E J : Tree(M, J, p, b.used \cup {p}, C)
  <1>B. PICK B : B = b.node
    OBVIOUS
  <1>o. PICK o : o = b.other
    OBVIOUS
  <1>n. PICK n : n = TwoSons(t, Least(B[t]), o, b.mid)
    OBVIOUS
  <1>1. /\ Mid(B, L, t) /\ Whole(B, L, t, {o}, {}, C)
        /\ Slots(B[t]) # {} /\ Sized(B, {}) /\ Takes(L, b.used)
        /\ SplitOff(B, L, t, o, b.mid)
    BY <1>B, <1>o, Zenon DEF Grown
  <1>2. /\ o = B[t].next /\ o # NoNode /\ Slots(B[o]) # {} /\ b.mid = Least(B[o])
        /\ \A q, e : Inner(B, L, q, e) => e.son # o
    BY <1>1, Zenon DEF SplitOff
  <1>3. Layered(B, L) /\ Exact(B, L, {}) /\ t \in DOMAIN L
    BY <1>1, ExactAtRoot DEF Mid
  <1>4. Beside(L, t, o) /\ LeftOf(B[t], B[o]) /\ L[o] = L[t] /\ o \in DOMAIN L
    <2>1. IsNext(B, L, t, o)
      BY <1>2, <1>3 DEF Layered, Linked
    <2>2. Beside(L, t, o) /\ LeftOf(B[t], B[o])
      BY <1>2, <2>1 DEF IsNext
    <2> QED
      BY <2>2, BesideFacts
  <1>5. /\ t \in PageIds /\ o \in PageIds /\ L[t] \in Nat
        /\ B[t] \in Nodes /\ B[o] \in Nodes /\ Increasing(B[t]) /\ Increasing(B[o])
        /\ \A q \in DOMAIN L : q \in PageIds /\ L[q] \in Nat
    BY <1>3, <1>4, LayeredFacts
  <1>6. /\ Least(B[t]) \in Entries /\ b.mid \in Entries /\ Least(B[t]) < b.mid
    BY <1>1, <1>2, <1>4, <1>5, LeastFacts DEF LeftOf
  <1>d. PICK d : d = [key |-> Least(B[t]), son |-> t]
    OBVIOUS
  <1>e. PICK e : e = [key |-> b.mid, son |-> o]
    OBVIOUS
  <1>7. /\ n \in Nodes /\ ~n.leaf /\ n.next = NoNode /\ Increasing(n) /\ Count(n) = 2
        /\ Slots(n) = {d, e} /\ d.key = Least(B[t]) /\ d.son = t /\ e.key = Least(B[o]) /\ e.son = o
    BY <1>n, <1>d, <1>e, <1>2, <1>5, <1>6, TwoSonsFacts
  <1>8. /\ p \in PageIds \ b.used /\ p \in PageIds \ InitialPages /\ p \notin DOMAIN L
    BY <1>1, NewPageFree DEF Takes
  <1>9. M = [B EXCEPT ![p] = n] /\ B \in [PageIds -> Nodes]
    BY <1>B, <1>o, <1>n, <1>3 DEF Puts, Layered
  <1>10. M[p] = n /\ \A q \in DOMAIN L : q # p /\ M[q] = B[q]
    BY <1>5, <1>8, <1>9
  <1>J. PICK J : J = [q \in DOMAIN L \cup {p} |-> IF q = p THEN L[t] + 1 ELSE L[q]]
    OBVIOUS
  <1>11. /\ DOMAIN J = DOMAIN L \cup {p} /\ J[p] = L[t] + 1
         /\ \A q \in DOMAIN L : J[q] = L[q]
    BY <1>8, <1>J
  <1>12. \A q \in DOMAIN L : L[q] <= L[t]
    BY <1>1 DEF Whole
  <1>13. \A q, s : Beside(J, q, s) <=> Beside(L, q, s)
    <2>1. \A q \in DOMAIN L : J[q] # J[p]
      BY <1>5, <1>11, <1>12
    <2> QED
      BY <1>8, <1>11, <2>1 DEF Beside
  <1>14. ASSUME NEW q, NEW f
         PROVE  Inner(M, J, q, f) <=> Inner(B, L, q, f) \/ (q = p /\ (f = d \/ f = e))
    <2>1. CASE q = p
      BY <1>5, <1>7, <1>8, <1>10, <1>11, <2>1 DEF Inner
    <2>2. CASE q # p
      BY <1>10, <1>11, <2>2 DEF Inner
    <2> QED
      BY <2>1, <2>2
  <1>15. Layered(M, J)
    <2>1. M \in [PageIds -> Nodes]
      BY <1>7, <1>9
    <2>2. Leveled(J)
      <3>1. DOMAIN L \subseteq PageIds \ InitialPages
        BY <1>3 DEF Layered, Leveled
      <3>2. J \in [DOMAIN J -> Nat]
        BY <1>5, <1>11, <1>J
      <3> QED
        BY <1>8, <1>11, <3>1, <3>2 DEF Leveled
    <2>3. LeavesBelow(M, J)
      <3>1. \A q \in DOMAIN L : B[q].leaf <=> L[q] = 0
        BY <1>3 DEF Layered, LeavesBelow
      <3>2. J[p] # 0
        BY <1>5, <1>11
      <3> QED
        BY <1>7, <1>10, <1>11, <3>1, <3>2 DEF LeavesBelow
    <2>4. Ordered(M, J)
      <3>1. \A q \in DOMAIN J : Increasing(M[q])
        BY <1>3, <1>7, <1>10, <1>11, LayeredFacts
      <3>2. ASSUME NEW q, NEW s, Beside(J, q, s)
            PROVE  LeftOf(M[q], M[s]) \/ LeftOf(M[s], M[q])
        <4>1. Beside(L, q, s) /\ q \in DOMAIN L /\ s \in DOMAIN L
          BY <1>13, <3>2, BesideFacts
        <4>2. LeftOf(B[q], B[s]) \/ LeftOf(B[s], B[q])
          BY <1>3, <4>1, LayeredFacts
        <4> QED
          BY <1>10, <4>1, <4>2
      <3> QED
        BY <3>1, <3>2 DEF Ordered
    <2>5. Linked(M, J)
      <3>1. ASSUME NEW q \in DOMAIN J PROVE IsNext(M, J, q, M[q].next)
        <4>1. CASE q = p
          <5>1. \A s : ~Beside(J, p, s)
            <6>1. \A s : Beside(L, p, s) => p \in DOMAIN L
              BY BesideFacts
            <6> QED
              BY <1>8, <1>13, <6>1
          <5> QED
            BY <1>7, <1>10, <4>1, <5>1 DEF IsNext
        <4>2. CASE q # p
          <5>1. q \in DOMAIN L /\ M[q] = B[q]
            BY <1>10, <1>11, <4>2
          <5>2. IsNext(B, L, q, B[q].next)
            BY <1>3, <5>1 DEF Layered, Linked
          <5>3. \A s : Beside(L, q, s) => M[s] = B[s]
            BY <1>10, BesideFacts
          <5>4. IsNext(M, J, q, B[q].next)
            <6>x. PICK x : x = B[q].next
              OBVIOUS
            <6>1. CASE x = NoNode
              BY <1>13, <5>1, <5>2, <5>3, <6>x, <6>1, Zenon DEF IsNext
            <6>2. CASE x # NoNode
              <7>1. /\ Beside(L, q, x) /\ LeftOf(B[q], B[x])
                    /\ \A s : Beside(L, q, s) /\ s # x => LeftOf(B[s], B[q]) \/ LeftOf(B[x], B[s])
                BY <5>2, <6>x, <6>2 DEF IsNext
              <7> QED
                BY <1>13, <5>1, <5>3, <6>x, <6>2, <7>1, Zenon DEF IsNext
            <6> QED
              BY <6>1, <6>2
          <5> QED
            BY <5>1, <5>4
        <4> QED
          BY <4>1, <4>2
      <3> QED
        BY <3>1 DEF Linked
    <2>6. SonsBelow(M, J)
      <3>1. ASSUME NEW q, NEW f, Inner(M, J, q, f)
            PROVE  f.son \in DOMAIN J /\ J[f.son] = J[q] - 1 /\ Slots(M[f.son]) # {}
        <4>1. CASE Inner(B, L, q, f)
          <5>1. q \in DOMAIN L
            BY <4>1 DEF Inner
          <5>2. f.son \in DOMAIN L /\ L[f.son] = L[q] - 1 /\ Slots(B[f.son]) # {}
            BY <1>3, <4>1, LayeredFacts
          <5> QED
            BY <1>10, <1>11, <5>1, <5>2
        <4>2. CASE q = p /\ (f = d \/ f = e)
          <5>1. f.son \in DOMAIN L /\ L[f.son] = L[t] /\ Slots(B[f.son]) # {}
            BY <1>1, <1>2, <1>3, <1>4, <1>7, <4>2
          <5> QED
            BY <1>5, <1>10, <1>11, <4>2, <5>1
        <4> QED
          BY <1>14, <3>1, <4>1, <4>2
      <3> QED
        BY <3>1, Zenon DEF SonsBelow
    <2> QED
      BY <2>1, <2>2, <2>3, <2>4, <2>5, <2>6 DEF Layered
  <1>16. Exact(M, J, {})
    <2>1. ASSUME NEW q, NEW f, Inner(M, J, q, f) PROVE f.key = Least(M[f.son])
      <3>1. CASE Inner(B, L, q, f)
        <4>1. f.son \in DOMAIN L /\ f.key = Least(B[f.son])
          BY <1>3, <3>1, LayeredFacts DEF Exact
        <4> QED
          BY <1>10, <4>1
      <3>2. CASE q = p /\ (f = d \/ f = e)
        BY <1>3, <1>4, <1>7, <1>10, <3>2
      <3> QED
        BY <1>14, <2>1, <3>1, <3>2
    <2> QED
      BY <2>1, Zenon DEF Exact
  <1>17. Whole(M, J, p, {}, {}, C)
    <2>1. /\ Parents(B, L, {t} \cup {o}) /\ Filled(B, L, {t} \cup {})
          /\ LeafKeys(B, L) = C
      BY <1>1, Zenon DEF Whole
    <2>2. Parents(M, J, {p} \cup {})
      <3>1. ASSUME NEW s \in DOMAIN J, s # p PROVE \E q, f : Inner(M, J, q, f) /\ f.son = s
        <4>1. CASE s = t
          BY <1>7, <1>14, <4>1
        <4>2. CASE s = o
          BY <1>7, <1>14, <4>2
        <4>3. CASE s # t /\ s # o
          <5>1. \E q, f : Inner(B, L, q, f) /\ f.son = s
            BY <1>11, <2>1, <3>1, <4>3 DEF Parents
          <5> QED
            BY <1>14, <5>1
        <4> QED
          BY <4>1, <4>2, <4>3
      <3> QED
        BY <3>1 DEF Parents
    <2>3. Filled(M, J, {p} \cup {})
      <3>1. Count(B[t]) >= Low
        BY <1>1, Zenon DEF SplitOff
      <3> QED
        BY <1>10, <1>11, <2>1, <3>1 DEF Filled
    <2>4. LeafKeys(M, J) = C
      <3>1. \A x : x \in LeafKeys(M, J) <=> \E q \in DOMAIN J : J[q] = 0 /\ x \in Keys(M[q])
        BY DEF LeafKeys
      <3>2. \A x : x \in LeafKeys(B, L) <=> \E q \in DOMAIN L : L[q] = 0 /\ x \in Keys(B[q])
        BY DEF LeafKeys
      <3>3. J[p] # 0
        BY <1>5, <1>11
      <3>4. \A x : x \in LeafKeys(M, J) <=> x \in LeafKeys(B, L)
        BY <1>10, <1>11, <3>1, <3>2, <3>3
      <3> QED
        BY <2>1, <3>4
    <2>5. p \in DOMAIN J /\ \A q \in DOMAIN J : J[q] <= J[p]
      BY <1>5, <1>11, <1>12
    <2> QED
      BY <2>2, <2>3, <2>4, <2>5, Zenon DEF Whole
  <1>18. Sized(M, {})
    <2>1. Count(n) < Capacity(n.leaf)
      BY <1>7, NodeFacts, Capacities
    <2> QED
      BY <1>1, <1>9, <1>10, <2>1 DEF Sized
  <1>19. Takes(J, b.used \cup {p})
    BY <1>1, <1>8, <1>11 DEF Takes
  <1>20. Slots(M[p]) # {}
    BY <1>7, <1>10
  <1> QED
    BY <1>15, <1>16, <1>17, <1>18, <1>19, <1>20, Zenon DEF Tree
-----------------------------------------------------------------------------
(* The way back of a deletion.                                                *)
IsResult(b) ==
    b \in [node : {b.node}, used : {b.used}, root : {b.root}, min : {b.min},
           merge : {b.merge}]

\* Page p has got its slots, but may need to be merged.
Shrinking(N, K, t, C, M, L, u, p) ==
    /\ Mid(M, L, p) /\ Whole(M, L, t, {}, {p}, C) /\ Upper(N, K, M, L, p)
    /\ Sized(M, {}) /\ Takes(L, u)
    /\ Slots(M[p]) # {} \/ (p = t /\ ~(L[p] > 0))

\* The deletion leaves page c with the result b.
Shrunk(N, K, t, C, b, u, L, c) ==
    /\ IsResult(b) /\ b.used = u /\ b.root = t
    /\ Mid(b.node, L, c)
    /\ Whole(b.node, L, t, {}, IF b.merge THEN {c} ELSE {}, C)
    /\ Upper(N, K, b.node, L, c)
    /\ Sized(b.node, {}) /\ Takes(L, u)
    /\ Slots(b.node[c]) # {} \/ (c = t /\ ~(L[c] > 0))
    /\ Slots(b.node[c]) # {} => b.min = Least(b.node[c])

LEMMA Report ==
    ASSUME NEW N, NEW K, NEW t, NEW C, NEW M, NEW L, NEW u, NEW p,
           Shrinking(N, K, t, C, M, L, u, p), NEW b, IsResult(b), b.used = u, b.root = t,
           NEW k, NEW r, r = Reported(b, M, p, k)
    PROVE  Shrunk(N, K, t, C, r, u, L, p)
  <1>1. /\ Mid(M, L, p) /\ Whole(M, L, t, {}, {p}, C) /\ Upper(N, K, M, L, p)
        /\ Sized(M, {}) /\ Takes(L, u)
        /\ Slots(M[p]) # {} \/ (p = t /\ ~(L[p] > 0))
    BY Zenon DEF Shrinking
  <1>x. PICK x : x = IF M[p].slots = << >> THEN k ELSE M[p].slots[1].key
    OBVIOUS
  <1>y. PICK y : y = NeedMerge(M[p])
    OBVIOUS
  <1>2. r = [b EXCEPT !.node = M, !.min = x, !.merge = y]
    BY <1>x, <1>y DEF Reported
  <1>3. r.node = M /\ r.used = b.used /\ r.root = b.root /\ r.min = x /\ r.merge = y
    BY <1>2 DEF IsResult
  <1>4. r.used = u /\ r.root = t /\ IsResult(r)
    BY <1>2, <1>3 DEF IsResult
  <1>5. Layered(M, L) /\ p \in DOMAIN L /\ M[p] \in Nodes /\ M[p].leaf \in BOOLEAN
        /\ Count(M[p]) \in Nat
    BY <1>1, LayeredFacts, NodeFacts DEF Mid
  <1>6. Whole(M, L, t, {}, IF y THEN {p} ELSE {}, C)
    <2>1. CASE y
      BY <1>1, <2>1
    <2>2. CASE ~y
      <3>c. PICK c \in Nat : c = Capacity(M[p].leaf) /\ c \div 2 \in Nat /\ c \div 2 >= Low
        BY <1>5, Capacities
      <3>1. ~(Count(M[p]) < c \div 2)
        BY <1>y, <2>2, <3>c, Zenon DEF NeedMerge, Count
      <3>2. Count(M[p]) >= Low
        BY <1>5, <3>c, <3>1, Capacities
      <3>3. /\ Parents(M, L, {t} \cup {}) /\ Filled(M, L, {t} \cup {p})
            /\ LeafKeys(M, L) = C /\ t \in DOMAIN L /\ \A q \in DOMAIN L : L[q] <= L[t]
        BY <1>1, Zenon DEF Whole
      <3>4. Filled(M, L, {t} \cup {})
        BY <3>2, <3>3 DEF Filled
      <3>5. Whole(M, L, t, {}, {}, C)
        BY <3>3, <3>4, Zenon DEF Whole
      <3> QED
        BY <2>2, <3>5
    <2>3. y \in BOOLEAN
      BY <1>y DEF NeedMerge
    <2> QED
      BY <2>1, <2>2, <2>3
  <1>7. Slots(M[p]) # {} => x = Least(M[p])
    <2>1. Slots(M[p]) # {} => M[p].slots # << >>
      BY <1>5, NodeFacts, SlotSets
    <2> QED
      BY <1>x, <2>1 DEF Least, KeyIn
  <1> QED
    BY <1>1, <1>3, <1>4, <1>6, <1>7, Zenon DEF Shrunk

\* The page that the deletion begins with.
LEMMA ShrinkLeaf ==
    ASSUME NEW N, NEW K, Layered(N, K), Exact(N, K, {}), NEW t, NEW C,
           Whole(N, K, t, {}, {}, C), Sized(N, {}), NEW u, Takes(K, u),
           NEW p \in DOMAIN K, K[p] = 0, NEW k \in Entries, Home(N, K, p, k), k \in C,
           NEW M, Puts(N, M, p, RemoveSlot(N[p], LowerBound(N[p], k)))
    PROVE  Shrinking(N, K, t, C \ {k}, M, K, u, p)
  <1>m. PICK m : m = RemoveSlot(N[p], LowerBound(N[p], k))
    OBVIOUS
  <1>1. N[p] \in Nodes /\ p \in PageIds /\ Count(N[p]) \in Nat
    BY LayeredFacts, NodeFacts
  <1>2. /\ Mid(M, K, p) /\ Whole(M, K, t, {}, {p}, C \ {k}) /\ Replaced(N, M, K, p, m)
        /\ m \in Nodes /\ m.leaf = N[p].leaf /\ Count(m) = Count(N[p]) - 1
        /\ p # t => Slots(m) # {}
    BY <1>m, TakeKey
  <1>3. M[p] = m /\ \A q \in PageIds : q # p => M[q] = N[q]
    BY <1>2, Zenon DEF Replaced
  <1>4. Upper(N, K, M, K, p)
    <2>1. \A q \in DOMAIN K : q \in PageIds /\ K[q] \in Nat
      BY LayeredFacts
    <2>2. \A q \in DOMAIN K : K[q] > K[p] => M[q] = N[q]
      BY <1>3, <2>1
    <2> QED
      BY <2>2, Zenon DEF Upper
  <1>5. Sized(M, {})
    <2>1. Count(N[p]) < Capacity(N[p].leaf)
      BY <1>1 DEF Sized
    <2>y. PICK y \in Nat : y = Capacity(N[p].leaf)
      BY <1>1, NodeFacts, Capacities
    <2>2. Count(M[p]) = Count(N[p]) - 1 /\ Capacity(M[p].leaf) = y
      BY <1>2, <1>3, <2>y
    <2>3. \A x, z \in Nat : x < z => x - 1 < z
      OBVIOUS
    <2>4. Count(M[p]) < Capacity(M[p].leaf)
      BY <1>1, <2>1, <2>2, <2>3, <2>y, Zenon
    <2> QED
      BY <1>3, <2>4 DEF Sized
  <1>6. Slots(M[p]) # {} \/ (p = t /\ ~(K[p] > 0))
    BY <1>2, <1>3
  <1> QED
    BY <1>2, <1>4, <1>5, <1>6, Zenon DEF Shrinking

\* Page p, the parent of c, has got the least key of c for its slot i.
Raising(N, K, t, F, C, M, L, u, p, i, c) ==
    /\ Mid(M, L, p) /\ Whole(M, L, t, {}, F, C) /\ Upper(N, K, M, L, p)
    /\ Sized(M, {}) /\ Takes(L, u)
    /\ L[p] > 0 /\ i \in 1 .. Count(M[p]) /\ M[p].slots[i].son = c
    /\ c \in DOMAIN L /\ L[c] = L[p] - 1 /\ Slots(M[c]) # {}

LEMMA UpperOfParent ==
    ASSUME NEW N, NEW K, Layered(N, K), NEW M, NEW L, Layered(M, L), NEW c,
           Upper(N, K, M, L, c), NEW p \in DOMAIN K, K[p] = K[c] + 1
    PROVE  Upper(N, K, M, L, p)
  <1>1. /\ c \in DOMAIN K
        /\ \A q \in DOMAIN L : L[q] > K[c] => q \in DOMAIN K
        /\ \A q \in DOMAIN K : K[q] > K[c] => q \in DOMAIN L /\ L[q] = K[q] /\ M[q] = N[q]
    BY Zenon DEF Upper
  <1>2. /\ \A q \in DOMAIN L : L[q] \in Nat
        /\ \A q \in DOMAIN K : K[q] \in Nat
    BY LayeredFacts
  <1>3. \A q \in DOMAIN L : L[q] > K[p] => q \in DOMAIN K
    BY <1>1, <1>2
  <1>4. \A q \in DOMAIN K : K[q] > K[p] => q \in DOMAIN L /\ L[q] = K[q] /\ M[q] = N[q]
    BY <1>1, <1>2
  <1>5. L[p] = K[p]
    BY <1>1, <1>2
  <1> QED
    BY <1>3, <1>4, <1>5, Zenon DEF Upper

LEMMA UpperKept ==
    ASSUME NEW N, NEW K, NEW M, NEW L, Layered(M, L), NEW p \in DOMAIN L, Upper(N, K, M, L, p),
           NEW R, NEW J, DOMAIN J \subseteq DOMAIN L, \A q \in DOMAIN J : J[q] = L[q],
           \A q \in DOMAIN L : L[q] > L[p] => q \in DOMAIN J /\ R[q] = M[q], p \in DOMAIN J
    PROVE  Upper(N, K, R, J, p)
  <1>1. /\ p \in DOMAIN K /\ L[p] = K[p]
        /\ \A q \in DOMAIN L : L[q] > K[p] => q \in DOMAIN K
        /\ \A q \in DOMAIN K : K[q] > K[p] => q \in DOMAIN L /\ L[q] = K[q] /\ M[q] = N[q]
    BY Zenon DEF Upper
  <1>2. \A q \in DOMAIN J : J[q] > K[p] => q \in DOMAIN K
    BY <1>1
  <1>3. \A q \in DOMAIN K : K[q] > K[p] => q \in DOMAIN J /\ J[q] = K[q] /\ R[q] = N[q]
    BY <1>1
  <1> QED
    BY <1>1, <1>2, <1>3, Zenon DEF Upper

\* Page p when the deletion has left its son c with the result b.
RaisedBy(b, N, K, t, C, M, L, u, p, i, c) ==
    /\ Raising(N, K, t, IF b.merge THEN {c} ELSE {}, C, M, L, u, p, i, c)
    /\ Count(M[p]) = Count(N[p])
    /\ b.node[p] = N[p]

LEMMA ShrinkRaise ==
    ASSUME NEW N, NEW K, Layered(N, K), Exact(N, K, {}), NEW p \in DOMAIN K, K[p] > 0,
           Slots(N[p]) # {}, NEW k \in Entries, NEW c, c = Son(N[p], k),
           NEW t, K[p] <= K[t], t \in DOMAIN K,
           NEW C, NEW b, NEW u, NEW L, Shrunk(N, K, t, C, b, u, L, c),
           NEW i, i = SonPos(N[p], k), NEW M, SetsKey(b.node, M, p, i, b.min)
    PROVE  RaisedBy(b, N, K, t, C, M, L, u, p, i, c)
  <1>F. PICK F : F = (IF b.merge THEN {c} ELSE {})
    OBVIOUS
  <1>B. PICK B : B = b.node
    OBVIOUS
  <1>e. PICK e : e = N[p].slots[i]
    OBVIOUS
  <1>0. k \in Nat
    BY EntriesAreNumbers
  <1>1. /\ Mid(B, L, c) /\ Whole(B, L, t, {}, F, C)
        /\ Upper(N, K, B, L, c) /\ Sized(B, {}) /\ Takes(L, u)
        /\ Slots(B[c]) # {} \/ (c = t /\ ~(L[c] > 0))
        /\ Slots(B[c]) # {} => b.min = Least(B[c])
    BY <1>B, <1>F, Zenon DEF Shrunk
  <1>2. /\ B[p] = N[p] /\ p \in DOMAIN L /\ L[p] = K[p] /\ p # c
        /\ i \in 1 .. Count(N[p]) /\ e \in Slots(N[p]) /\ e.son = c
        /\ Inner(B, L, p, e)
    <2>1. OwnSlot(N, K, B, L, p, c, k, i, e)
      BY <1>0, <1>1, <1>e, SonBefore
    <2> QED
      BY <2>1, Zenon DEF OwnSlot
  <1>3. Layered(B, L) /\ c \in DOMAIN L /\ B \in [PageIds -> Nodes]
    BY <1>1 DEF Mid, Layered
  <1>4. p \in PageIds /\ B[p] \in Nodes /\ L[p] \in Nat
    BY <1>2, <1>3, LayeredFacts
  <1>5. L[c] = L[p] - 1 /\ Slots(B[c]) # {}
    BY <1>2, <1>3, LayeredFacts
  <1>6. SetsKey(B, M, p, i, Least(B[c]))
    BY <1>B, <1>1, <1>5
  <1>7. Near(B, L, p, c)
    BY <1>1, <1>2, MidNear
  <1>8. Inner(B, L, p, B[p].slots[i]) /\ B[p].slots[i].son = c /\ i \in 1 .. Count(B[p])
    BY <1>2, <1>e
  <1>9. Raised(B, M, L, p, i, c) /\ Whole(M, L, t, {}, F, C)
    BY <1>1, <1>6, <1>7, <1>8, Raise, RaiseWhole
  <1>10. /\ Mid(M, L, p) /\ M[p].leaf = B[p].leaf /\ Count(M[p]) = Count(B[p])
         /\ \A q \in PageIds : q # p => M[q] = B[q]
    BY <1>9, Zenon DEF Raised
  <1>11. M[p].slots[i].son = c
    <2>k. PICK x : x = Least(B[c])
      OBVIOUS
    <2>1. x \in Entries
      <3>1. B[c] \in Nodes /\ Increasing(B[c])
        BY <1>3, LayeredFacts
      <3> QED
        BY <1>5, <2>k, <3>1, LeastFacts
    <2>2. M[p] = [B[p] EXCEPT !.slots[i].key = x]
      BY <1>3, <1>4, <1>6, <2>k DEF SetsKey
    <2>3. WithKey(B[p], M[p], i, x)
      BY <1>4, <1>8, <2>1, <2>2, WithKeyFacts
    <2> QED
      BY <1>8, <2>3 DEF WithKey, SonIn
  <1>12. Upper(N, K, M, L, p)
    <2>1. Upper(N, K, B, L, p)
      <3>1. L[c] = K[c] /\ c \in DOMAIN K
        BY <1>1 DEF Upper
      <3>2. K[c] \in Nat
        BY <3>1, LayeredFacts
      <3>3. K[p] = K[c] + 1
        BY <1>2, <1>4, <1>5, <3>1, <3>2
      <3> QED
        BY <1>1, <1>3, <3>3, UpperOfParent
    <2>2. \A q \in DOMAIN L : L[q] > L[p] => M[q] = B[q]
      <3>1. \A q \in DOMAIN L : q \in PageIds
        BY <1>3, LayeredFacts
      <3>2. ~(L[p] > L[p])
        BY <1>4
      <3> QED
        BY <1>10, <3>1, <3>2
    <2> QED
      BY <1>2, <1>3, <2>1, <2>2, UpperKept
  <1>13. Sized(M, {})
    BY <1>1, <1>10, Zenon DEF Sized
  <1>14. M[c] = B[c]
    BY <1>2, <1>3, <1>10, LayeredFacts
  <1>15. Raising(N, K, t, F, C, M, L, u, p, i, c)
    BY <1>1, <1>2, <1>3, <1>5, <1>8, <1>9, <1>10, <1>11, <1>12, <1>13, <1>14, Zenon DEF Raising
  <1> QED
    BY <1>B, <1>F, <1>2, <1>10, <1>15, Zenon DEF RaisedBy

\* The sons l and l + 1 of page p lie side by side.
Brothers(M, L, p, l, x, y) ==
    /\ x \in DOMAIN L /\ y \in DOMAIN L /\ x # y /\ x # p /\ y # p /\ y # NoNode
    /\ L[x] = L[p] - 1 /\ L[y] = L[p] - 1
    /\ M[x].next = y
    /\ \A q \in DOMAIN L : L[q] = L[x] => Slots(M[q]) # {}

LEMMA BrotherPages ==
    ASSUME NEW M, NEW L, NEW p, Mid(M, L, p), L[p] > 0,
           NEW t, NEW F, NEW C, Whole(M, L, t, {}, F, C),
           NEW l \in 1 .. Count(M[p]), l + 1 \in 1 .. Count(M[p]),
           NEW x, x = M[p].slots[l].son, NEW y, y = M[p].slots[l + 1].son
    PROVE  Brothers(M, L, p, l, x, y) /\ x # t /\ y # t
  <1>a. PICK a : a = M[p].slots[l]
    OBVIOUS
  <1>b. PICK b : b = M[p].slots[l + 1]
    OBVIOUS
  <1>1. Layered(M, L) /\ p \in DOMAIN L /\ L[p] \in Nat
    <2>1. Layered(M, L) /\ p \in DOMAIN L
      BY DEF Mid
    <2> QED
      BY <2>1, LayeredFacts
  <1>2. /\ Parents(M, L, {t} \cup {}) /\ t \in DOMAIN L /\ L[p] <= L[t] /\ L[t] \in Nat
    <2>1. Parents(M, L, {t} \cup {}) /\ t \in DOMAIN L /\ L[p] <= L[t]
      BY <1>1 DEF Whole
    <2> QED
      BY <1>1, <2>1, LayeredFacts
  <1>3. Inner(M, L, p, a) /\ Inner(M, L, p, b)
    <2>1. a \in Slots(M[p]) /\ b \in Slots(M[p])
      BY <1>a, <1>b DEF Slots
    <2> QED
      BY <1>1, <2>1 DEF Inner
  <1>4. M[a.son].next = b.son
    <2>1. Parents(M, L, {t})
      BY <1>2
    <2> QED
      BY <1>a, <1>b, <1>2, <2>1, NextOfSon
  <1>5. /\ x = a.son /\ y = b.son
        /\ x \in DOMAIN L /\ y \in DOMAIN L /\ L[x] = L[p] - 1 /\ L[y] = L[p] - 1
    BY <1>a, <1>b, <1>1, <1>3, LayeredFacts
  <1>6. y # NoNode
    BY <1>1, <1>5, LayeredFacts
  <1>7. x # y
    <2>1. IsNext(M, L, x, y)
      BY <1>1, <1>4, <1>5 DEF Layered, Linked
    <2>2. Beside(L, x, y)
      BY <1>6, <2>1 DEF IsNext
    <2> QED
      BY <2>2, BesideFacts
  <1>8. \A q \in DOMAIN L : L[q] = L[p] - 1 => q # p /\ q # t
    <2>1. \A m, n \in Nat : m <= n => m - 1 # m /\ m - 1 # n
      OBVIOUS
    <2> QED
      BY <1>1, <1>2, <2>1, Zenon
  <1>9. \A q \in DOMAIN L : L[q] = L[x] => Slots(M[q]) # {}
    BY <1>1, <1>5, <1>8, WholeFacts
  <1> QED
    BY <1>4, <1>5, <1>6, <1>7, <1>8, <1>9, Zenon DEF Brothers

Merges(M, R, p, l, x, y) ==
    R = [M EXCEPT ![x] = Merged(M[x], M[y]), ![p] = RemoveSlot(M[p], l + 1)]

\* The pages x and y become one.
LEMMA FixByMerge ==
    ASSUME NEW N, NEW K, NEW t, NEW C, NEW M, NEW L, NEW u, NEW p, NEW i, NEW c,
           Raising(N, K, t, {c}, C, M, L, u, p, i, c),
           NEW l \in 1 .. Count(M[p]), l + 1 \in 1 .. Count(M[p]),
           NEW x, x = M[p].slots[l].son, NEW y, y = M[p].slots[l + 1].son, c \in {x, y},
           Count(M[x]) + Count(M[y]) < InnerCapacity,
           NEW R, Merges(M, R, p, l, x, y)
    PROVE  \E J : Shrinking(N, K, t, C, R, J, u, p)
  <1>b. PICK b : b = M[p].slots[l + 1]
    OBVIOUS
  <1>m. PICK m : m = RemoveSlot(M[p], l + 1)
    OBVIOUS
  <1>1. /\ Mid(M, L, p) /\ Whole(M, L, t, {}, {c}, C) /\ Upper(N, K, M, L, p)
        /\ Sized(M, {}) /\ Takes(L, u) /\ L[p] > 0
    BY Zenon DEF Raising
  <1>2. Layered(M, L) /\ p \in DOMAIN L /\ M \in [PageIds -> Nodes]
    BY <1>1 DEF Mid, Layered
  <1>3. Brothers(M, L, p, l, x, y) /\ x # t /\ y # t
    BY <1>1, BrotherPages
  <1>4. /\ x \in DOMAIN L /\ y \in DOMAIN L /\ x # y /\ x # p /\ y # p /\ y # NoNode
        /\ L[x] = L[p] - 1 /\ L[y] = L[p] - 1
        /\ M[x].next = y
        /\ \A q \in DOMAIN L : L[q] = L[x] => Slots(M[q]) # {}
    BY <1>3, Zenon DEF Brothers
  <1>5. /\ p \in PageIds /\ x \in PageIds /\ y \in PageIds /\ L[p] \in Nat
        /\ M[p] \in Nodes /\ M[x] \in Nodes /\ M[y] \in Nodes
        /\ Count(M[p]) \in Nat /\ Count(M[x]) \in Nat /\ Count(M[y]) \in Nat
        /\ \A q \in DOMAIN L : q \in PageIds
    BY <1>2, <1>4, LayeredFacts, NodeFacts
  <1>6. Count(M[p]) >= 2
    BY <1>5
  <1>A. PICK A : Puts(M, A, p, m)
    BY DEF Puts
  <1>7. /\ Mid(A, L, p) /\ Replaced(M, A, L, p, m) /\ SlotsReplaced(M, A, L, p, m)
        /\ m \in Nodes /\ m.leaf = M[p].leaf
        /\ Count(m) = Count(M[p]) - 1 /\ Slots(m) = Slots(M[p]) \ {b}
        /\ \A q, f : Inner(A, L, q, f) => f.son # b.son
    <2>1. SonDropped(M, A, L, p, m, b)
      BY <1>b, <1>m, <1>1, <1>6, <1>A, DropSon
    <2> QED
      BY <2>1, Zenon DEF SonDropped
  <1>8. Whole(A, L, t, {y}, {c, p}, C)
    <2>1. Whole(A, L, t, {b.son}, {c, p}, C)
      BY <1>1, <1>7, DropWhole
    <2> QED
      BY <1>b, <2>1
  <1>9. A[p] = m /\ \A q \in PageIds : q # p => A[q] = M[q]
    BY <1>7, Zenon DEF Replaced
  <1>10. A[x] = M[x] /\ A[y] = M[y] /\ A \in [PageIds -> Nodes]
    <2>1. A[x] = M[x] /\ A[y] = M[y]
      BY <1>4, <1>5, <1>9
    <2> QED
      BY <1>7, <2>1 DEF Mid, Layered
  <1>J. PICK J : Leaves(L, J, y)
    BY DEF Leaves
  <1>E. PICK E : Puts(A, E, x, Merged(A[x], A[y]))
    BY DEF Puts
  <1>11. Fused(A, L, E, J, x, y)
    <2>1. \A q \in DOMAIN L : L[q] = L[x] => Slots(A[q]) # {}
      <3>1. \A k \in Nat : k - 1 # k
        OBVIOUS
      <3>2. L[x] # L[p]
        BY <1>4, <1>5, <3>1, Zenon
      <3> QED
        BY <1>4, <1>5, <1>9, <3>2
    <2>2. \A q, f : Inner(A, L, q, f) => f.son # y
      BY <1>7, <1>b
    <2>3. Layered(A, L) /\ A[x].next = y
      BY <1>4, <1>7, <1>10 DEF Mid
    <2> QED
      BY <1>4, <1>E, <1>J, <2>1, <2>2, <2>3, MergePages
  <1>12. Mid(E, J, p)
    BY <1>4, <1>7, <1>11, <1>J, MergeMid
  <1>13. Whole(E, J, t, {}, {p}, C)
    BY <1>3, <1>4, <1>7, <1>8, <1>11, <1>J, MergeWhole
  <1>14. R = E
    <2>1. A = [M EXCEPT ![p] = m]
      BY <1>A DEF Puts
    <2>g. PICK g : g = Merged(M[x], M[y])
      OBVIOUS
    <2>2. E = [A EXCEPT ![x] = g]
      BY <1>10, <1>E, <2>g DEF Puts
    <2>3. R = [M EXCEPT ![x] = g, ![p] = m]
      BY <2>g, <1>m DEF Merges
    <2> QED
      BY <1>2, <1>4, <2>1, <2>2, <2>3
  <1>15. DOMAIN J = DOMAIN L \ {y} /\ \A q \in DOMAIN J : J[q] = L[q]
    BY <1>J DEF Leaves
  <1>16. /\ E[x].leaf = A[x].leaf /\ Count(E[x]) = Count(A[x]) + Count(A[y])
         /\ \A q \in PageIds : q # x => E[q] = A[q]
    BY <1>11, Zenon DEF Fused
  <1>17. Upper(N, K, E, J, p)
    <2>1. \A q \in DOMAIN L : L[q] > L[p] => q \in DOMAIN J /\ E[q] = M[q]
      <3>1. ASSUME NEW q \in DOMAIN L, L[q] > L[p] PROVE q # p /\ q # x /\ q # y
        BY <1>4, <1>5, <3>1
      <3> QED
        BY <1>5, <1>9, <1>15, <1>16, <3>1
    <2>2. p \in DOMAIN J /\ DOMAIN J \subseteq DOMAIN L
      BY <1>2, <1>4, <1>15
    <2> QED
      BY <1>1, <1>2, <1>15, <2>1, <2>2, UpperKept
  <1>18. Sized(E, {})
    <2>1. Count(E[x]) < Capacity(E[x].leaf)
      <3>y. PICK z \in Nat : z = Capacity(M[x].leaf) /\ z >= InnerCapacity
        BY <1>5, NodeFacts, Capacities
      <3>1. Count(E[x]) = Count(M[x]) + Count(M[y]) /\ Capacity(E[x].leaf) = z
        BY <1>10, <1>16, <3>y
      <3>2. \A f, g, h \in Nat : f < g /\ h >= g => f < h
        OBVIOUS
      <3>3. InnerCapacity \in Nat /\ Count(M[x]) + Count(M[y]) \in Nat
        BY <1>5, CapacityAssumption
      <3> QED
        BY <3>1, <3>2, <3>3, <3>y, Zenon
    <2>2. Count(E[p]) < Capacity(E[p].leaf)
      <3>z. PICK z \in Nat : z = Capacity(M[p].leaf)
        BY <1>5, NodeFacts, Capacities
      <3>1. Count(M[p]) < z
        BY <1>1, <1>5, <3>z DEF Sized
      <3>2. Count(E[p]) = Count(M[p]) - 1 /\ Capacity(E[p].leaf) = z
        BY <1>4, <1>5, <1>7, <1>9, <1>16, <3>z
      <3>3. \A f, g \in Nat : f < g => f - 1 < g
        OBVIOUS
      <3> QED
        BY <1>5, <3>1, <3>2, <3>3, <3>z, Zenon
    <2>3. \A q \in PageIds : q # x /\ q # p => E[q] = M[q]
      BY <1>9, <1>16
    <2> QED
      BY <1>1, <2>1, <2>2, <2>3, Zenon DEF Sized
  <1>19. Takes(J, u)
    BY <1>1, <1>15 DEF Takes
  <1>20. Slots(E[p]) # {}
    <2>1. E[p] = m
      BY <1>4, <1>5, <1>9, <1>16
    <2>2. Count(m) # 0
      BY <1>5, <1>6, <1>7
    <2> QED
      BY <1>7, <2>1, <2>2, SlotSets
  <1>21. Shrinking(N, K, t, C, E, J, u, p)
    BY <1>12, <1>13, <1>17, <1>18, <1>19, <1>20, Zenon DEF Shrinking
  <1> QED
    BY <1>14, <1>21

Averages(M, R, p, l, x, y) ==
    \E A : /\ A = [M EXCEPT ![x] = AveragedLeft(M[x], M[y]), ![y] = AveragedRight(M[x], M[y])]
          /\ SetsKey(A, R, p, l + 1, Least(A[y]))

\* The pages x and y share their slots.
LEMMA FixByShare ==
    ASSUME NEW N, NEW K, NEW t, NEW C, NEW M, NEW L, NEW u, NEW p, NEW i, NEW c,
           Raising(N, K, t, {c}, C, M, L, u, p, i, c),
           NEW l \in 1 .. Count(M[p]), l + 1 \in 1 .. Count(M[p]),
           NEW x, x = M[p].slots[l].son, NEW y, y = M[p].slots[l + 1].son, c \in {x, y},
           Count(M[x]) + Count(M[y]) >= InnerCapacity,
           NEW R, Averages(M, R, p, l, x, y)
    PROVE  \E J : Shrinking(N, K, t, C, R, J, u, p)
  <1>1. /\ Mid(M, L, p) /\ Whole(M, L, t, {}, {c}, C) /\ Upper(N, K, M, L, p)
        /\ Sized(M, {}) /\ Takes(L, u) /\ L[p] > 0
    BY Zenon DEF Raising
  <1>2. Layered(M, L) /\ p \in DOMAIN L /\ M \in [PageIds -> Nodes]
    BY <1>1 DEF Mid, Layered
  <1>3. Brothers(M, L, p, l, x, y) /\ x # t /\ y # t
    BY <1>1, BrotherPages
  <1>4. /\ x \in DOMAIN L /\ y \in DOMAIN L /\ x # y /\ x # p /\ y # p /\ y # NoNode
        /\ L[x] = L[p] - 1 /\ L[y] = L[p] - 1
        /\ M[x].next = y
        /\ \A q \in DOMAIN L : L[q] = L[x] => Slots(M[q]) # {}
    BY <1>3, Zenon DEF Brothers
  <1>5. /\ p \in PageIds /\ x \in PageIds /\ y \in PageIds /\ L[p] \in Nat
        /\ M[p] \in Nodes /\ M[x] \in Nodes /\ M[y] \in Nodes
        /\ Count(M[p]) \in Nat /\ Count(M[x]) \in Nat /\ Count(M[y]) \in Nat
        /\ \A q \in DOMAIN L : q \in PageIds
    BY <1>2, <1>4, LayeredFacts, NodeFacts
  <1>A. PICK A : /\ A = [M EXCEPT ![x] = AveragedLeft(M[x], M[y]),
                                 ![y] = AveragedRight(M[x], M[y])]
                 /\ SetsKey(A, R, p, l + 1, Least(A[y]))
    BY Zenon DEF Averages
  <1>6. Shared(M, L, A, x, y)
    <2>1. Count(M[x]) + Count(M[y]) >= 2
      BY <1>5, CapacityAssumption
    <2> QED
      <3>1. A = [M EXCEPT ![x] = AveragedLeft(M[x], M[y]), ![y] = AveragedRight(M[x], M[y])]
        BY <1>A, Zenon
      <3> QED
        BY <1>2, <1>4, <2>1, <3>1, SharePages, Zenon
  <1>7. Near(A, L, p, y)
    BY <1>1, <1>4, <1>6, ShareNear
  <1>8. Whole(A, L, t, {}, {}, C)
    BY <1>1, <1>4, <1>6, ShareWhole, Zenon
  <1>9. /\ A[x].leaf = M[x].leaf /\ A[y].leaf = M[x].leaf
        /\ \E h \in Nat : /\ h = (Count(M[x]) + Count(M[y])) \div 2
                          /\ Count(A[x]) = h /\ Count(A[y]) = (Count(M[x]) + Count(M[y])) - h
        /\ \A q \in PageIds : q # x /\ q # y => A[q] = M[q]
    BY <1>6, Zenon DEF Shared
  <1>10. A[p] = M[p]
    BY <1>4, <1>5, <1>9
  <1>11. /\ Inner(A, L, p, A[p].slots[l + 1]) /\ A[p].slots[l + 1].son = y
         /\ l + 1 \in 1 .. Count(A[p])
    <2>1. M[p].slots[l + 1] \in Slots(M[p])
      BY DEF Slots
    <2> QED
      BY <1>1, <1>2, <1>10, <2>1 DEF Inner
  <1>12. SetsKey(A, R, p, l + 1, Least(A[y]))
    BY <1>A, Zenon
  <1>13. Raised(A, R, L, p, l + 1, y) /\ Whole(R, L, t, {}, {}, C)
    BY <1>7, <1>8, <1>11, <1>12, Raise, RaiseWhole
  <1>14. /\ Mid(R, L, p) /\ R[p].leaf = A[p].leaf /\ Count(R[p]) = Count(A[p])
         /\ \A q \in PageIds : q # p => R[q] = A[q]
    BY <1>13, Zenon DEF Raised
  <1>15. Whole(R, L, t, {}, {p}, C)
    <2>1. /\ Parents(R, L, {t} \cup {}) /\ Filled(R, L, {t} \cup {})
          /\ LeafKeys(R, L) = C /\ t \in DOMAIN L /\ \A q \in DOMAIN L : L[q] <= L[t]
      BY <1>13, Zenon DEF Whole
    <2>2. Filled(R, L, {t} \cup {p})
      BY <2>1 DEF Filled
    <2> QED
      BY <2>1, <2>2, Zenon DEF Whole
  <1>16. Upper(N, K, R, L, p)
    <2>1. \A q \in DOMAIN L : L[q] > L[p] => R[q] = M[q]
      <3>1. ASSUME NEW q \in DOMAIN L, L[q] > L[p] PROVE q # p /\ q # x /\ q # y
        BY <1>4, <1>5, <3>1
      <3> QED
        BY <1>5, <1>9, <1>14, <3>1
    <2> QED
      BY <1>1, <1>2, <2>1, UpperKept
  <1>17. Sized(R, {})
    <2>1. M[x].leaf = M[y].leaf
      <3>1. \A q \in DOMAIN L : M[q].leaf <=> L[q] = 0
        BY <1>2 DEF Layered, LeavesBelow
      <3>2. M[x].leaf \in BOOLEAN /\ M[y].leaf \in BOOLEAN
        BY <1>5, NodeFacts
      <3> QED
        BY <1>4, <3>1, <3>2
    <2>z. PICK z \in Nat : z = Capacity(M[x].leaf)
      BY <1>5, NodeFacts, Capacities
    <2>2. Count(M[x]) < z /\ Count(M[y]) < z
      BY <1>1, <1>5, <2>1, <2>z DEF Sized
    <2>h. PICK h \in Nat : /\ h = (Count(M[x]) + Count(M[y])) \div 2
                           /\ Count(A[x]) = h
                           /\ Count(A[y]) = (Count(M[x]) + Count(M[y])) - h
      BY <1>9, Zenon
    <2>3. \A f, g, e \in Nat : f < e /\ g < e => (f + g) \div 2 < e
                                                 /\ (f + g) - (f + g) \div 2 < e
      OBVIOUS
    <2>4. Count(A[x]) < z /\ Count(A[y]) < z
      BY <1>5, <2>2, <2>3, <2>h, Zenon
    <2>5. Count(R[x]) < Capacity(R[x].leaf) /\ Count(R[y]) < Capacity(R[y].leaf)
      <3>1. R[x] = A[x] /\ R[y] = A[y]
        BY <1>4, <1>5, <1>14
      <3> QED
        BY <1>9, <2>4, <2>z, <3>1, Zenon
    <2>6. Count(R[p]) < Capacity(R[p].leaf)
      BY <1>1, <1>5, <1>10, <1>14 DEF Sized
    <2>7. \A q \in PageIds : q # x /\ q # y /\ q # p => R[q] = M[q]
      BY <1>9, <1>14
    <2> QED
      BY <1>1, <2>5, <2>6, <2>7, Zenon DEF Sized
  <1>18. Slots(R[p]) # {}
    <2>1. R[p] \in Nodes
      BY <1>14, <1>2, LayeredFacts DEF Mid
    <2>2. Count(R[p]) # 0
      BY <1>5, <1>10, <1>14
    <2> QED
      BY <2>1, <2>2, SlotSets
  <1>19. Shrinking(N, K, t, C, R, L, u, p)
    BY <1>1, <1>14, <1>15, <1>16, <1>17, <1>18, Zenon DEF Shrinking
  <1> QED
    BY <1>19

RootDropped(M, t, u, C, p, c) == p = t /\ \E J : Tree(M, J, c, u \ {p}, C)

\* A root with one slot is given up: the son of the slot is the root now.
LEMMA DropRoot ==
    ASSUME NEW N, NEW K, NEW t, NEW C, NEW M, NEW L, NEW u, NEW p, NEW i, NEW c,
           Raising(N, K, t, {c}, C, M, L, u, p, i, c), Count(M[p]) = 1
    PROVE  RootDropped(M, t, u, C, p, c)
  <1>1. /\ Mid(M, L, p) /\ Whole(M, L, t, {}, {c}, C)
        /\ Sized(M, {}) /\ Takes(L, u) /\ L[p] > 0
        /\ i \in 1 .. Count(M[p]) /\ M[p].slots[i].son = c
        /\ c \in DOMAIN L /\ L[c] = L[p] - 1 /\ Slots(M[c]) # {}
    BY Zenon DEF Raising
  <1>2. Layered(M, L) /\ p \in DOMAIN L /\ M \in [PageIds -> Nodes]
    BY <1>1 DEF Mid, Layered
  <1>3. /\ Parents(M, L, {t} \cup {}) /\ Filled(M, L, {t} \cup {c})
        /\ LeafKeys(M, L) = C /\ t \in DOMAIN L /\ \A q \in DOMAIN L : L[q] <= L[t]
    BY <1>1, Zenon DEF Whole
  <1>4. /\ L[p] \in Nat /\ L[c] \in Nat /\ M[p] \in Nodes
        /\ \A q \in DOMAIN L : q \in PageIds /\ L[q] \in Nat
    BY <1>1, <1>2, LayeredFacts
  <1>5. c # p
    BY <1>1, <1>4
  <1>6. p = t
    <2>1. SUFFICES ASSUME p # t PROVE FALSE
      OBVIOUS
    <2>2. Count(M[p]) >= Low
      BY <1>2, <1>3, <1>5, <2>1 DEF Filled
    <2> QED
      BY <2>2, Capacities
  <1>7. /\ \A q \in DOMAIN L \ {t} : L[q] < L[t]
        /\ \A q, e : Inner(M, L, q, e) => e.son # t
    <2>1. /\ \A q \in DOMAIN L \ ({t} \cup {}) : L[q] < L[t]
          /\ \A q, e : Inner(M, L, q, e) => e.son # t
      BY <1>1, <1>2, WholeFacts
    <2> QED
      BY <2>1
  <1>J. PICK J : Leaves(L, J, t)
    BY DEF Leaves
  <1>8. /\ DOMAIN J = DOMAIN L \ {t}
        /\ \A q \in DOMAIN J : q \in DOMAIN L /\ q # t /\ J[q] = L[q]
    BY <1>J DEF Leaves
  <1>9. /\ \A q, s : Beside(J, q, s) => Beside(L, q, s)
        /\ \A q, s : Beside(L, q, s) => Beside(J, q, s)
    <2>1. ASSUME NEW q, NEW s, Beside(J, q, s) PROVE Beside(L, q, s)
      BY <1>8, <2>1 DEF Beside
    <2>2. ASSUME NEW q, NEW s, Beside(L, q, s) PROVE Beside(J, q, s)
      <3>1. q \in DOMAIN L /\ s \in DOMAIN L /\ q # s /\ L[q] = L[s]
        BY <2>2 DEF Beside
      <3>2. L[q] \in Nat /\ L[s] \in Nat
        BY <1>4, <3>1
      <3>3. q # t /\ s # t
        BY <1>7, <3>1, <3>2
      <3> QED
        BY <1>8, <3>1, <3>3 DEF Beside
    <2> QED
      BY <2>1, <2>2
  <1>10. \A q, e : Inner(M, J, q, e) <=> Inner(M, L, q, e) /\ q # t
    BY <1>8 DEF Inner
  <1>11. Layered(M, J)
    <2>1. Leveled(J)
      <3>1. Leveled(L)
        BY <1>2 DEF Layered
      <3> QED
        BY <1>J, <1>8, <3>1 DEF Leveled, Leaves
    <2>2. LeavesBelow(M, J)
      BY <1>2, <1>8 DEF Layered, LeavesBelow
    <2>3. Ordered(M, J)
      BY <1>2, <1>8, <1>9, Zenon DEF Layered, Ordered
    <2>4. Linked(M, J)
      BY <1>2, <1>8, <1>9, Zenon DEF Layered, Linked, IsNext
    <2>5. SonsBelow(M, J)
      <3>1. ASSUME NEW q, NEW e, Inner(M, J, q, e)
            PROVE  e.son \in DOMAIN J /\ J[e.son] = J[q] - 1 /\ Slots(M[e.son]) # {}
        <4>1. Inner(M, L, q, e) /\ q \in DOMAIN J
          BY <1>10, <3>1 DEF Inner
        <4>2. e.son \in DOMAIN L /\ L[e.son] = L[q] - 1 /\ Slots(M[e.son]) # {}
          BY <1>2, <4>1 DEF Layered, SonsBelow
        <4>3. e.son # t
          BY <1>7, <4>1
        <4> QED
          BY <1>8, <4>1, <4>2, <4>3
      <3> QED
        BY <3>1, Zenon DEF SonsBelow
    <2> QED
      BY <1>2, <2>1, <2>2, <2>3, <2>4, <2>5, Zenon DEF Layered
  <1>12. Exact(M, J, {})
    <2>1. Exact(M, L, {})
      BY <1>1, <1>6, ExactAtRoot
    <2> QED
      BY <1>10, <2>1, Zenon DEF Exact
  <1>13. Whole(M, J, c, {}, {}, C)
    <2>1. c \in DOMAIN J
      BY <1>1, <1>5, <1>6, <1>8
    <2>2. \A q \in DOMAIN J : J[q] <= J[c]
      <3>1. ASSUME NEW q \in DOMAIN J PROVE J[q] <= J[c]
        <4>1. L[q] < L[t] /\ L[q] \in Nat /\ J[q] = L[q] /\ J[c] = L[c]
          BY <1>4, <1>7, <1>8, <2>1
        <4> QED
          BY <1>1, <1>4, <1>6, <4>1
      <3> QED
        BY <3>1
    <2>3. Parents(M, J, {c} \cup {})
      <3>1. ASSUME NEW s \in DOMAIN J \ ({c} \cup {})
            PROVE  \E q, e : Inner(M, J, q, e) /\ e.son = s
        <4>1. s \in DOMAIN L /\ s # t /\ s # c
          BY <1>8
        <4>2. PICK q, e : Inner(M, L, q, e) /\ e.son = s
          BY <1>3, <4>1 DEF Parents
        <4>3. q # t
          <5>1. SUFFICES ASSUME q = t PROVE FALSE
            OBVIOUS
          <5>2. e \in Slots(M[p])
            BY <1>6, <4>2, <5>1 DEF Inner
          <5>3. e = M[p].slots[1]
            BY <5>2 DEF Slots
          <5>4. i = 1
            BY <1>1
          <5> QED
            BY <1>1, <4>1, <4>2, <5>3, <5>4
        <4> QED
          BY <1>10, <4>2, <4>3, Zenon
      <3> QED
        BY <3>1, Zenon DEF Parents
    <2>4. Filled(M, J, {c} \cup {})
      BY <1>3, <1>8 DEF Filled
    <2>5. LeafKeys(M, J) = C
      <3>1. {s \in DOMAIN J : J[s] = 0} = {s \in DOMAIN L : L[s] = 0}
        BY <1>1, <1>6, <1>8
      <3> QED
        BY <1>3, <3>1, Zenon DEF LeafKeys
    <2> QED
      BY <2>1, <2>2, <2>3, <2>4, <2>5, Zenon DEF Whole
  <1>14. Takes(J, u \ {p})
    BY <1>1, <1>2, <1>6, <1>8 DEF Takes, Layered, Leveled
  <1>15. Tree(M, J, c, u \ {p}, C)
    BY <1>1, <1>11, <1>12, <1>13, <1>14, Zenon DEF Tree
  <1> QED
    BY <1>6, <1>15, Zenon DEF RootDropped

\* What deleteEntry does on the inner page p with n slots after its recursive
\* call for slot i, whose son is c.
StepsUp(k, p, b, i, c, n, M, r) ==
    /\ ~b.merge => r = Reported(b, M, p, k)
    /\ b.merge /\ n = 1 => r = [b EXCEPT !.node = M, !.root = c, !.used = @ \ {p}]
    /\ b.merge /\ n # 1 =>
          \E l : /\ l = (IF i + 1 <= n THEN i ELSE i - 1)
                 /\ r = Reported(b, FixDelete(M, p, l), p, k)

LEMMA DeleteStepFacts ==
    ASSUME NEW b, NEW p, NEW k, ~b.node[p].leaf, NEW i, i = SonPos(b.node[p], k),
           NEW M, SetsKey(b.node, M, p, i, b.min), NEW r, r = DeleteStep(k, p, b)
    PROVE  StepsUp(k, p, b, i, Son(b.node[p], k), Count(b.node[p]), M, r)
  BY Zenon DEF DeleteStep, SetsKey, Count, StepsUp

Fixes(M, R, p, l, x, y) ==
    IF Count(M[x]) + Count(M[y]) < InnerCapacity THEN Merges(M, R, p, l, x, y)
                                                 ELSE Averages(M, R, p, l, x, y)

LEMMA FixDeleteFacts ==
    ASSUME NEW M \in [PageIds -> Nodes], NEW p \in PageIds, ~M[p].leaf, NEW l,
           NEW x \in PageIds, x = M[p].slots[l].son, NEW y \in PageIds,
           y = M[p].slots[l + 1].son, x # p, y # p, x # y, NEW R, R = FixDelete(M, p, l)
    PROVE  Fixes(M, R, p, l, x, y)
  <1>1. CASE Count(M[x]) + Count(M[y]) < InnerCapacity
    <2>1. R = [M EXCEPT ![x] = Merged(M[x], M[y]), ![p] = RemoveSlot(@, l + 1)]
      BY <1>1, Zenon DEF FixDelete, Count, Capacity
    <2>2. Merges(M, R, p, l, x, y)
      BY <2>1 DEF Merges
    <2> QED
      BY <1>1, <2>2, Zenon DEF Fixes
  <1>2. CASE ~(Count(M[x]) + Count(M[y]) < InnerCapacity)
    <2>1. R = [M EXCEPT ![x] = AveragedLeft(M[x], M[y]), ![y] = AveragedRight(M[x], M[y]),
                        ![p].slots[l + 1].key = AveragedRight(M[x], M[y]).slots[1].key]
      BY <1>2, Zenon DEF FixDelete, Count, Capacity
    <2>A. PICK A : A = [M EXCEPT ![x] = AveragedLeft(M[x], M[y]),
                                 ![y] = AveragedRight(M[x], M[y])]
      OBVIOUS
    <2>2. A[y] = AveragedRight(M[x], M[y])
      BY <2>A
    <2>3. R = [A EXCEPT ![p].slots[l + 1].key = A[y].slots[1].key]
      <3>1. \A a, e, k, j :
               [M EXCEPT ![x] = a, ![y] = e, ![p].slots[j].key = k]
               = [[M EXCEPT ![x] = a, ![y] = e] EXCEPT ![p].slots[j].key = k]
        BY Zenon
      <3> QED
        BY <2>1, <2>2, <2>A, <3>1, Zenon
    <2> QED
      <3>1. Averages(M, R, p, l, x, y)
        BY <2>3, <2>A, Zenon DEF Averages, SetsKey, Least, KeyIn
      <3> QED
        BY <1>2, <3>1, Zenon DEF Fixes
  <1> QED
    BY <1>1, <1>2

\* What the merge flag makes of page p and the sons l and l + 1.
LEMMA FixSons ==
    ASSUME NEW N, NEW K, NEW t, NEW C, NEW M, NEW L, NEW u, NEW p, NEW i, NEW c,
           Raising(N, K, t, {c}, C, M, L, u, p, i, c), Count(M[p]) # 1,
           NEW l, l = (IF i + 1 <= Count(M[p]) THEN i ELSE i - 1),
           NEW R, R = FixDelete(M, p, l)
    PROVE  \E J : Shrinking(N, K, t, C, R, J, u, p)
  <1>1. /\ Mid(M, L, p) /\ Whole(M, L, t, {}, {c}, C) /\ L[p] > 0
        /\ i \in 1 .. Count(M[p]) /\ M[p].slots[i].son = c
    BY Zenon DEF Raising
  <1>2. /\ Layered(M, L) /\ p \in DOMAIN L /\ M \in [PageIds -> Nodes]
        /\ p \in PageIds /\ M[p] \in Nodes /\ Count(M[p]) \in Nat
    <2>1. Layered(M, L) /\ p \in DOMAIN L /\ M \in [PageIds -> Nodes]
      BY <1>1 DEF Mid, Layered
    <2> QED
      BY <2>1, LayeredFacts, NodeFacts
  <1>3. l \in 1 .. Count(M[p]) /\ l + 1 \in 1 .. Count(M[p]) /\ (i = l \/ i = l + 1)
    <2>1. \A n \in Nat : n # 1 => \A a \in 1 .. n :
             IF a + 1 <= n THEN a \in 1 .. n /\ a + 1 \in 1 .. n
                           ELSE a - 1 \in 1 .. n /\ (a - 1) + 1 \in 1 .. n /\ a = (a - 1) + 1
      OBVIOUS
    <2> QED
      BY <1>1, <1>2, <2>1, Zenon
  <1>x. PICK x : x = M[p].slots[l].son
    OBVIOUS
  <1>y. PICK y : y = M[p].slots[l + 1].son
    OBVIOUS
  <1>4. c \in {x, y}
    BY <1>1, <1>3, <1>x, <1>y
  <1>5. Brothers(M, L, p, l, x, y)
    BY <1>1, <1>3, <1>x, <1>y, BrotherPages
  <1>6. x \in PageIds /\ y \in PageIds /\ x # y /\ x # p /\ y # p
    <2>1. x \in DOMAIN L /\ y \in DOMAIN L /\ x # y /\ x # p /\ y # p
      BY <1>5, Zenon DEF Brothers
    <2> QED
      BY <1>2, <2>1, LayeredFacts
  <1>7. Count(M[x]) \in Nat /\ Count(M[y]) \in Nat
    BY <1>2, <1>6, NodeFacts
  <1>8. ~M[p].leaf
    BY <1>1, <1>2 DEF Layered, LeavesBelow
  <1>9. Fixes(M, R, p, l, x, y)
    BY <1>2, <1>6, <1>8, <1>x, <1>y, FixDeleteFacts
  <1>10. CASE Count(M[x]) + Count(M[y]) < InnerCapacity
    <2>1. Merges(M, R, p, l, x, y)
      BY <1>9, <1>10, Zenon DEF Fixes
    <2> QED
      BY <1>3, <1>4, <1>10, <1>x, <1>y, <2>1, FixByMerge
  <1>11. CASE ~(Count(M[x]) + Count(M[y]) < InnerCapacity)
    <2>1. Averages(M, R, p, l, x, y)
      BY <1>9, <1>11, Zenon DEF Fixes
    <2>2. Count(M[x]) + Count(M[y]) >= InnerCapacity
      BY <1>7, <1>11, CapacityAssumption
    <2> QED
      BY <1>3, <1>4, <1>x, <1>y, <2>1, <2>2, FixByShare
  <1> QED
    BY <1>10, <1>11

\* The deletion leaves the tree with the result r.
Deleted(C, r) ==
    \E J : Tree(r.node, J, r.root, r.used, C)

\* Page p is the parent of the page that the deletion has just left.
LEMMA ShrinkInner ==
    ASSUME NEW N, NEW K, Layered(N, K), Exact(N, K, {}), NEW p \in DOMAIN K, K[p] > 0,
           Slots(N[p]) # {}, NEW k \in Entries, NEW c, c = Son(N[p], k),
           NEW t, K[p] <= K[t], t \in DOMAIN K,
           NEW C, NEW b, NEW u, NEW L, Shrunk(N, K, t, C, b, u, L, c),
           NEW r, r = DeleteStep(k, p, b)
    PROVE  \/ \E J : Shrunk(N, K, t, C, r, u, J, p)
           \/ p = t /\ Deleted(C, r)
  <1>i. PICK i : i = SonPos(N[p], k)
    OBVIOUS
  <1>M. PICK M : SetsKey(b.node, M, p, i, b.min)
    BY DEF SetsKey
  <1>1. IsResult(b) /\ b.used = u /\ b.root = t
    BY Zenon DEF Shrunk
  <1>F. PICK F : F = (IF b.merge THEN {c} ELSE {})
    OBVIOUS
  <1>2. /\ Raising(N, K, t, F, C, M, L, u, p, i, c)
        /\ Count(M[p]) = Count(N[p])
        /\ b.node[p] = N[p]
    <2>1. RaisedBy(b, N, K, t, C, M, L, u, p, i, c)
      BY <1>i, <1>M, ShrinkRaise
    <2> QED
      BY <1>F, <2>1, Zenon DEF RaisedBy
  <1>3. ~b.node[p].leaf
    BY <1>2 DEF Layered, LeavesBelow
  <1>4. /\ ~b.merge => r = Reported(b, M, p, k)
        /\ b.merge /\ Count(M[p]) = 1 =>
              r = [b EXCEPT !.node = M, !.root = c, !.used = @ \ {p}]
        /\ b.merge /\ Count(M[p]) # 1 =>
              \E l : /\ l = (IF i + 1 <= Count(M[p]) THEN i ELSE i - 1)
                     /\ r = Reported(b, FixDelete(M, p, l), p, k)
    <2>1. i = SonPos(b.node[p], k) /\ c = Son(b.node[p], k) /\ Count(M[p]) = Count(b.node[p])
      BY <1>2, <1>i
    <2>2. StepsUp(k, p, b, i, Son(b.node[p], k), Count(b.node[p]), M, r)
      BY <1>3, <1>M, <2>1, DeleteStepFacts
    <2>3. StepsUp(k, p, b, i, c, Count(M[p]), M, r)
      BY <2>1, <2>2
    <2> QED
      BY <2>3, Zenon DEF StepsUp
  <1>5. CASE ~b.merge
    <2>1. Raising(N, K, t, {}, C, M, L, u, p, i, c)
      BY <1>2, <1>5, <1>F, Zenon
    <2>2. /\ Mid(M, L, p) /\ Whole(M, L, t, {}, {}, C) /\ Upper(N, K, M, L, p)
          /\ Sized(M, {}) /\ Takes(L, u) /\ i \in 1 .. Count(M[p])
      BY <2>1, Zenon DEF Raising
    <2>3. Whole(M, L, t, {}, {p}, C)
      <3>1. /\ Parents(M, L, {t} \cup {}) /\ Filled(M, L, {t} \cup {})
            /\ LeafKeys(M, L) = C /\ t \in DOMAIN L /\ \A q \in DOMAIN L : L[q] <= L[t]
        BY <2>2, Zenon DEF Whole
      <3>2. Filled(M, L, {t} \cup {p})
        BY <3>1 DEF Filled
      <3> QED
        BY <3>1, <3>2, Zenon DEF Whole
    <2>4. Slots(M[p]) # {}
      BY <2>2 DEF Slots
    <2>5. Shrinking(N, K, t, C, M, L, u, p)
      BY <2>2, <2>3, <2>4, Zenon DEF Shrinking
    <2>6. r = Reported(b, M, p, k)
      BY <1>4, <1>5, Zenon
    <2>7. Shrunk(N, K, t, C, r, u, L, p)
      BY <1>1, <2>5, <2>6, Report
    <2> QED
      BY <2>7
  <1>6. CASE b.merge /\ Count(M[p]) = 1
    <2>1. Raising(N, K, t, {c}, C, M, L, u, p, i, c)
      BY <1>2, <1>6, <1>F, Zenon
    <2>2. p = t /\ \E J : Tree(M, J, c, u \ {p}, C)
      <3>1. RootDropped(M, t, u, C, p, c)
        BY <1>6, <2>1, DropRoot
      <3> QED
        BY <3>1, Zenon DEF RootDropped
    <2>3. r = [b EXCEPT !.node = M, !.root = c, !.used = @ \ {p}]
      BY <1>4, <1>6, Zenon
    <2>4. r.node = M /\ r.root = c /\ r.used = u \ {p}
      BY <1>1, <2>3 DEF IsResult
    <2> QED
      BY <2>2, <2>4 DEF Deleted
  <1>7. CASE b.merge /\ Count(M[p]) # 1
    <2>1. Raising(N, K, t, {c}, C, M, L, u, p, i, c)
      BY <1>2, <1>7, <1>F, Zenon
    <2>2. PICK l : /\ l = (IF i + 1 <= Count(M[p]) THEN i ELSE i - 1)
                   /\ r = Reported(b, FixDelete(M, p, l), p, k)
      BY <1>4, <1>7, Zenon
    <2>R. PICK R : R = FixDelete(M, p, l)
      OBVIOUS
    <2>3. PICK J : Shrinking(N, K, t, C, R, J, u, p)
      BY <1>7, <2>1, <2>2, <2>R, FixSons
    <2>4. r = Reported(b, R, p, k)
      BY <2>2, <2>R
    <2>5. Shrunk(N, K, t, C, r, u, J, p)
      BY <1>1, <2>3, <2>4, Report
    <2> QED
      BY <2>5
  <1> QED
    BY <1>5, <1>6, <1>7

\* What is left when the deletion leaves the root.
LEMMA ShrunkTree ==
    ASSUME NEW N, NEW K, NEW t, NEW C, NEW b, NEW u, NEW L, Shrunk(N, K, t, C, b, u, L, t)
    PROVE  Deleted(C, b)
  <1>1. /\ b.used = u /\ b.root = t /\ Mid(b.node, L, t)
        /\ Whole(b.node, L, t, {}, IF b.merge THEN {t} ELSE {}, C)
        /\ Sized(b.node, {}) /\ Takes(L, u) /\ (Slots(b.node[t]) # {} \/ ~(L[t] > 0))
    BY Zenon DEF Shrunk
  <1>2. Layered(b.node, L) /\ Exact(b.node, L, {})
    BY <1>1, ExactAtRoot
  <1>3. Whole(b.node, L, t, {}, {}, C)
    <2>1. PICK F : F = (IF b.merge THEN {t} ELSE {})
      OBVIOUS
    <2>2. /\ Parents(b.node, L, {t} \cup {}) /\ Filled(b.node, L, {t} \cup F)
          /\ LeafKeys(b.node, L) = C /\ t \in DOMAIN L /\ \A q \in DOMAIN L : L[q] <= L[t]
      BY <1>1, <2>1, Zenon DEF Whole
    <2>3. {t} \cup F = {t} \cup {}
      BY <2>1
    <2> QED
      BY <2>2, <2>3, Zenon DEF Whole
  <1>4. Tree(b.node, L, t, u, C)
    BY <1>1, <1>2, <1>3, Zenon DEF Tree
  <1> QED
    BY <1>1, <1>4 DEF Deleted
-----------------------------------------------------------------------------
(* The functions that the model defines by recursion.                         *)

Iterated(at, f, x, n) == at = [d \in 1 .. n |-> IF d = 1 THEN x ELSE f[at[d - 1]]]

LEMMA IteratesDefined ==
    ASSUME NEW f, NEW x, NEW n \in Nat \ {0}, NEW at, at = Iterates(f, x, n)
    PROVE  /\ DOMAIN at = 1 .. n
           /\ at[1] = x
           /\ \A d \in 2 .. n : at[d] = f[at[d - 1]]
  <1> DEFINE Good == {m \in Nat \ {0} : \E g : Iterated(g, f, x, m)}
  <1>1. 1 .. n \subseteq Good
    <2>1. 1 \in Good
      <3>g. PICK g : g = [d \in 1 .. 1 |-> x]
        OBVIOUS
      <3>1. Iterated(g, f, x, 1)
        BY <3>g DEF Iterated
      <3> QED
        BY <3>1
    <2>2. ASSUME NEW m \in Nat \ {0}, m \in Good PROVE m + 1 \in Good
      <3>g. PICK g : Iterated(g, f, x, m)
        BY <2>2
      <3>1. DOMAIN g = 1 .. m /\ \A d \in 1 .. m : g[d] = IF d = 1 THEN x ELSE f[g[d - 1]]
        BY <3>g DEF Iterated
      <3>h. PICK h : h = [d \in 1 .. m + 1 |-> IF d = m + 1 THEN f[g[m]] ELSE g[d]]
        OBVIOUS
      <3>2. \A d \in 1 .. m + 1 : h[d] = IF d = 1 THEN x ELSE f[h[d - 1]]
        BY <3>1, <3>h
      <3>3. Iterated(h, f, x, m + 1)
        BY <3>h, <3>2 DEF Iterated
      <3>4. m + 1 \in Nat \ {0}
        OBVIOUS
      <3> QED
        BY <3>3, <3>4, Zenon
    <2> HIDE DEF Good
    <2> QED
      BY <2>1, <2>2, InductionTo
  <1>2. \E g : Iterated(g, f, x, n)
    BY <1>1
  <1> DEFINE r == CHOOSE g : Iterated(g, f, x, n)
  <1>3. Iterated(r, f, x, n)
    BY <1>2
  <1>4. at = r
    BY Zenon DEF Iterates, Iterated
  <1>5. Iterated(at, f, x, n)
    BY <1>3, <1>4
  <1>6. DOMAIN at = 1 .. n /\ \A d \in 1 .. n : at[d] = IF d = 1 THEN x ELSE f[at[d - 1]]
    BY <1>5 DEF Iterated
  <1> QED
    BY <1>6
-----------------------------------------------------------------------------
(* Ways from the root to a leaf.                                              *)

TreeParts(N, K, t, u, C) ==
    /\ Layered(N, K) /\ Exact(N, K, {}) /\ Whole(N, K, t, {}, {}, C)
    /\ N \in [PageIds -> Nodes] /\ t \in DOMAIN K /\ K[t] \in Nat
    /\ \A q \in DOMAIN K : /\ q \in PageIds /\ q \notin InitialPages
                           /\ K[q] \in Nat /\ K[q] <= K[t] /\ N[q] \in Nodes
                           /\ (N[q].leaf <=> K[q] = 0)
                           /\ Increasing(N[q])
    /\ \A q \in DOMAIN K : K[q] > 0 \/ q # t => Slots(N[q]) # {}
    /\ \A q \in DOMAIN K : q # t => K[q] < K[t]
    /\ \A p, e : Inner(N, K, p, e) => /\ e.son \in DOMAIN K /\ K[e.son] = K[p] - 1
                                      /\ e.son # t

LEMMA TreeFacts ==
    ASSUME NEW N, NEW K, NEW t, NEW u, NEW C, Tree(N, K, t, u, C)
    PROVE  TreeParts(N, K, t, u, C)
  <1>1. /\ Layered(N, K) /\ Exact(N, K, {}) /\ Whole(N, K, t, {}, {}, C)
        /\ K[t] > 0 => Slots(N[t]) # {}
    BY Zenon DEF Tree
  <1>2. /\ N \in [PageIds -> Nodes]
        /\ \A q \in DOMAIN K : q \notin InitialPages /\ (N[q].leaf <=> K[q] = 0)
    BY <1>1 DEF Layered, Leveled, LeavesBelow
  <1>3. t \in DOMAIN K /\ \A q \in DOMAIN K : K[q] <= K[t]
    BY <1>1, Zenon DEF Whole
  <1>4. /\ \A q \in DOMAIN K : q \in PageIds /\ N[q] \in Nodes /\ K[q] \in Nat /\ Increasing(N[q])
        /\ \A p, e : Inner(N, K, p, e) => e.son \in DOMAIN K /\ K[e.son] = K[p] - 1
    BY <1>1, LayeredFacts
  <1>5. /\ \A q \in DOMAIN K \ ({t} \cup {}) : Slots(N[q]) # {} /\ K[q] < K[t]
        /\ \A p, e : Inner(N, K, p, e) => e.son # t
    BY <1>1, WholeFacts
  <1>6. \A q \in DOMAIN K : q # t => Slots(N[q]) # {} /\ K[q] < K[t]
    BY <1>5
  <1>7. \A q \in DOMAIN K : K[q] > 0 \/ q # t => Slots(N[q]) # {}
    BY <1>1, <1>6
  <1> QED
    BY <1>1, <1>2, <1>3, <1>4, <1>5, <1>6, <1>7, Zenon DEF TreeParts

\* A tree has no more levels than pages.
LEMMA HeightFits ==
    ASSUME NEW N, NEW K, NEW t, NEW u, NEW C, Tree(N, K, t, u, C)
    PROVE  K[t] \in Nat /\ K[t] + 1 <= MaxHeight
  <1>1. /\ t \in DOMAIN K /\ K[t] \in Nat
        /\ \A q \in DOMAIN K : /\ q \in PageIds /\ q \notin InitialPages
                               /\ K[q] \in Nat /\ N[q] \in Nodes
        /\ \A q \in DOMAIN K : K[q] > 0 \/ q # t => Slots(N[q]) # {}
        /\ \A p, e : Inner(N, K, p, e) => e.son \in DOMAIN K /\ K[e.son] = K[p] - 1
    <2>1. TreeParts(N, K, t, u, C)
      BY TreeFacts
    <2> QED
      BY <2>1, Zenon DEF TreeParts
  <1>h. PICK h \in Nat : h = K[t] + 1
    BY <1>1
  <1>G. PICK G : G = {i \in Nat : \E q \in DOMAIN K : K[q] = h - i}
    OBVIOUS
  <1>2. 1 .. h \subseteq G
    <2>1. 1 \in G
      BY <1>1, <1>h, <1>G
    <2>2. ASSUME NEW i \in 1 .. h - 1, i \in G PROVE i + 1 \in G
      <3>1. PICK q \in DOMAIN K : K[q] = h - i
        BY <1>G, <2>2
      <3>2. K[q] > 0
        BY <1>1, <3>1
      <3>3. PICK e : e \in Slots(N[q])
        BY <1>1, <3>2
      <3>4. e.son \in DOMAIN K /\ K[e.son] = K[q] - 1
        BY <1>1, <3>2, <3>3 DEF Inner
      <3>5. K[e.son] = h - (i + 1) /\ i + 1 \in Nat
        BY <1>h, <3>1, <3>4
      <3> QED
        BY <1>G, <3>4, <3>5
    <2> QED
      BY <2>1, <2>2, InductionTo
  <1>f. PICK f : f = [i \in 1 .. h |-> CHOOSE q \in DOMAIN K : K[q] = h - i]
    OBVIOUS
  <1>3. \A i \in 1 .. h : f[i] \in DOMAIN K /\ K[f[i]] = h - i
    <2>1. ASSUME NEW i \in 1 .. h PROVE f[i] \in DOMAIN K /\ K[f[i]] = h - i
      <3>1. \E q \in DOMAIN K : K[q] = h - i
        BY <1>2, <1>G
      <3> QED
        BY <1>f, <3>1
    <2> QED
      BY <2>1
  <1>4. f \in Injection(1 .. h, 2 .. MaxPageNum - 1)
    <2>1. \A i \in 1 .. h : f[i] \in 2 .. MaxPageNum - 1
      BY <1>1, <1>3, MaxPageNumAssumption DEF PageIds, InitialPages
    <2>2. \A i, j \in 1 .. h : f[i] = f[j] => i = j
      <3>1. \A i, j \in 1 .. h : h - i = h - j => i = j
        OBVIOUS
      <3> QED
        BY <1>3, <3>1
    <2>3. f \in [1 .. h -> 2 .. MaxPageNum - 1]
      BY <1>f, <2>1
    <2> QED
      BY <2>2, <2>3 DEF Injection, IsInjective
  <1>5. /\ IsFiniteSet(2 .. MaxPageNum - 1) /\ Cardinality(2 .. MaxPageNum - 1) = MaxPageNum - 2
        /\ Cardinality(1 .. h) = h
    <2>1. MaxPageNum - 1 \in Int
      BY MaxPageNumAssumption
    <2>2. /\ IsFiniteSet(2 .. MaxPageNum - 1)
          /\ Cardinality(2 .. MaxPageNum - 1)
             = IF 2 > MaxPageNum - 1 THEN 0 ELSE (MaxPageNum - 1) - 2 + 1
      BY <2>1, FS_Interval
    <2>3. Cardinality(1 .. h) = IF 1 > h THEN 0 ELSE h - 1 + 1
      BY FS_Interval
    <2> QED
      BY <2>2, <2>3, MaxPageNumAssumption
  <1>6. h <= MaxPageNum - 2
    BY <1>4, <1>5, FS_Injection
  <1> QED
    BY <1>1, <1>6, <1>h DEF MaxHeight

\* path is the way down to the leaf that k belongs to.
IsPath(N, K, t, k, path) ==
    /\ K[t] \in Nat /\ path \in Seq(PageIds) /\ Len(path) = K[t] + 1 /\ path[1] = t
    /\ \A d \in 1 .. K[t] + 1 : /\ path[d] \in DOMAIN K /\ K[path[d]] = (K[t] + 1) - d
                                /\ Home(N, K, path[d], k)
    /\ \A d \in 1 .. K[t] : /\ path[d + 1] = Son(N[path[d]], k)
                            /\ Slots(N[path[d]]) # {}

LEMMA PathFacts ==
    ASSUME NEW K, NEW C, Tree(node, K, root, used, C), NEW k \in Nat,
           NEW path, path = PathTo(k)
    PROVE  IsPath(node, K, root, k, path)
  <1>1. /\ Layered(node, K) /\ Exact(node, K, {}) /\ Whole(node, K, root, {}, {}, C)
        /\ root \in DOMAIN K /\ K[root] \in Nat
        /\ \A q \in DOMAIN K : /\ q \in PageIds /\ K[q] \in Nat /\ node[q] \in Nodes
                               /\ (node[q].leaf <=> K[q] = 0)
        /\ \A q \in DOMAIN K : K[q] > 0 \/ q # root => Slots(node[q]) # {}
        /\ \A q \in DOMAIN K : q # root => K[q] < K[root]
    <2>1. TreeParts(node, K, root, used, C)
      BY TreeFacts
    <2> QED
      BY <2>1, Zenon DEF TreeParts
  <1>h. PICK h \in Nat : h = K[root] + 1
    BY <1>1
  <1>n. PICK n \in Nat \ {0} : n = MaxHeight
    BY RoomAssumption, MaxPageNumAssumption DEF MaxHeight, RootPage, PageIds
  <1>2. h <= n /\ h >= 1
    BY <1>1, <1>h, <1>n, HeightFits
  <1>d. PICK down : down = [p \in PageIds |->
                               IF node[p].leaf \/ node[p].slots = << >>
                               THEN p ELSE Son(node[p], k)]
    OBVIOUS
  <1>a. PICK at : at = Iterates(down, root, n)
    OBVIOUS
  <1>3. DOMAIN at = 1 .. n /\ at[1] = root /\ \A d \in 2 .. n : at[d] = down[at[d - 1]]
    BY <1>a, IteratesDefined
  <1>4. ASSUME NEW p \in DOMAIN K, K[p] > 0, Home(node, K, p, k)
        PROVE  /\ down[p] = Son(node[p], k) /\ down[p] \in DOMAIN K
               /\ K[down[p]] = K[p] - 1 /\ Home(node, K, down[p], k)
               /\ Slots(node[p]) # {}
    <2>1. Slots(node[p]) # {} /\ ~node[p].leaf /\ p \in PageIds /\ node[p] \in Nodes
      BY <1>1, <1>4
    <2>2. node[p].slots # << >>
      BY <2>1, NodeFacts, SlotSets
    <2>3. down[p] = Son(node[p], k)
      BY <1>d, <2>1, <2>2
    <2>4. /\ Son(node[p], k) \in DOMAIN K /\ K[Son(node[p], k)] = K[p] - 1
          /\ Home(node, K, Son(node[p], k), k)
      BY <1>1, <1>4, <2>1, HomeOfSon
    <2> QED
      BY <2>1, <2>3, <2>4
  <1>G. PICK G : G = {d \in 1 .. n : /\ at[d] \in DOMAIN K /\ K[at[d]] = h - d
                                     /\ Home(node, K, at[d], k)}
    OBVIOUS
  <1>5. 1 .. h \subseteq G
    <2>1. 1 \in G
      <3>1. Home(node, K, root, k)
        <4>1. ASSUME NEW q PROVE ~Beside(K, root, q)
          BY <1>1 DEF Beside
        <4> QED
          BY <4>1 DEF Home
      <3> QED
        BY <1>1, <1>3, <1>G, <1>h, <3>1
    <2>2. ASSUME NEW d \in 1 .. h - 1, d \in G PROVE d + 1 \in G
      <3>1. at[d] \in DOMAIN K /\ K[at[d]] = h - d /\ Home(node, K, at[d], k)
        BY <1>G, <2>2
      <3>2. K[at[d]] > 0
        BY <3>1
      <3>3. at[d + 1] = down[at[d]] /\ d + 1 \in 1 .. n
        BY <1>2, <1>3
      <3>4. /\ at[d + 1] \in DOMAIN K /\ K[at[d + 1]] = K[at[d]] - 1
            /\ Home(node, K, at[d + 1], k)
        BY <1>4, <3>1, <3>2, <3>3
      <3>5. K[at[d + 1]] = h - (d + 1)
        BY <3>1, <3>4
      <3> QED
        BY <1>G, <3>3, <3>4, <3>5
    <2> QED
      BY <2>1, <2>2, InductionTo
  <1>6. \A d \in 1 .. h : /\ at[d] \in DOMAIN K /\ K[at[d]] = h - d
                          /\ Home(node, K, at[d], k)
    BY <1>G, <1>5
  <1>7. \A d \in 1 .. h - 1 : at[d + 1] = Son(node[at[d]], k) /\ Slots(node[at[d]]) # {}
    <2>1. ASSUME NEW d \in 1 .. h - 1
          PROVE  at[d + 1] = Son(node[at[d]], k) /\ Slots(node[at[d]]) # {}
      <3>1. at[d + 1] = down[at[d]]
        BY <1>2, <1>3
      <3>2. at[d] \in DOMAIN K /\ K[at[d]] > 0 /\ Home(node, K, at[d], k)
        BY <1>6
      <3> QED
        BY <1>4, <3>1, <3>2
    <2> QED
      BY <2>1
  <1>l. PICK leaves : leaves = {d \in DOMAIN at : node[at[d]].leaf}
    OBVIOUS
  <1>8. Min(leaves \cup {n}) = h
    <2>1. h \in leaves
      BY <1>1, <1>2, <1>3, <1>6, <1>l
    <2>2. \A d \in leaves : d >= h
      <3>1. ASSUME NEW d \in leaves, d < h PROVE FALSE
        <4>1. d \in 1 .. h /\ node[at[d]].leaf
          BY <1>3, <1>l, <3>1
        <4>2. at[d] \in DOMAIN K /\ K[at[d]] = h - d
          BY <1>6, <4>1
        <4> QED
          BY <1>1, <3>1, <4>1, <4>2
      <3> QED
        BY <1>3, <1>l, <3>1
    <2>T. PICK T : T = leaves \cup {n}
      OBVIOUS
    <2>t. T \in SUBSET Nat /\ T # {}
      BY <1>3, <1>l, <2>T
    <2>3. Min(T) \in T /\ \A y \in T : Min(T) <= y
      BY <2>t, MinNumber
    <2>4. Min(T) <= h /\ Min(T) >= h /\ Min(T) \in Nat
      <3>1. h \in T
        BY <2>1, <2>T
      <3>2. \A y \in T : y \in Nat /\ y >= h
        BY <1>2, <2>2, <2>t, <2>T
      <3> QED
        BY <2>3, <3>1, <3>2
    <2> QED
      BY <2>4, <2>T
  <1>9. path = [d \in 1 .. h |-> at[d]]
    BY <1>8, <1>a, <1>d, <1>l, <1>n, Zenon DEF PathTo
  <1>10. path \in Seq(PageIds) /\ Len(path) = h /\ \A d \in 1 .. h : path[d] = at[d]
    <2>1. \A d \in 1 .. h : at[d] \in PageIds
      BY <1>1, <1>6
    <2> QED
      BY <1>9, <2>1
  <1>11. /\ K[root] \in Nat /\ path \in Seq(PageIds) /\ Len(path) = K[root] + 1
         /\ path[1] = root
    BY <1>1, <1>2, <1>3, <1>10, <1>h
  <1>12. \A d \in 1 .. K[root] + 1 : /\ path[d] \in DOMAIN K /\ K[path[d]] = (K[root] + 1) - d
                                     /\ Home(node, K, path[d], k)
    BY <1>6, <1>10, <1>h
  <1>13. \A d \in 1 .. K[root] : /\ path[d + 1] = Son(node[path[d]], k)
                                 /\ Slots(node[path[d]]) # {}
    <2>1. ASSUME NEW d \in 1 .. K[root]
          PROVE  path[d + 1] = Son(node[path[d]], k) /\ Slots(node[path[d]]) # {}
      <3>1. d \in 1 .. h - 1 /\ d \in 1 .. h /\ d + 1 \in 1 .. h
        BY <1>1, <1>h
      <3> QED
        BY <1>7, <1>10, <3>1
    <2> QED
      BY <2>1
  <1> QED
    BY <1>11, <1>12, <1>13, Zenon DEF IsPath
-----------------------------------------------------------------------------
(* Insertion.                                                                 *)

\* The entries are the keys that containsEntry finds.
LEMMA ContainsFacts ==
    ASSUME NEW K, NEW C, Tree(node, K, root, used, C), NEW k \in Nat
    PROVE  ContainsEntry(k) <=> k \in C
  <1>a. PICK path : path = PathTo(k)
    OBVIOUS
  <1>p. PICK p : p = path[Len(path)]
    OBVIOUS
  <1>1. /\ Layered(node, K) /\ Whole(node, K, root, {}, {}, C)
        /\ \A q \in DOMAIN K : node[q] \in Nodes /\ Increasing(node[q])
    <2>1. TreeParts(node, K, root, used, C)
      BY TreeFacts
    <2> QED
      BY <2>1, Zenon DEF TreeParts
  <1>2. p \in DOMAIN K /\ K[p] = 0 /\ Home(node, K, p, k)
    <2>1. IsPath(node, K, root, k, path)
      BY <1>a, PathFacts
    <2>2. /\ K[root] \in Nat /\ Len(path) = K[root] + 1
          /\ \A d \in 1 .. K[root] + 1 : /\ path[d] \in DOMAIN K
                                         /\ K[path[d]] = (K[root] + 1) - d
                                         /\ Home(node, K, path[d], k)
      BY <2>1, Zenon DEF IsPath
    <2>3. K[root] + 1 \in 1 .. K[root] + 1 /\ (K[root] + 1) - (K[root] + 1) = 0
      BY <2>2
    <2> QED
      BY <1>p, <2>2, <2>3
  <1>3. k \in C <=> k \in Keys(node[p])
    BY <1>1, <1>2, HomeLeaf
  <1>i. PICK i : i = LowerBound(node[p], k)
    OBVIOUS
  <1>4. ContainsEntry(k) <=> i <= Count(node[p]) /\ KeyIn(node[p], i) = k
    BY <1>a, <1>i, <1>p, Zenon DEF ContainsEntry, LeafOf, Last, Count, KeyIn
  <1>5. i \in 1 .. Count(node[p]) + 1 /\ Count(node[p]) \in Nat
    BY <1>1, <1>2, <1>i, LowerBoundFacts, NodeFacts
  <1>6. k \in Keys(node[p]) <=> i <= Count(node[p]) /\ KeyIn(node[p], i) = k
    <2>1. ASSUME k \in Keys(node[p]) PROVE i <= Count(node[p]) /\ KeyIn(node[p], i) = k
      <3>1. PICK j \in 1 .. Count(node[p]) : k = KeyIn(node[p], j)
        BY <2>1 DEF Keys, Slots, KeyIn
      <3>2. i = j
        BY <1>1, <1>2, <1>i, <3>1, LowerBoundFinds
      <3> QED
        BY <3>1, <3>2
    <2>2. ASSUME i <= Count(node[p]), KeyIn(node[p], i) = k PROVE k \in Keys(node[p])
      <3>1. i \in 1 .. Count(node[p])
        BY <1>5, <2>2
      <3> QED
        BY <1>1, <1>2, <2>2, <3>1, SlotSets
    <2> QED
      BY <2>1, <2>2
  <1> QED
    BY <1>3, <1>4, <1>6

InsertStart == [node |-> node, used |-> used, split |-> FALSE, other |-> 0, mid |-> 0,
                fails |-> FALSE]

\* The results of the calls of insertEntry(node), from the leaf of path upwards.
Inserting(g, k, path, m) ==
    g = [d \in 0 .. m |-> IF d = 0 THEN InsertStart
                          ELSE InsertStep(k, path[Len(path) + 1 - d], g[d - 1])]

InsertCalls(g, k, path, n) ==
    /\ g[0] = InsertStart
    /\ \A d \in 1 .. n : g[d] = InsertStep(k, path[n + 1 - d], g[d - 1])
    /\ InsertResult(k) = g[n]

LEMMA InsertDefined ==
    ASSUME NEW k, NEW path, path = PathTo(k), NEW n \in Nat \ {0}, n = Len(path)
    PROVE  \E g : InsertCalls(g, k, path, n)
  <1> DEFINE Step(d, b) == InsertStep(k, path[Len(path) + 1 - d], b)
  <1> DEFINE Rec(g, m) == g = [d \in 0 .. m |-> IF d = 0 THEN InsertStart
                                                ELSE Step(d, g[d - 1])]
  <1> DEFINE Good == {m \in Nat \ {0} : \E g : Rec(g, m)}
  <1>0. \A g : Rec(g, n) <=> Inserting(g, k, path, n)
    BY Zenon DEF Inserting
  <1>1. 1 .. n \subseteq Good
    <2> HIDE DEF Step
    <2>1. 1 \in Good
      <3>g. PICK g : g = [d \in 0 .. 1 |-> IF d = 0 THEN InsertStart
                                           ELSE Step(1, InsertStart)]
        OBVIOUS
      <3>1. DOMAIN g = 0 .. 1 /\ g[0] = InsertStart /\ g[1] = Step(1, InsertStart)
        BY <3>g
      <3>2. \A d \in 0 .. 1 : g[d] = IF d = 0 THEN InsertStart ELSE Step(d, g[d - 1])
        BY <3>1
      <3>3. Rec(g, 1)
        BY <3>g, <3>2
      <3> QED
        BY <3>3
    <2>2. ASSUME NEW m \in Nat \ {0}, m \in Good PROVE m + 1 \in Good
      <3>g. PICK g : Rec(g, m)
        BY <2>2
      <3>1. /\ DOMAIN g = 0 .. m
            /\ \A d \in 0 .. m : g[d] = IF d = 0 THEN InsertStart ELSE Step(d, g[d - 1])
        BY <3>g
      <3>h. PICK h : h = [d \in 0 .. m + 1 |-> IF d = m + 1 THEN Step(m + 1, g[m])
                                               ELSE g[d]]
        OBVIOUS
      <3>2. \A d \in 0 .. m + 1 : h[d] = IF d = 0 THEN InsertStart ELSE Step(d, h[d - 1])
        BY <3>1, <3>h
      <3>3. Rec(h, m + 1)
        BY <3>h, <3>2
      <3>4. m + 1 \in Nat \ {0}
        OBVIOUS
      <3> HIDE DEF Rec
      <3> QED
        BY <3>3, <3>4, Zenon
    <2> HIDE DEF Good
    <2> QED
      BY <2>1, <2>2, InductionTo
  <1>2. \E g : Inserting(g, k, path, n)
    BY <1>0, <1>1
  <1> HIDE DEF Step, Rec, Good
  <1>r. PICK r : r = CHOOSE g : Inserting(g, k, path, n)
    OBVIOUS
  <1>3. Inserting(r, k, path, n)
    BY <1>2, <1>r, Zenon
  <1>4. InsertResult(k) = r[n]
    BY <1>r, Zenon DEF InsertResult, Inserting, InsertStart
  <1>5. /\ r[0] = InsertStart
        /\ \A d \in 1 .. n : r[d] = InsertStep(k, path[n + 1 - d], r[d - 1])
    <2> DEFINE S(d, b) == InsertStep(k, path[n + 1 - d], b)
    <2>1. r = [d \in 0 .. n |-> IF d = 0 THEN InsertStart ELSE S(d, r[d - 1])]
      BY <1>3, Zenon DEF Inserting
    <2> HIDE DEF S
    <2>2. r[0] = InsertStart /\ \A d \in 1 .. n : r[d] = S(d, r[d - 1])
      BY <2>1
    <2> QED
      BY <2>2 DEF S
  <1> QED
    BY <1>4, <1>5, Zenon DEF InsertCalls

LEMMA InsertStepFlags ==
    ASSUME NEW b, NEW p, NEW k, NEW r, r = InsertStep(k, p, b)
    PROVE  r.split \in BOOLEAN /\ (~r.fails => ~b.fails)
  BY Zenon DEF InsertStep

\* The call of insertEntry(node) on page p has grown the tree, or it fails.
GrownBy(b, K, C, k, p) ==
    ~b.fails => /\ b.split \in BOOLEAN
                /\ \E L : Grown(node, K, root, C \cup {k}, k, b, L, p)

\* What insertEntry does on a page with the pages M it has got there.
LEMMA GrowStep ==
    ASSUME NEW K, NEW C, NEW k, NEW p \in PageIds, NEW b, b.node \in [PageIds -> Nodes],
           NEW L, NEW M, Puts(b.node, M, p, Entered(k, b.node[p], b)),
           Filling(node, K, root, C \cup {k}, k, M, L, b.used, p),
           NEW r, r = InsertStep(k, p, b)
    PROVE  GrownBy(r, K, C, k, p)
  <1>1. r.split \in BOOLEAN
    BY InsertStepFlags
  <1>2. ASSUME ~r.fails PROVE \E J : Grown(node, K, root, C \cup {k}, k, r, J, p)
    <2>1. SplitsFull(M, b.used, p, r)
      BY <1>2, InsertStepFacts
    <2> QED
      BY <2>1, GrowPage
  <1> QED
    BY <1>1, <1>2, Zenon DEF GrownBy

LEMMA InsertReturns ==
    ASSUME NEW K, NEW C, Tree(node, K, root, used, C), NEW k \in Entries, k \notin C,
           NEW path, path = PathTo(k), NEW n, n = Len(path), NEW g, g[0] = InsertStart,
           \A d \in 1 .. n : g[d] = InsertStep(k, path[n + 1 - d], g[d - 1])
    PROVE  GrownBy(g[n], K, C, k, root)
  <1>0. k \in Nat
    BY EntriesAreNumbers
  <1>1. /\ Layered(node, K) /\ Exact(node, K, {}) /\ Whole(node, K, root, {}, {}, C)
        /\ node \in [PageIds -> Nodes]
        /\ \A q \in DOMAIN K : q \in PageIds
    <2>1. TreeParts(node, K, root, used, C)
      BY TreeFacts
    <2> QED
      BY <2>1, Zenon DEF TreeParts
  <1>2. /\ K[root] \in Nat /\ n = K[root] + 1 /\ path[1] = root
        /\ \A d \in 1 .. n : /\ path[d] \in DOMAIN K /\ K[path[d]] = n - d
                             /\ Home(node, K, path[d], k)
        /\ \A d \in 1 .. n - 1 : /\ path[d + 1] = Son(node[path[d]], k)
                                 /\ Slots(node[path[d]]) # {}
    <2>1. IsPath(node, K, root, k, path)
      BY <1>0, PathFacts
    <2>2. /\ K[root] \in Nat /\ n = K[root] + 1 /\ path[1] = root
          /\ \A d \in 1 .. K[root] + 1 : /\ path[d] \in DOMAIN K
                                         /\ K[path[d]] = (K[root] + 1) - d
                                         /\ Home(node, K, path[d], k)
          /\ \A d \in 1 .. K[root] : /\ path[d + 1] = Son(node[path[d]], k)
                                     /\ Slots(node[path[d]]) # {}
      BY <2>1, Zenon DEF IsPath
    <2>3. n - 1 = K[root]
      BY <2>2
    <2> QED
      BY <2>2, <2>3
  <1>G. PICK G : G = {d \in 1 .. n : GrownBy(g[d], K, C, k, path[n + 1 - d])}
    OBVIOUS
  <1>3. 1 \in G
    <2>p. PICK p : p = path[n]
      OBVIOUS
    <2>1. p \in DOMAIN K /\ K[p] = 0 /\ Home(node, K, p, k) /\ p \in PageIds
      BY <1>1, <1>2, <2>p
    <2>b. PICK b : b = g[0]
      OBVIOUS
    <2>2. b.node = node /\ b.used = used
      BY <2>b DEF InsertStart
    <2>M. PICK M : Puts(b.node, M, p, Entered(k, b.node[p], b))
      BY DEF Puts
    <2>3. Sized(node, {}) /\ Takes(K, b.used)
      BY <2>2 DEF Tree
    <2>4. Filling(node, K, root, C \cup {k}, k, M, K, b.used, p)
      BY <1>1, <2>1, <2>2, <2>3, <2>M, GrowLeaf
    <2>5. 1 \in 1 .. n /\ (n + 1) - 1 = n /\ 1 - 1 = 0
      BY <1>2
    <2>6. g[1] = InsertStep(k, p, b)
      BY <2>5, <2>b, <2>p
    <2>7. b.node \in [PageIds -> Nodes]
      BY <1>1, <2>2
    <2>8. GrownBy(g[1], K, C, k, p)
      BY <2>1, <2>4, <2>6, <2>7, <2>M, GrowStep
    <2> QED
      BY <1>G, <2>5, <2>8, <2>p
  <1>4. ASSUME NEW d \in 1 .. n - 1, d \in G PROVE d + 1 \in G
    <2>p. PICK p : p = path[n - d]
      OBVIOUS
    <2>c. PICK c : c = path[(n - d) + 1]
      OBVIOUS
    <2>b. PICK b : b = g[d]
      OBVIOUS
    <2>r. PICK r : r = g[d + 1]
      OBVIOUS
    <2>1. /\ n - d \in 1 .. n - 1 /\ n - d \in 1 .. n /\ d + 1 \in 1 .. n
          /\ (n + 1) - (d + 1) = n - d /\ (n + 1) - d = (n - d) + 1 /\ (d + 1) - 1 = d
      BY <1>2
    <2>2. /\ p \in DOMAIN K /\ K[p] > 0 /\ Home(node, K, p, k) /\ p \in PageIds
          /\ c = Son(node[p], k) /\ Slots(node[p]) # {}
      <3>1. n - (n - d) > 0
        BY <1>2
      <3> QED
        BY <1>1, <1>2, <2>1, <2>c, <2>p, <3>1
    <2>3. r = InsertStep(k, p, b)
      BY <2>1, <2>b, <2>p, <2>r
    <2>4. GrownBy(b, K, C, k, c)
      BY <1>4, <1>G, <2>1, <2>b, <2>c
    <2>5. GrownBy(r, K, C, k, p)
      <3>1. CASE ~r.fails
        <4>1. ~b.fails
          BY <2>3, <3>1, InsertStepFlags
        <4>2. b.split \in BOOLEAN /\ \E L : Grown(node, K, root, C \cup {k}, k, b, L, c)
          BY <2>4, <4>1, Zenon DEF GrownBy
        <4>L. PICK L : Grown(node, K, root, C \cup {k}, k, b, L, c)
          BY <4>2
        <4>M. PICK M : Puts(b.node, M, p, Entered(k, b.node[p], b))
          BY DEF Puts
        <4>3. Filling(node, K, root, C \cup {k}, k, M, L, b.used, p)
          BY <1>1, <2>2, <4>2, <4>L, <4>M, GrowInner
        <4>4. b.node \in [PageIds -> Nodes]
          BY <4>L DEF Grown, Mid, Layered
        <4> QED
          BY <2>2, <2>3, <4>3, <4>4, <4>M, GrowStep
      <3> QED
        BY <3>1, Zenon DEF GrownBy
    <2> QED
      BY <1>G, <2>1, <2>5, <2>p, <2>r
  <1>5. n \in G
    <2>1. n \in Nat /\ n \in 1 .. n
      BY <1>2
    <2>2. 1 .. n \subseteq G
      BY <1>3, <1>4, <2>1, InductionTo
    <2> QED
      BY <2>1, <2>2
  <1>6. (n + 1) - n = 1
    BY <1>2
  <1>7. GrownBy(g[n], K, C, k, path[(n + 1) - n])
    BY <1>5, <1>G
  <1> QED
    BY <1>2, <1>6, <1>7

\* An insertion makes a tree with the new entry.
LEMMA InsertTree ==
    ASSUME NEW K, NEW C, Tree(node, K, root, used, C), NEW k \in Entries, InsertEntry(k)
    PROVE  /\ k \notin C
           /\ \E J : Tree(node', J, root', used', C \cup {k})
           /\ (sysRoot = root => sysRoot' = root')
  <1>0. k \in Nat
    BY EntriesAreNumbers
  <1>1. k \notin C
    <2>1. ~ContainsEntry(k)
      BY Zenon DEF InsertEntry
    <2> QED
      BY <1>0, <2>1, ContainsFacts
  <1>a. PICK path : path = PathTo(k)
    OBVIOUS
  <1>n. PICK n \in Nat \ {0} : n = Len(path)
    <2>1. IsPath(node, K, root, k, path)
      BY <1>0, <1>a, PathFacts
    <2>2. K[root] \in Nat /\ Len(path) = K[root] + 1
      BY <2>1, Zenon DEF IsPath
    <2> QED
      BY <2>2
  <1>g. PICK g : /\ g[0] = InsertStart
                 /\ \A d \in 1 .. n : g[d] = InsertStep(k, path[n + 1 - d], g[d - 1])
                 /\ InsertResult(k) = g[n]
    <2>1. \E g : InsertCalls(g, k, path, n)
      BY <1>a, <1>n, InsertDefined
    <2> QED
      BY <2>1, Zenon DEF InsertCalls
  <1>r. PICK r : r = InsertResult(k)
    OBVIOUS
  <1>2. GrownBy(r, K, C, k, root)
    BY <1>1, <1>a, <1>g, <1>n, <1>r, InsertReturns
  <1>p. PICK p : p = NewPage(r.used)
    OBVIOUS
  <1>3. /\ ~r.fails
        /\ r.split => /\ HasFreePage(r.used) /\ used' = r.used \cup {p}
                      /\ node' = [r.node EXCEPT ![p] = NewRoot(r)]
                      /\ root' = p /\ sysRoot' = p
        /\ ~r.split => /\ used' = r.used /\ node' = r.node
                       /\ root' = root /\ sysRoot' = sysRoot
    BY <1>p, <1>r, Zenon DEF InsertEntry, UpdateRoot
  <1>L. PICK L : Grown(node, K, root, C \cup {k}, k, r, L, root)
    BY <1>2, <1>3, Zenon DEF GrownBy
  <1>4. CASE r.split
    <2>1. NewRoot(r) = TwoSons(root, Least(r.node[root]), r.other, r.mid)
      BY Zenon DEF NewRoot, TwoSons, Least, KeyIn
    <2>2. Puts(r.node, node', p, TwoSons(root, Least(r.node[root]), r.other, r.mid))
      BY <1>3, <1>4, <2>1, Zenon DEF Puts
    <2>3. \E J : Tree(node', J, p, r.used \cup {p}, C \cup {k})
      BY <1>3, <1>4, <1>L, <1>p, <2>2, GrownRoot
    <2>4. \E J : Tree(node', J, root', used', C \cup {k})
      BY <1>3, <1>4, <2>3, Zenon
    <2> QED
      BY <1>1, <1>3, <1>4, <2>4, Zenon
  <1>5. CASE ~r.split
    <2>1. Tree(r.node, L, root, r.used, C \cup {k})
      BY <1>5, <1>L, GrownTree
    <2>2. Tree(node', L, root', used', C \cup {k})
      BY <1>3, <1>5, <2>1, Zenon
    <2> QED
      BY <1>1, <1>3, <1>5, <2>2, Zenon
  <1> QED
    BY <1>4, <1>5
-----------------------------------------------------------------------------
(* Deletion.                                                                  *)

DeleteStart == [node |-> node, used |-> used, root |-> root, min |-> 0,
                merge |-> FALSE]

\* The results of the calls of deleteEntry(node), from the leaf of path upwards.
Deleting(g, k, path, m) ==
    g = [d \in 0 .. m |-> IF d = 0 THEN DeleteStart
                          ELSE DeleteStep(k, path[Len(path) + 1 - d], g[d - 1])]

DeleteCalls(g, k, path, n) ==
    /\ g[0] = DeleteStart
    /\ \A d \in 1 .. n : g[d] = DeleteStep(k, path[n + 1 - d], g[d - 1])
    /\ DeleteResult(k) = g[n]

LEMMA DeleteDefined ==
    ASSUME NEW k, NEW path, path = PathTo(k), NEW n \in Nat \ {0}, n = Len(path)
    PROVE  \E g : DeleteCalls(g, k, path, n)
  <1> DEFINE Step(d, b) == DeleteStep(k, path[Len(path) + 1 - d], b)
  <1> DEFINE Rec(g, m) == g = [d \in 0 .. m |-> IF d = 0 THEN DeleteStart
                                                ELSE Step(d, g[d - 1])]
  <1> DEFINE Good == {m \in Nat \ {0} : \E g : Rec(g, m)}
  <1>0. \A g : Rec(g, n) <=> Deleting(g, k, path, n)
    BY Zenon DEF Deleting
  <1>1. 1 .. n \subseteq Good
    <2> HIDE DEF Step
    <2>1. 1 \in Good
      <3>g. PICK g : g = [d \in 0 .. 1 |-> IF d = 0 THEN DeleteStart
                                           ELSE Step(1, DeleteStart)]
        OBVIOUS
      <3>1. DOMAIN g = 0 .. 1 /\ g[0] = DeleteStart /\ g[1] = Step(1, DeleteStart)
        BY <3>g
      <3>2. \A d \in 0 .. 1 : g[d] = IF d = 0 THEN DeleteStart ELSE Step(d, g[d - 1])
        BY <3>1
      <3>3. Rec(g, 1)
        BY <3>g, <3>2
      <3> QED
        BY <3>3
    <2>2. ASSUME NEW m \in Nat \ {0}, m \in Good PROVE m + 1 \in Good
      <3>g. PICK g : Rec(g, m)
        BY <2>2
      <3>1. /\ DOMAIN g = 0 .. m
            /\ \A d \in 0 .. m : g[d] = IF d = 0 THEN DeleteStart ELSE Step(d, g[d - 1])
        BY <3>g
      <3>h. PICK h : h = [d \in 0 .. m + 1 |-> IF d = m + 1 THEN Step(m + 1, g[m])
                                               ELSE g[d]]
        OBVIOUS
      <3>2. \A d \in 0 .. m + 1 : h[d] = IF d = 0 THEN DeleteStart ELSE Step(d, h[d - 1])
        BY <3>1, <3>h
      <3>3. Rec(h, m + 1)
        BY <3>h, <3>2
      <3>4. m + 1 \in Nat \ {0}
        OBVIOUS
      <3> HIDE DEF Rec
      <3> QED
        BY <3>3, <3>4, Zenon
    <2> HIDE DEF Good
    <2> QED
      BY <2>1, <2>2, InductionTo
  <1>2. \E g : Deleting(g, k, path, n)
    BY <1>0, <1>1
  <1> HIDE DEF Step, Rec, Good
  <1>r. PICK r : r = CHOOSE g : Deleting(g, k, path, n)
    OBVIOUS
  <1>3. Deleting(r, k, path, n)
    BY <1>2, <1>r, Zenon
  <1>4. DeleteResult(k) = r[n]
    BY <1>r, Zenon DEF DeleteResult, Deleting, DeleteStart
  <1>5. /\ r[0] = DeleteStart
        /\ \A d \in 1 .. n : r[d] = DeleteStep(k, path[n + 1 - d], r[d - 1])
    <2> DEFINE S(d, b) == DeleteStep(k, path[n + 1 - d], b)
    <2>1. r = [d \in 0 .. n |-> IF d = 0 THEN DeleteStart ELSE S(d, r[d - 1])]
      BY <1>3, Zenon DEF Deleting
    <2> HIDE DEF S
    <2>2. r[0] = DeleteStart /\ \A d \in 1 .. n : r[d] = S(d, r[d - 1])
      BY <2>1
    <2> QED
      BY <2>2 DEF S
  <1> QED
    BY <1>4, <1>5, Zenon DEF DeleteCalls

\* The call of deleteEntry(node) on page p has shrunk the tree, or made it lose
\* its root.
ShrunkBy(b, K, C, k, p) ==
    \/ \E L : Shrunk(node, K, root, C \ {k}, b, used, L, p)
    \/ p = root /\ Deleted(C \ {k}, b)

LEMMA DeleteReturns ==
    ASSUME NEW K, NEW C, Tree(node, K, root, used, C), NEW k \in Entries, k \in C,
           NEW path, path = PathTo(k), NEW n, n = Len(path), NEW g, g[0] = DeleteStart,
           \A d \in 1 .. n : g[d] = DeleteStep(k, path[n + 1 - d], g[d - 1])
    PROVE  ShrunkBy(g[n], K, C, k, root)
  <1>0. k \in Nat
    BY EntriesAreNumbers
  <1>1. /\ Layered(node, K) /\ Exact(node, K, {}) /\ Whole(node, K, root, {}, {}, C)
        /\ node \in [PageIds -> Nodes] /\ root \in DOMAIN K /\ K[root] \in Nat
        /\ \A q \in DOMAIN K : /\ q \in PageIds /\ K[q] \in Nat /\ K[q] <= K[root]
                               /\ (node[q].leaf <=> K[q] = 0)
    <2>1. TreeParts(node, K, root, used, C)
      BY TreeFacts
    <2> QED
      BY <2>1, Zenon DEF TreeParts
  <1>2. /\ K[root] \in Nat /\ n = K[root] + 1 /\ path[1] = root
        /\ \A d \in 1 .. n : /\ path[d] \in DOMAIN K /\ K[path[d]] = n - d
                             /\ Home(node, K, path[d], k)
        /\ \A d \in 1 .. n - 1 : /\ path[d + 1] = Son(node[path[d]], k)
                                 /\ Slots(node[path[d]]) # {}
    <2>1. IsPath(node, K, root, k, path)
      BY <1>0, PathFacts
    <2>2. /\ K[root] \in Nat /\ n = K[root] + 1 /\ path[1] = root
          /\ \A d \in 1 .. K[root] + 1 : /\ path[d] \in DOMAIN K
                                         /\ K[path[d]] = (K[root] + 1) - d
                                         /\ Home(node, K, path[d], k)
          /\ \A d \in 1 .. K[root] : /\ path[d + 1] = Son(node[path[d]], k)
                                     /\ Slots(node[path[d]]) # {}
      BY <2>1, Zenon DEF IsPath
    <2>3. n - 1 = K[root]
      BY <2>2
    <2> QED
      BY <2>2, <2>3
  <1>G. PICK G : G = {d \in 1 .. n : ShrunkBy(g[d], K, C, k, path[n + 1 - d])}
    OBVIOUS
  <1>3. 1 \in G
    <2>p. PICK p : p = path[n]
      OBVIOUS
    <2>1. /\ p \in DOMAIN K /\ K[p] = 0 /\ Home(node, K, p, k) /\ p \in PageIds
          /\ node[p].leaf
      BY <1>1, <1>2, <2>p
    <2>b. PICK b : b = g[0]
      OBVIOUS
    <2>2. IsResult(b) /\ b.node = node /\ b.used = used /\ b.root = root
      BY <2>b DEF DeleteStart, IsResult
    <2>M. PICK M : Puts(node, M, p, RemoveSlot(node[p], LowerBound(node[p], k)))
      BY DEF Puts
    <2>3. Sized(node, {}) /\ Takes(K, used)
      BY DEF Tree
    <2>4. Shrinking(node, K, root, C \ {k}, M, K, used, p)
      BY <1>1, <2>1, <2>3, <2>M, ShrinkLeaf
    <2>5. 1 \in 1 .. n /\ (n + 1) - 1 = n /\ 1 - 1 = 0
      BY <1>2
    <2>6. g[1] = DeleteStep(k, p, b)
      BY <2>5, <2>b, <2>p
    <2>7. g[1] = Reported(b, M, p, k)
      BY <2>1, <2>2, <2>6, <2>M, Zenon DEF DeleteStep, Puts
    <2>8. Shrunk(node, K, root, C \ {k}, g[1], used, K, p)
      BY <2>2, <2>4, <2>7, Report
    <2>9. ShrunkBy(g[1], K, C, k, p)
      BY <2>8, Zenon DEF ShrunkBy
    <2> QED
      BY <1>G, <2>5, <2>9, <2>p
  <1>4. ASSUME NEW d \in 1 .. n - 1, d \in G PROVE d + 1 \in G
    <2>p. PICK p : p = path[n - d]
      OBVIOUS
    <2>c. PICK c : c = path[(n - d) + 1]
      OBVIOUS
    <2>b. PICK b : b = g[d]
      OBVIOUS
    <2>r. PICK r : r = g[d + 1]
      OBVIOUS
    <2>1. /\ n - d \in 1 .. n - 1 /\ n - d \in 1 .. n /\ d + 1 \in 1 .. n
          /\ (n - d) + 1 \in 1 .. n
          /\ (n + 1) - (d + 1) = n - d /\ (n + 1) - d = (n - d) + 1 /\ (d + 1) - 1 = d
      BY <1>2
    <2>2. /\ p \in DOMAIN K /\ K[p] > 0 /\ Home(node, K, p, k) /\ p \in PageIds
          /\ K[p] <= K[root] /\ c = Son(node[p], k) /\ Slots(node[p]) # {}
      <3>1. n - (n - d) > 0
        BY <1>2
      <3> QED
        BY <1>1, <1>2, <2>1, <2>c, <2>p, <3>1
    <2>3. r = DeleteStep(k, p, b)
      BY <2>1, <2>b, <2>p, <2>r
    <2>4. ShrunkBy(b, K, C, k, c)
      BY <1>4, <1>G, <2>1, <2>b, <2>c
    <2>5. c # root
      <3>1. K[c] = n - ((n - d) + 1)
        BY <1>2, <2>1, <2>c
      <3>2. n - ((n - d) + 1) # K[root]
        BY <1>2
      <3> QED
        BY <3>1, <3>2
    <2>L. PICK L : Shrunk(node, K, root, C \ {k}, b, used, L, c)
      BY <2>4, <2>5, Zenon DEF ShrunkBy
    <2>6. \/ \E J : Shrunk(node, K, root, C \ {k}, r, used, J, p)
          \/ p = root /\ Deleted(C \ {k}, r)
      BY <1>1, <2>2, <2>3, <2>L, ShrinkInner
    <2>7. ShrunkBy(r, K, C, k, p)
      BY <2>6, Zenon DEF ShrunkBy
    <2> QED
      BY <1>G, <2>1, <2>7, <2>p, <2>r
  <1>5. n \in G
    <2>1. n \in Nat /\ n \in 1 .. n
      BY <1>2
    <2>2. 1 .. n \subseteq G
      BY <1>3, <1>4, <2>1, InductionTo
    <2> QED
      BY <2>1, <2>2
  <1>6. (n + 1) - n = 1
    BY <1>2
  <1>7. ShrunkBy(g[n], K, C, k, path[(n + 1) - n])
    BY <1>5, <1>G
  <1> QED
    BY <1>2, <1>6, <1>7

\* A deletion makes a tree without the entry.
LEMMA DeleteTree ==
    ASSUME NEW K, NEW C, Tree(node, K, root, used, C), NEW k \in Entries, DeleteEntry(k)
    PROVE  /\ k \in C
           /\ \E J : Tree(node', J, root', used', C \ {k})
           /\ (sysRoot = root => sysRoot' = root')
  <1>0. k \in Nat
    BY EntriesAreNumbers
  <1>1. k \in C
    <2>1. ContainsEntry(k)
      BY Zenon DEF DeleteEntry
    <2> QED
      BY <1>0, <2>1, ContainsFacts
  <1>a. PICK path : path = PathTo(k)
    OBVIOUS
  <1>n. PICK n \in Nat \ {0} : n = Len(path)
    <2>1. IsPath(node, K, root, k, path)
      BY <1>0, <1>a, PathFacts
    <2>2. K[root] \in Nat /\ Len(path) = K[root] + 1
      BY <2>1, Zenon DEF IsPath
    <2> QED
      BY <2>2
  <1>g. PICK g : /\ g[0] = DeleteStart
                 /\ \A d \in 1 .. n : g[d] = DeleteStep(k, path[n + 1 - d], g[d - 1])
                 /\ DeleteResult(k) = g[n]
    <2>1. \E g : DeleteCalls(g, k, path, n)
      BY <1>a, <1>n, DeleteDefined
    <2> QED
      BY <2>1, Zenon DEF DeleteCalls
  <1>r. PICK r : r = DeleteResult(k)
    OBVIOUS
  <1>2. ShrunkBy(r, K, C, k, root)
    BY <1>1, <1>a, <1>g, <1>n, <1>r, DeleteReturns
  <1>3. Deleted(C \ {k}, r)
    <2>1. ASSUME NEW L, Shrunk(node, K, root, C \ {k}, r, used, L, root)
          PROVE  Deleted(C \ {k}, r)
      BY <2>1, ShrunkTree
    <2> QED
      BY <1>2, <2>1, Zenon DEF ShrunkBy
  <1>4. /\ node' = r.node /\ used' = r.used
        /\ IF r.root # root THEN root' = r.root /\ sysRoot' = r.root
                            ELSE root' = root /\ sysRoot' = sysRoot
    BY <1>r, Zenon DEF DeleteEntry, UpdateRoot
  <1>5. root' = r.root /\ (sysRoot = root => sysRoot' = root')
    BY <1>4, Zenon
  <1> QED
    BY <1>1, <1>3, <1>4, <1>5, Zenon DEF Deleted
-----------------------------------------------------------------------------
(* The inductive invariant: the pages form a tree.                            *)

IInv == sysRoot = root /\ \E K, C : Tree(node, K, root, used, C)

LEMMA InitIInv == Init => IInv
  <1> SUFFICES ASSUME Init PROVE IInv
    OBVIOUS
  <1>1. /\ used = InitialPages \cup {RootPage} /\ node = [p \in PageIds |-> EmptyLeaf]
        /\ root = RootPage /\ sysRoot = RootPage
    BY Zenon DEF Init
  <1>2. RootPage \in PageIds \ InitialPages /\ 0 \in PageIds /\ InitialPages \subseteq PageIds
    BY RoomAssumption, MaxPageNumAssumption DEF RootPage, InitialPages, PageIds
  <1>K. PICK K : K = [q \in {RootPage} |-> 0]
    OBVIOUS
  <1>n. PICK n : n = EmptyLeaf
    OBVIOUS
  <1>3. /\ n \in Nodes /\ n.leaf /\ n.next = NoNode /\ Count(n) = 0 /\ Slots(n) = {}
        /\ Keys(n) = {} /\ Increasing(n)
    <2>1. n.leaf = TRUE /\ n.slots = << >> /\ n.next = 0
      BY <1>n DEF EmptyLeaf, NoNode
    <2>2. n \in Nodes
      BY <1>2, <1>n DEF EmptyLeaf, NoNode, Nodes
    <2>3. Count(n) = 0
      BY <2>1 DEF Count
    <2> QED
      BY <2>1, <2>2, <2>3 DEF Slots, Keys, Increasing, NoNode
  <1>4. /\ \A p \in PageIds : node[p] = n
        /\ node \in [PageIds -> Nodes]
    BY <1>1, <1>3, <1>n
  <1>5. DOMAIN K = {RootPage} /\ K[RootPage] = 0
    BY <1>K
  <1>6. \A p, q : ~Beside(K, p, q)
    BY <1>5 DEF Beside
  <1>7. \A p, e : ~Inner(node, K, p, e)
    BY <1>5 DEF Inner
  <1>8. Layered(node, K)
    <2>1. Leveled(K)
      BY <1>2, <1>K, <1>5 DEF Leveled
    <2>2. LeavesBelow(node, K)
      BY <1>2, <1>3, <1>4, <1>5 DEF LeavesBelow
    <2>3. Ordered(node, K)
      BY <1>2, <1>3, <1>4, <1>5, <1>6 DEF Ordered
    <2>4. Linked(node, K)
      BY <1>2, <1>3, <1>4, <1>5, <1>6 DEF Linked, IsNext
    <2>5. SonsBelow(node, K)
      BY <1>7, Zenon DEF SonsBelow
    <2> QED
      BY <1>4, <2>1, <2>2, <2>3, <2>4, <2>5, Zenon DEF Layered
  <1>9. Exact(node, K, {})
    BY <1>7, Zenon DEF Exact
  <1>10. Whole(node, K, RootPage, {}, {}, {})
    <2>1. Parents(node, K, {RootPage} \cup {})
      BY <1>5 DEF Parents
    <2>2. Filled(node, K, {RootPage} \cup {})
      BY <1>5 DEF Filled
    <2>3. LeafKeys(node, K) = {}
      BY <1>2, <1>3, <1>4, <1>5 DEF LeafKeys
    <2> QED
      BY <1>5, <2>1, <2>2, <2>3 DEF Whole
  <1>11. Sized(node, {})
    <2>1. ASSUME NEW p \in PageIds PROVE Count(node[p]) < Capacity(node[p].leaf)
      <3>1. node[p] = n /\ n.leaf \in BOOLEAN
        BY <1>3, <1>4, NodeFacts
      <3>2. PICK z \in Nat : z = Capacity(n.leaf) /\ z >= 4
        BY <3>1, Capacities
      <3>3. Count(n) < z
        <4>1. \A m \in Nat : m >= 4 => 0 < m
          OBVIOUS
        <4>2. Count(n) = 0
          BY <1>3
        <4> QED
          BY <3>2, <4>1, <4>2, Zenon
      <3> QED
        BY <3>1, <3>2, <3>3, Zenon
    <2> QED
      BY <2>1 DEF Sized
  <1>12. Takes(K, used)
    BY <1>1, <1>2, <1>5 DEF Takes
  <1>13. Tree(node, K, root, used, {})
    BY <1>1, <1>5, <1>8, <1>9, <1>10, <1>11, <1>12 DEF Tree
  <1> QED
    BY <1>1, <1>13 DEF IInv

\* Whatever happens, the tree has the entries it is to have.
StepKeeps(C, D) ==
    /\ sysRoot' = root' /\ \E K : Tree(node', K, root', used', D)
    /\ \/ \E k \in Entries \ C : D = C \cup {k}
       \/ \E k \in C \cap Entries : D = C \ {k}
       \/ D = C

LEMMA StepTree ==
    ASSUME NEW K, NEW C, Tree(node, K, root, used, C), sysRoot = root, [Next]_vars
    PROVE  \E D : StepKeeps(C, D)
  <1>1. CASE \E k \in Entries : InsertEntry(k)
    <2>1. PICK k \in Entries : InsertEntry(k)
      BY <1>1
    <2>2. /\ k \notin C
          /\ \E J : Tree(node', J, root', used', C \cup {k})
          /\ (sysRoot = root => sysRoot' = root')
      BY <2>1, InsertTree
    <2>3. StepKeeps(C, C \cup {k})
      BY <2>2 DEF StepKeeps
    <2> QED
      BY <2>3
  <1>2. CASE \E k \in Entries : DeleteEntry(k)
    <2>1. PICK k \in Entries : DeleteEntry(k)
      BY <1>2
    <2>2. /\ k \in C
          /\ \E J : Tree(node', J, root', used', C \ {k})
          /\ (sysRoot = root => sysRoot' = root')
      BY <2>1, DeleteTree
    <2>3. StepKeeps(C, C \ {k})
      BY <2>2 DEF StepKeeps
    <2> QED
      BY <2>3
  <1>3. CASE GetIndex \/ UNCHANGED vars
    <2>1. node' = node /\ used' = used /\ root' = root /\ sysRoot' = root'
      BY <1>3 DEF GetIndex, vars
    <2>2. StepKeeps(C, C)
      BY <2>1 DEF StepKeeps
    <2> QED
      BY <2>2
  <1> QED
    BY <1>1, <1>2, <1>3, Zenon DEF Next

\* Between any two operations the nodes form a B+ tree: insertEntry and
\* deleteEntry, with all splits, merges and averages of their recursions, and the
\* root that updateRoot stores, keep it.
THEOREM Invariance == Spec => []IInv
  <1>1. IInv /\ [Next]_vars => IInv'
    <2> SUFFICES ASSUME IInv, [Next]_vars PROVE IInv'
      OBVIOUS
    <2>1. PICK K, C : Tree(node, K, root, used, C)
      BY DEF IInv
    <2>2. sysRoot = root
      BY DEF IInv
    <2>3. PICK D : StepKeeps(C, D)
      BY <2>1, <2>2, StepTree
    <2>4. sysRoot' = root' /\ \E J : Tree(node', J, root', used', D)
      BY <2>3, Zenon DEF StepKeeps
    <2> QED
      BY <2>4, Zenon DEF IInv
  <1> QED
    BY <1>1, InitIInv, PTL DEF Spec
-----------------------------------------------------------------------------
(* The properties of Index.                                                   *)

LEMMA KeysOfFacts ==
    ASSUME node \in [PageIds -> Nodes]
    PROVE  \A p \in PageIds : /\ KeysOf(p) = Keys(node[p])
                              /\ SonsOf(p) = IF node[p].leaf THEN {}
                                             ELSE {e.son : e \in Slots(node[p])}
  <1> SUFFICES ASSUME NEW p \in PageIds
               PROVE  /\ KeysOf(p) = Keys(node[p])
                      /\ SonsOf(p) = IF node[p].leaf THEN {}
                                     ELSE {e.son : e \in Slots(node[p])}
    BY Zenon
  <1>1. DOMAIN node[p].slots = 1 .. Count(node[p])
    BY NodeFacts
  <1>2. KeysOf(p) = Keys(node[p])
    BY <1>1 DEF KeysOf, Keys, Slots
  <1>3. {node[p].slots[i].son : i \in DOMAIN node[p].slots} = {e.son : e \in Slots(node[p])}
    BY <1>1 DEF Slots
  <1> QED
    BY <1>2, <1>3, Zenon DEF SonsOf

\* Levels, TreePages and Contents give the levels, pages and entries of a tree.
LevelsAre(K, C) ==
    /\ DOMAIN Levels = 1 .. MaxHeight
    /\ \A d \in 1 .. MaxHeight : Levels[d] = {q \in DOMAIN K : K[q] = (K[root] + 1) - d}
    /\ TreePages = DOMAIN K
    /\ Contents = C

LEMMA LevelsFacts ==
    ASSUME NEW K, NEW C, Tree(node, K, root, used, C)
    PROVE  LevelsAre(K, C)
  <1>1. /\ Layered(node, K) /\ Whole(node, K, root, {}, {}, C)
        /\ node \in [PageIds -> Nodes] /\ root \in DOMAIN K /\ K[root] \in Nat
        /\ \A q \in DOMAIN K : /\ q \in PageIds /\ K[q] \in Nat /\ K[q] <= K[root]
                               /\ node[q] \in Nodes /\ (node[q].leaf <=> K[q] = 0)
        /\ \A q \in DOMAIN K : q # root => K[q] < K[root]
        /\ \A p, e : Inner(node, K, p, e) => e.son \in DOMAIN K /\ K[e.son] = K[p] - 1
    <2>1. TreeParts(node, K, root, used, C)
      BY TreeFacts
    <2> QED
      BY <2>1, Zenon DEF TreeParts
  <1>h. PICK h \in Nat : h = K[root] + 1
    BY <1>1
  <1>n. PICK n \in Nat \ {0} : n = MaxHeight
    BY RoomAssumption, MaxPageNumAssumption DEF MaxHeight, RootPage, PageIds
  <1>2. h <= n /\ h >= 1
    BY <1>1, <1>h, <1>n, HeightFits
  <1>s. PICK sons : sons = [p \in PageIds |-> SonsOf(p)]
    OBVIOUS
  <1>b. PICK below : below = [P \in SUBSET PageIds |-> UNION {sons[p] : p \in P}]
    OBVIOUS
  <1>l. PICK l : l = Levels
    OBVIOUS
  <1>3. l = Iterates(below, {root}, n)
    BY <1>b, <1>l, <1>n, <1>s, Zenon DEF Levels
  <1>4. DOMAIN l = 1 .. n /\ l[1] = {root} /\ \A d \in 2 .. n : l[d] = below[l[d - 1]]
    BY <1>3, IteratesDefined
  <1>5. \A p \in DOMAIN K : K[p] > 0 => \A q : q \in sons[p] <=>
                               \E e : Inner(node, K, p, e) /\ e.son = q
    <2> SUFFICES ASSUME NEW p \in DOMAIN K, K[p] > 0, NEW q
                 PROVE  q \in sons[p] <=> \E e : Inner(node, K, p, e) /\ e.son = q
      BY Zenon
    <2>1. sons[p] = {e.son : e \in Slots(node[p])}
      BY <1>1, <1>s, KeysOfFacts
    <2> QED
      BY <2>1 DEF Inner
  <1>6. \A p \in DOMAIN K : K[p] = 0 => sons[p] = {}
    BY <1>1, <1>s, KeysOfFacts
  <1>L. PICK At : At = [d \in 1 .. n |-> {q \in DOMAIN K : K[q] = h - d}]
    OBVIOUS
  <1>7. ASSUME NEW d \in 1 .. n - 1 PROVE below[At[d]] = At[d + 1]
    <2>1. At[d] \subseteq PageIds /\ At[d] = {q \in DOMAIN K : K[q] = h - d}
      BY <1>1, <1>L
    <2>2. below[At[d]] = UNION {sons[p] : p \in At[d]}
      BY <1>b, <2>1
    <2>3. At[d + 1] = {q \in DOMAIN K : K[q] = h - (d + 1)}
      BY <1>L
    <2>4. ASSUME NEW q, q \in At[d + 1] PROVE \E p \in At[d] : q \in sons[p]
      <3>1. q \in DOMAIN K /\ K[q] = h - (d + 1)
        BY <2>3, <2>4
      <3>2. q # root
        <4>1. h - (d + 1) # K[root]
          BY <1>1, <1>h
        <4> QED
          BY <3>1, <4>1
      <3>3. PICK p, e : Inner(node, K, p, e) /\ e.son = q
        <4>1. Parents(node, K, {root} \cup {})
          BY <1>1, Zenon DEF Whole
        <4> QED
          BY <3>1, <3>2, <4>1 DEF Parents
      <3>4. K[q] = K[p] - 1 /\ p \in DOMAIN K /\ K[p] > 0
        BY <1>1, <3>3 DEF Inner
      <3>5. K[p] = h - d
        BY <1>1, <1>h, <3>1, <3>4
      <3> QED
        BY <1>5, <2>1, <3>3, <3>4, <3>5
    <2>5. ASSUME NEW p \in At[d], NEW q, q \in sons[p] PROVE q \in At[d + 1]
      <3>1. p \in DOMAIN K /\ K[p] = h - d
        BY <2>1
      <3>2. K[p] > 0
        BY <1>1, <1>6, <2>5, <3>1
      <3>3. PICK e : Inner(node, K, p, e) /\ e.son = q
        BY <1>5, <2>5, <3>1, <3>2
      <3>4. q \in DOMAIN K /\ K[q] = K[p] - 1
        BY <1>1, <3>3
      <3>5. K[q] = h - (d + 1)
        BY <1>h, <3>1, <3>4
      <3> QED
        BY <2>3, <3>4, <3>5
    <2> QED
      BY <2>2, <2>4, <2>5
  <1>8. \A d \in 1 .. n : l[d] = At[d]
    <2>G. PICK G : G = {d \in 1 .. n : l[d] = At[d]}
      OBVIOUS
    <2>1. 1 \in G
      <3>1. At[1] = {q \in DOMAIN K : K[q] = h - 1}
        BY <1>L, <1>n
      <3>2. At[1] = {root}
        <4>1. h - 1 = K[root]
          BY <1>1, <1>h
        <4> QED
          BY <1>1, <3>1, <4>1
      <3> QED
        <4>1. 1 \in 1 .. n
          OBVIOUS
        <4> QED
          BY <1>4, <2>G, <3>2, <4>1
    <2>2. ASSUME NEW d \in 1 .. n - 1, d \in G PROVE d + 1 \in G
      <3>1. d + 1 \in 2 .. n /\ (d + 1) - 1 = d /\ d + 1 \in 1 .. n
        OBVIOUS
      <3>2. l[d + 1] = below[l[d]]
        BY <1>4, <3>1
      <3>3. l[d] = At[d]
        BY <2>2, <2>G
      <3> QED
        BY <1>7, <2>G, <3>1, <3>2, <3>3
    <2>3. 1 .. n \subseteq G
      BY <2>1, <2>2, InductionTo
    <2> QED
      BY <2>3, <2>G
  <1>9. /\ DOMAIN Levels = 1 .. MaxHeight
        /\ \A d \in 1 .. MaxHeight : Levels[d] = {q \in DOMAIN K : K[q] = (K[root] + 1) - d}
    BY <1>4, <1>8, <1>L, <1>h, <1>l, <1>n
  <1>10. TreePages = DOMAIN K
    <2>1. \A q : q \in TreePages <=> \E d \in 1 .. n : q \in l[d]
      BY <1>4, <1>l, Zenon DEF TreePages, Range
    <2>2. ASSUME NEW q \in DOMAIN K PROVE \E d \in 1 .. n : q \in l[d]
      <3>1. K[q] \in Nat /\ K[q] <= K[root]
        BY <1>1
      <3>d. PICK d \in 1 .. n : K[q] = h - d
        <4>1. h - K[q] \in 1 .. n /\ K[q] = h - (h - K[q])
          BY <1>1, <1>2, <1>h, <3>1
        <4> QED
          BY <4>1
      <3> QED
        BY <1>8, <1>L, <3>d
    <2>3. ASSUME NEW d \in 1 .. n, NEW q, q \in l[d] PROVE q \in DOMAIN K
      BY <1>8, <1>L, <2>3
    <2> QED
      BY <2>1, <2>2, <2>3
  <1>11. Contents = C
    <2>1. LeafKeys(node, K) = C
      BY <1>1, Zenon DEF Whole
    <2>2. {q \in TreePages : node[q].leaf} = {q \in DOMAIN K : K[q] = 0}
      BY <1>1, <1>10
    <2>3. \A p \in {q \in DOMAIN K : K[q] = 0} : KeysOf(p) = Keys(node[p])
      BY <1>1, KeysOfFacts
    <2> QED
      BY <2>1, <2>2, <2>3 DEF Contents, LeafKeys
  <1> QED
    BY <1>9, <1>10, <1>11, Zenon DEF LevelsAre

LEMMA TypeOKFromIInv == IInv => TypeOK
  <1> SUFFICES ASSUME IInv PROVE TypeOK
    OBVIOUS
  <1>1. PICK K, C : Tree(node, K, root, used, C)
    BY DEF IInv
  <1>2. /\ node \in [PageIds -> Nodes] /\ root \in DOMAIN K
        /\ \A q \in DOMAIN K : q \in PageIds
    <2>1. TreeParts(node, K, root, used, C)
      BY <1>1, TreeFacts
    <2> QED
      BY <2>1, Zenon DEF TreeParts
  <1>3. Sized(node, {}) /\ Takes(K, used)
    BY <1>1, Zenon DEF Tree
  <1>4. ASSUME NEW p \in PageIds
        PROVE  /\ node[p].leaf \in BOOLEAN
               /\ node[p].next \in PageIds
               /\ \A i \in DOMAIN node[p].slots : node[p].slots[i].key \in Entries
               /\ Len(node[p].slots) < Capacity(node[p].leaf)
    <2>1. node[p] \in Nodes
      BY <1>2
    <2>2. Len(node[p].slots) < Capacity(node[p].leaf)
      BY <1>3 DEF Sized, Count
    <2>3. /\ node[p].leaf \in BOOLEAN /\ node[p].next \in PageIds
          /\ \A i \in DOMAIN node[p].slots : node[p].slots[i].key \in Entries
      BY <2>1, NodeFacts DEF KeyIn
    <2> QED
      BY <2>2, <2>3
  <1>5. used \subseteq PageIds /\ root \in PageIds /\ sysRoot = root /\ DOMAIN node = PageIds
    BY <1>2, <1>3 DEF Takes, IInv
  <1> QED
    BY <1>4, <1>5, Zenon DEF TypeOK

LEMMA IsTreeFromTree ==
    ASSUME NEW K, NEW C, Tree(node, K, root, used, C)
    PROVE  IsTree
  <1>1. /\ Layered(node, K) /\ Exact(node, K, {})
        /\ node \in [PageIds -> Nodes] /\ root \in DOMAIN K /\ K[root] \in Nat
        /\ \A q \in DOMAIN K : /\ q \in PageIds /\ q \notin InitialPages
                               /\ K[q] \in Nat /\ K[q] <= K[root]
                               /\ node[q] \in Nodes /\ (node[q].leaf <=> K[q] = 0)
                               /\ Increasing(node[q])
        /\ \A p, e : Inner(node, K, p, e) => e.son # root
    <2>1. TreeParts(node, K, root, used, C)
      BY TreeFacts
    <2> QED
      BY <2>1, Zenon DEF TreeParts
  <1>2. /\ DOMAIN Levels = 1 .. MaxHeight
        /\ \A d \in 1 .. MaxHeight : Levels[d] = {q \in DOMAIN K : K[q] = (K[root] + 1) - d}
        /\ TreePages = DOMAIN K
    <2>1. LevelsAre(K, C)
      BY LevelsFacts
    <2> QED
      BY <2>1, Zenon DEF LevelsAre
  <1>3. TreePages \subseteq used \ InitialPages
    <2>1. Takes(K, used)
      BY Zenon DEF Tree
    <2> QED
      BY <1>1, <1>2, <2>1 DEF Takes
  <1>4. ASSUME NEW p \in {q \in TreePages : ~node[q].leaf}, NEW i \in DOMAIN node[p].slots
        PROVE  /\ node[p].slots[i].son # root
               /\ \A q \in {s \in TreePages : ~node[s].leaf} : \A j \in DOMAIN node[q].slots :
                     node[p].slots[i].son = node[q].slots[j].son => p = q /\ i = j
    <2>1. \A q \in {s \in TreePages : ~node[s].leaf} : \A j \in DOMAIN node[q].slots :
             /\ j \in 1 .. Count(node[q])
             /\ Inner(node, K, q, node[q].slots[j])
      <3> SUFFICES ASSUME NEW q \in {s \in TreePages : ~node[s].leaf},
                          NEW j \in DOMAIN node[q].slots
                   PROVE  /\ j \in 1 .. Count(node[q])
                          /\ Inner(node, K, q, node[q].slots[j])
        OBVIOUS
      <3>1. q \in DOMAIN K /\ K[q] > 0
        BY <1>1, <1>2
      <3>2. j \in 1 .. Count(node[q])
        BY <1>1, <3>1, NodeFacts
      <3> QED
        BY <3>1, <3>2 DEF Inner, Slots
    <2>2. node[p].slots[i].son # root
      BY <1>1, <2>1
    <2>3. ASSUME NEW q \in {s \in TreePages : ~node[s].leaf}, NEW j \in DOMAIN node[q].slots,
                 node[p].slots[i].son = node[q].slots[j].son
          PROVE  p = q /\ i = j
      <3>a. PICK a : a = node[p].slots[i]
        OBVIOUS
      <3>b. PICK b : b = node[q].slots[j]
        OBVIOUS
      <3>1. Inner(node, K, p, a) /\ Inner(node, K, q, b) /\ a.son = b.son
        BY <1>4, <2>1, <2>3, <3>a, <3>b
      <3>2. p = q /\ a = b
        BY <1>1, <3>1, OneParent
      <3>3. node[p] \in Nodes /\ Increasing(node[p])
        BY <1>1, <1>2
      <3>4. i \in 1 .. Count(node[p]) /\ j \in 1 .. Count(node[p])
        BY <2>1, <3>2
      <3> QED
        BY <3>2, <3>3, <3>4, <3>a, <3>b, PlacesDiffer
    <2> QED
      BY <2>2, <2>3
  <1>5. \E h \in DOMAIN Levels : \A d \in DOMAIN Levels : \A p \in Levels[d] :
           node[p].leaf <=> d = h
    <2>h. PICK h \in Nat : h = K[root] + 1
      BY <1>1
    <2>n. PICK n \in Nat \ {0} : n = MaxHeight
      BY RoomAssumption, MaxPageNumAssumption DEF MaxHeight, RootPage, PageIds
    <2>1. h \in 1 .. n
      BY <1>1, <2>h, <2>n, HeightFits
    <2>2. ASSUME NEW d \in 1 .. n, NEW p \in Levels[d] PROVE node[p].leaf <=> d = h
      <3>1. p \in DOMAIN K /\ K[p] = h - d
        BY <1>2, <2>h, <2>n
      <3>2. h - d = 0 <=> d = h
        BY <2>1
      <3> QED
        BY <1>1, <3>1, <3>2
    <2> QED
      BY <1>2, <2>1, <2>2, <2>n
  <1> QED
    BY <1>3, <1>4, <1>5, Zenon DEF IsTree

LEMMA PrecedesFacts ==
    ASSUME NEW K, NEW C, Tree(node, K, root, used, C)
    PROVE  \A p, q \in DOMAIN K : Precedes(p, q) <=> LeftOf(node[p], node[q])
  <1>1. node \in [PageIds -> Nodes] /\ \A q \in DOMAIN K : q \in PageIds
    <2>1. TreeParts(node, K, root, used, C)
      BY TreeFacts
    <2> QED
      BY <2>1, Zenon DEF TreeParts
  <1>2. \A q \in DOMAIN K : KeysOf(q) = Keys(node[q])
    BY <1>1, KeysOfFacts
  <1> QED
    BY <1>2, Zenon DEF Precedes, LeftOf

LEMMA WellFormedFromTree ==
    ASSUME NEW K, NEW C, Tree(node, K, root, used, C)
    PROVE  LevelsSorted /\ SlotKeysExact /\ LevelsLinked
  <1>1. /\ Layered(node, K) /\ Exact(node, K, {})
        /\ \A q \in DOMAIN K : /\ q \in PageIds /\ K[q] \in Nat
                               /\ node[q] \in Nodes /\ (node[q].leaf <=> K[q] = 0)
                               /\ Increasing(node[q])
        /\ \A q \in DOMAIN K : K[q] > 0 \/ q # root => Slots(node[q]) # {}
        /\ \A p, e : Inner(node, K, p, e) => e.son \in DOMAIN K /\ e.son # root
    <2>1. TreeParts(node, K, root, used, C)
      BY TreeFacts
    <2> QED
      BY <2>1, Zenon DEF TreeParts
  <1>2. /\ DOMAIN Levels = 1 .. MaxHeight
        /\ \A d \in 1 .. MaxHeight : Levels[d] = {q \in DOMAIN K : K[q] = (K[root] + 1) - d}
        /\ TreePages = DOMAIN K
    <2>1. LevelsAre(K, C)
      BY LevelsFacts
    <2> QED
      BY <2>1, Zenon DEF LevelsAre
  <1>3. ASSUME NEW level \in Range(Levels), NEW p \in level
        PROVE  /\ p \in DOMAIN K
               /\ \A q : q \in level \ {p} <=> Beside(K, p, q)
    <2>1. PICK d \in 1 .. MaxHeight : level = Levels[d]
      BY <1>2, Zenon DEF Range
    <2>2. level = {q \in DOMAIN K : K[q] = (K[root] + 1) - d}
      BY <1>2, <2>1
    <2> QED
      BY <2>2 DEF Beside
  <1>4. Ordered(node, K) /\ Linked(node, K)
    BY <1>1 DEF Layered
  <1>5. \A p \in DOMAIN K : /\ \A i, j \in DOMAIN node[p].slots :
                                  i < j => node[p].slots[i].key < node[p].slots[j].key
    <2> SUFFICES ASSUME NEW p \in DOMAIN K, NEW i \in DOMAIN node[p].slots,
                        NEW j \in DOMAIN node[p].slots, i < j
                 PROVE  node[p].slots[i].key < node[p].slots[j].key
      OBVIOUS
    <2>1. i \in 1 .. Count(node[p]) /\ j \in 1 .. Count(node[p]) /\ Increasing(node[p])
      BY <1>1, NodeFacts
    <2> QED
      BY <2>1 DEF Increasing, KeyIn
  <1>6. LevelsSorted
    <2> SUFFICES ASSUME NEW level \in Range(Levels), NEW p \in level
                 PROVE  \A q \in level \ {p} : Precedes(p, q) \/ Precedes(q, p)
      BY <1>3, <1>5, Zenon DEF LevelsSorted
    <2> SUFFICES ASSUME NEW q \in level \ {p} PROVE Precedes(p, q) \/ Precedes(q, p)
      OBVIOUS
    <2>1. Beside(K, p, q) /\ p \in DOMAIN K /\ q \in DOMAIN K
      BY <1>3 DEF Beside
    <2>2. LeftOf(node[p], node[q]) \/ LeftOf(node[q], node[p])
      BY <1>4, <2>1, Zenon DEF Ordered
    <2> QED
      BY <2>1, <2>2, PrecedesFacts
  <1>7. SlotKeysExact
    <2> SUFFICES ASSUME NEW p \in TreePages, ~node[p].leaf, NEW i \in DOMAIN node[p].slots
                 PROVE  /\ node[node[p].slots[i].son].slots # << >>
                        /\ node[p].slots[i].key = node[node[p].slots[i].son].slots[1].key
      BY Zenon DEF SlotKeysExact
    <2>e. PICK e : e = node[p].slots[i]
      OBVIOUS
    <2>1. Inner(node, K, p, e)
      <3>1. p \in DOMAIN K /\ K[p] > 0
        BY <1>1, <1>2
      <3>2. i \in 1 .. Count(node[p])
        BY <1>1, <3>1, NodeFacts
      <3> QED
        BY <2>e, <3>1, <3>2 DEF Inner, Slots
    <2>2. e.son \in DOMAIN K /\ Slots(node[e.son]) # {} /\ node[e.son] \in Nodes
      BY <1>1, <2>1
    <2>3. e.key = Least(node[e.son])
      BY <1>1, <2>1 DEF Exact
    <2>4. node[e.son].slots # << >>
      BY <2>2, NodeFacts, SlotSets
    <2> QED
      BY <2>3, <2>4, <2>e DEF Least, KeyIn
  <1>8. LevelsLinked
    <2> DEFINE Links(level, p, o) ==
                 IF o = NoNode THEN \A q \in level \ {p} : Precedes(q, p)
                 ELSE /\ o \in level \ {p}
                      /\ Precedes(p, o)
                      /\ \A q \in level \ {p, o} : Precedes(q, p) \/ Precedes(o, q)
    <2>0. SUFFICES ASSUME NEW level \in Range(Levels), NEW p \in level
                   PROVE  Links(level, p, node[p].next)
      BY Zenon DEF LevelsLinked
    <2>o. PICK o : o = node[p].next
      OBVIOUS
    <2>1. p \in DOMAIN K /\ \A q : q \in level \ {p} <=> Beside(K, p, q)
      BY <1>3
    <2>2. \A q : Beside(K, p, q) => q \in DOMAIN K
      BY DEF Beside
    <2>3. IsNext(node, K, p, o)
      BY <1>4, <2>1, <2>o DEF Linked
    <2>4. CASE o = NoNode
      <3>1. \A q : Beside(K, p, q) => LeftOf(node[q], node[p])
        BY <2>3, <2>4, Zenon DEF IsNext
      <3>2. \A q \in level \ {p} : Precedes(q, p)
        BY <2>1, <2>2, <3>1, PrecedesFacts
      <3> QED
        BY <2>4, <2>o, <3>2
    <2>5. CASE o # NoNode
      <3>1. /\ Beside(K, p, o) /\ LeftOf(node[p], node[o])
            /\ \A q : Beside(K, p, q) /\ q # o
                      => LeftOf(node[q], node[p]) \/ LeftOf(node[o], node[q])
        BY <2>3, <2>5, Zenon DEF IsNext
      <3>2. o \in level \ {p} /\ Precedes(p, o)
        BY <2>1, <2>2, <3>1, PrecedesFacts
      <3>3. \A q \in level \ {p, o} : Precedes(q, p) \/ Precedes(o, q)
        BY <2>1, <2>2, <3>1, PrecedesFacts
      <3> QED
        BY <2>5, <2>o, <3>2, <3>3
    <2> QED
      BY <2>4, <2>5, <2>o
  <1> QED
    BY <1>6, <1>7, <1>8

LEMMA FilledFromTree ==
    ASSUME NEW K, NEW C, Tree(node, K, root, used, C)
    PROVE  FillGuaranteed
  <1>1. Filled(node, K, {root} \cup {})
    BY Zenon DEF Tree, Whole
  <1>2. TreePages = DOMAIN K
    <2>1. LevelsAre(K, C)
      BY LevelsFacts
    <2> QED
      BY <2>1, Zenon DEF LevelsAre
  <1> QED
    BY <1>1, <1>2 DEF FillGuaranteed, Filled, Low, Count

\* The entries that are found are those of the tree.
ContentsKnown == \A K, C : Tree(node, K, root, used, C) => Contents = C

LEMMA ContentsOfTree == ContentsKnown
  <1> SUFFICES ASSUME NEW K, NEW C, Tree(node, K, root, used, C) PROVE Contents = C
    BY Zenon DEF ContentsKnown
  <1>1. LevelsAre(K, C)
    BY LevelsFacts
  <1> QED
    BY <1>1, Zenon DEF LevelsAre

\* Pages, slots and the entry in the SysIndexPage have their types, no node is
\* full between two operations, and Index::rootPageID is the root on file, in
\* every reachable state.
THEOREM TypeCorrect == Spec => []TypeOK
  <1> QED
    BY Invariance, TypeOKFromIInv, PTL

\* Splits, merges, averaging and changes of the root leave a tree whose levels
\* are sorted and linked and whose slots name the least keys of their sons, for
\* all capacities, numbers of pages and sets of values.
THEOREM AlwaysWellFormed == Spec => []TreeWellFormed
  <1>1. IInv => TreeWellFormed
    BY IsTreeFromTree, WellFormedFromTree DEF IInv, TreeWellFormed
  <1> QED
    BY <1>1, Invariance, PTL

\* fixDelete never leaves a page below the root with less than half of the
\* capacity of an inner page.
THEOREM AlwaysFilled == Spec => []FillGuaranteed
  <1>1. IInv => FillGuaranteed
    BY FilledFromTree DEF IInv
  <1> QED
    BY <1>1, Invariance, PTL

\* insertEntry adds the entry to the set that the index stands for, deleteEntry
\* takes it out, and neither changes another entry.
THEOREM Implements == Spec => ImplementsIndexSet
  <1>1. Init => Promise!Init
    <2> SUFFICES ASSUME Init PROVE Contents = {}
      BY DEF Promise!Init
    <2>1. PICK K, C : Tree(node, K, root, used, C)
      BY InitIInv DEF IInv
    <2>2. node = [p \in PageIds |-> EmptyLeaf]
      BY DEF Init
    <2>3. \A p \in PageIds : KeysOf(p) = {}
      BY <2>2 DEF KeysOf, EmptyLeaf
    <2>4. TreePages \subseteq PageIds
      <3>1. LevelsAre(K, C)
        BY <2>1, LevelsFacts
      <3>2. TreePages = DOMAIN K
        BY <3>1, Zenon DEF LevelsAre
      <3>3. TreeParts(node, K, root, used, C)
        BY <2>1, TreeFacts
      <3> QED
        BY <3>2, <3>3 DEF TreeParts
    <2> QED
      BY <2>3, <2>4 DEF Contents
  <1>2. IInv /\ [Next]_vars => [Promise!Next]_Contents
    <2> SUFFICES ASSUME IInv, [Next]_vars PROVE [Promise!Next]_Contents
      OBVIOUS
    <2>1. PICK K, C : Tree(node, K, root, used, C)
      BY DEF IInv
    <2>2. PICK D : StepKeeps(C, D)
      BY <2>1, StepTree DEF IInv
    <2>3. PICK J : Tree(node', J, root', used', D)
      BY <2>2, Zenon DEF StepKeeps
    <2>4. ContentsKnown'
      BY ContentsOfTree, PTL
    <2>5. Contents = C /\ Contents' = D
      BY <2>1, <2>3, <2>4, ContentsOfTree, Zenon DEF ContentsKnown
    <2>6. \/ \E k \in Entries \ C : D = C \cup {k}
          \/ \E k \in C \cap Entries : D = C \ {k}
          \/ D = C
      BY <2>2, Zenon DEF StepKeeps
    <2> QED
      BY <2>5, <2>6 DEF Promise!Next, Promise!Insert, Promise!Delete
  <1> QED
    BY <1>1, <1>2, Invariance, PTL DEF Spec, ImplementsIndexSet, Promise!Spec
-----------------------------------------------------------------------------
(* Scans.  Iterators stand for sets: each for the entries that a loop would   *)
(* still see, if it never ended before the index does.                        *)

LeafParts(K, C) ==
    /\ C \subseteq Entries /\ C \subseteq Nat
    /\ \A p \in DOMAIN K : K[p] = 0 => /\ p \in PageIds
                                       /\ node[p] \in Nodes /\ Increasing(node[p])
                                       /\ Keys(node[p]) \subseteq C
                                       /\ IsNext(node, K, p, node[p].next)
    /\ \A x \in C : \E q \in DOMAIN K : K[q] = 0 /\ x \in Keys(node[q])
    /\ \A p, q : Beside(K, p, q) => /\ Slots(node[p]) # {}
                                    /\ LeftOf(node[p], node[q]) \/ LeftOf(node[q], node[p])

LEMMA LeafFacts ==
    ASSUME NEW K, NEW C, Tree(node, K, root, used, C)
    PROVE  LeafParts(K, C)
  <1>1. /\ Layered(node, K) /\ Whole(node, K, root, {}, {}, C)
        /\ \A q \in DOMAIN K : /\ q \in PageIds /\ node[q] \in Nodes /\ Increasing(node[q])
        /\ \A q \in DOMAIN K : K[q] > 0 \/ q # root => Slots(node[q]) # {}
        /\ \A q \in DOMAIN K : q # root => K[q] < K[root]
        /\ root \in DOMAIN K /\ K[root] \in Nat
    <2>1. TreeParts(node, K, root, used, C)
      BY TreeFacts
    <2> QED
      BY <2>1, Zenon DEF TreeParts
  <1>2. /\ \A x : x \in LeafKeys(node, K) <=> \E q \in DOMAIN K : K[q] = 0 /\ x \in Keys(node[q])
        /\ LeafKeys(node, K) = C
    <2>1. LeafKeys(node, K) = C
      BY <1>1, Zenon DEF Whole
    <2> QED
      BY <1>1, <2>1, WholeFacts
  <1>3. C \subseteq Entries /\ C \subseteq Nat
    <2> SUFFICES ASSUME NEW x \in C PROVE x \in Entries /\ x \in Nat
      OBVIOUS
    <2>1. PICK q \in DOMAIN K : x \in Keys(node[q])
      BY <1>2, Zenon
    <2>2. PICK e \in Slots(node[q]) : x = e.key
      BY <2>1, Zenon DEF Keys
    <2> QED
      BY <1>1, <2>2, SlotSets
  <1>4. \A p \in DOMAIN K : IsNext(node, K, p, node[p].next)
    BY <1>1, Zenon DEF Layered, Linked
  <1>5. ASSUME NEW p, NEW q, Beside(K, p, q)
        PROVE  /\ Slots(node[p]) # {}
               /\ LeftOf(node[p], node[q]) \/ LeftOf(node[q], node[p])
    <2>1. p \in DOMAIN K /\ q \in DOMAIN K /\ p # q /\ K[p] = K[q]
      BY <1>5, Zenon DEF Beside
    <2>2. p # root
      <3> SUFFICES ASSUME p = root PROVE FALSE
        OBVIOUS
      <3>1. K[q] < K[root] /\ K[q] = K[root]
        BY <1>1, <2>1
      <3> QED
        BY <1>1, <3>1
    <2>3. LeftOf(node[p], node[q]) \/ LeftOf(node[q], node[p])
      BY <1>1, <1>5, LayeredFacts
    <2> QED
      BY <1>1, <2>1, <2>2, <2>3, Zenon
  <1>6. \A p \in DOMAIN K : K[p] = 0 => Keys(node[p]) \subseteq C
    BY <1>2, Zenon
  <1> QED
    BY <1>1, <1>2, <1>3, <1>4, <1>5, <1>6, Zenon DEF LeafParts

\* The entries from place i of leaf p on.
FromPlace(C, p, i) == {x \in C : KeyIn(node[p], i) <= x}

\* The iterator it has the entries S of C before it.
Stands(K, C, it, S) ==
    \/ S = {} /\ it = EndIt
    \/ \E p \in DOMAIN K : \E i \in 1 .. Count(node[p]) :
          K[p] = 0 /\ it = It(p, i) /\ S = FromPlace(C, p, i)

\* Behind the last slot of a leaf, the entries greater than all of its own.
Behind(C, p) == {x \in C : \A y \in Keys(node[p]) : y < x}

LEMMA NextLeaf ==
    ASSUME NEW K, NEW C, LeafParts(K, C), NEW p \in DOMAIN K, K[p] = 0,
           NEW it, it = IF node[p].next = NoNode THEN EndIt ELSE It(node[p].next, 1),
           C = {} \/ Slots(node[p]) # {} \/ node[p].next # NoNode
    PROVE  Stands(K, C, it, Behind(C, p))
  <1>o. PICK o : o = node[p].next
    OBVIOUS
  <1>1. /\ C \subseteq Nat
        /\ \A q \in DOMAIN K : K[q] = 0 => node[q] \in Nodes /\ Increasing(node[q])
        /\ \A x \in C : \E q \in DOMAIN K : K[q] = 0 /\ x \in Keys(node[q])
        /\ \A q, r : Beside(K, q, r) => Slots(node[q]) # {}
        /\ IsNext(node, K, p, o)
    BY <1>o, Zenon DEF LeafParts
  <1>2. \A q \in DOMAIN K : K[q] = 0 => Keys(node[q]) \subseteq Nat
    BY <1>1, SlotSets
  <1>3. CASE o = NoNode
    <2>1. ASSUME NEW x \in C, \A y \in Keys(node[p]) : y < x PROVE FALSE
      <3>1. PICK q \in DOMAIN K : K[q] = 0 /\ x \in Keys(node[q])
        BY <1>1
      <3>2. x \in Nat
        BY <1>1
      <3>3. q # p
        BY <2>1, <3>1, <3>2
      <3>4. Beside(K, p, q)
        BY <3>1, <3>3, Zenon DEF Beside
      <3>5. LeftOf(node[q], node[p]) /\ Slots(node[p]) # {}
        BY <1>1, <1>3, <3>4, Zenon DEF IsNext
      <3>6. PICK y \in Keys(node[p]) : TRUE
        BY <3>5, Zenon DEF Keys
      <3>7. x < y /\ y < x /\ y \in Nat
        BY <1>2, <2>1, <3>1, <3>5, <3>6 DEF LeftOf
      <3> QED
        BY <3>2, <3>7
    <2>2. Behind(C, p) = {}
      BY <2>1 DEF Behind
    <2>3. it = EndIt
      BY <1>o, <1>3
    <2> QED
      BY <2>2, <2>3, Zenon DEF Stands
  <1>4. CASE o # NoNode
    <2>1. /\ Beside(K, p, o) /\ LeftOf(node[p], node[o])
          /\ \A q : Beside(K, p, q) /\ q # o =>
                LeftOf(node[q], node[p]) \/ LeftOf(node[o], node[q])
      BY <1>1, <1>4, Zenon DEF IsNext
    <2>2. o \in DOMAIN K /\ K[o] = 0 /\ p # o /\ Beside(K, o, p)
      BY <2>1, Zenon DEF Beside
    <2>3. node[o] \in Nodes /\ Increasing(node[o]) /\ Slots(node[o]) # {} /\ Slots(node[p]) # {}
      BY <1>1, <2>1, <2>2, Zenon
    <2>4. /\ Least(node[o]) \in Keys(node[o]) /\ Least(node[o]) \in Nat
          /\ \A k \in Keys(node[o]) : Least(node[o]) <= k
      BY <2>3, LeastFacts
    <2>5. PICK z \in Keys(node[p]) : TRUE
      BY <2>3, Zenon DEF Keys
    <2>6. ASSUME NEW x \in C
          PROVE  (\A y \in Keys(node[p]) : y < x) <=> Least(node[o]) <= x
      <3>1. PICK q \in DOMAIN K : K[q] = 0 /\ x \in Keys(node[q])
        BY <1>1
      <3>2. x \in Nat /\ z \in Nat /\ Keys(node[p]) \subseteq Nat
        BY <1>1, <1>2
      <3>3. \A y \in Keys(node[p]) : y < Least(node[o])
        BY <2>1, <2>4 DEF LeftOf
      <3>4. CASE q = p
        BY <2>4, <3>1, <3>2, <3>3, <3>4
      <3>5. CASE q = o
        BY <2>1, <2>4, <3>1, <3>2, <3>5 DEF LeftOf
      <3>6. CASE q # p /\ q # o
        <4>1. Beside(K, p, q)
          BY <3>1, <3>6, Zenon DEF Beside
        <4>2. CASE LeftOf(node[q], node[p])
          <5>1. x < z
            BY <3>1, <4>2 DEF LeftOf
          <5>2. z < Least(node[o])
            BY <3>3
          <5> QED
            BY <2>4, <3>2, <5>1, <5>2
        <4>3. CASE LeftOf(node[o], node[q])
          <5>1. Least(node[o]) < x
            BY <2>4, <3>1, <4>3 DEF LeftOf
          <5> QED
            BY <2>4, <3>2, <3>3, <5>1
        <4> QED
          BY <2>1, <3>6, <4>1, <4>2, <4>3
      <3> QED
        BY <3>4, <3>5, <3>6
    <2>7. Behind(C, p) = FromPlace(C, o, 1)
      BY <2>6 DEF Behind, FromPlace, Least
    <2>8. it = It(o, 1)
      BY <1>o, <1>4
    <2>9. 1 \in 1 .. Count(node[o])
      BY <2>3, SlotSets
    <2> QED
      BY <2>2, <2>7, <2>8, <2>9, Zenon DEF Stands
  <1> QED
    BY <1>3, <1>4

\* What an iterator before the entries S shows.
LEMMA StandsFacts ==
    ASSUME NEW K, NEW C, LeafParts(K, C), NEW it, NEW S, Stands(K, C, it, S)
    PROVE  /\ S \subseteq C
           /\ it \in Iterators
           /\ S = {} => it = EndIt
           /\ S # {} => /\ ~it.end /\ InPage(it)
                        /\ KeyAt(it) \in S
                        /\ S = {x \in C : KeyAt(it) <= x}
  <1>1. /\ C \subseteq Nat
        /\ \A q \in DOMAIN K : K[q] = 0 => /\ q \in PageIds /\ node[q] \in Nodes
                                           /\ Keys(node[q]) \subseteq C
    BY Zenon DEF LeafParts
  <1>2. CASE S = {} /\ it = EndIt
    <2>1. 0 \in PageIds
      BY MaxPageNumAssumption DEF PageIds
    <2>2. it \in Iterators
      BY <1>2, <2>1 DEF EndIt, Iterators
    <2> QED
      BY <1>2, <2>2
  <1>3. CASE \E p \in DOMAIN K : \E i \in 1 .. Count(node[p]) :
                K[p] = 0 /\ it = It(p, i) /\ S = FromPlace(C, p, i)
    <2>p. PICK p \in DOMAIN K : \E i \in 1 .. Count(node[p]) :
                  K[p] = 0 /\ it = It(p, i) /\ S = FromPlace(C, p, i)
      BY <1>3
    <2>1. PICK i \in 1 .. Count(node[p]) : K[p] = 0 /\ it = It(p, i) /\ S = FromPlace(C, p, i)
      BY <2>p
    <2>2. /\ p \in PageIds /\ node[p] \in Nodes /\ Keys(node[p]) \subseteq C
          /\ i \in Nat /\ DOMAIN node[p].slots = 1 .. Count(node[p])
      BY <1>1, <2>1, NodeFacts
    <2>3. KeyIn(node[p], i) \in Keys(node[p]) /\ KeyIn(node[p], i) \in Nat
      BY <2>1, <2>2, SlotSets
    <2>4. it.page = p /\ it.slot = i /\ it.end = FALSE /\ it \in Iterators
      BY <2>1, <2>2 DEF It, Iterators
    <2>5. KeyAt(it) = KeyIn(node[p], i) /\ InPage(it)
      BY <2>2, <2>4 DEF KeyAt, KeyIn, InPage
    <2>6. KeyAt(it) \in C /\ KeyAt(it) \in Nat
      BY <2>2, <2>3, <2>5
    <2>7. S = {x \in C : KeyAt(it) <= x}
      BY <2>1, <2>5, Zenon DEF FromPlace
    <2>8. KeyAt(it) \in S
      BY <2>6, <2>7
    <2> QED
      BY <2>4, <2>5, <2>7, <2>8
  <1> QED
    BY <1>2, <1>3, Zenon DEF Stands

\* An iterator stands for one set, and a set has one iterator.
LEMMA StandsForOne ==
    ASSUME NEW K, NEW C, LeafParts(K, C), NEW it, NEW S, Stands(K, C, it, S),
           NEW jt, NEW T, Stands(K, C, jt, T)
    PROVE  it = jt <=> S = T
  <1>1. /\ C \subseteq Nat
        /\ \A q \in DOMAIN K : K[q] = 0 => node[q] \in Nodes /\ Increasing(node[q])
        /\ \A p, q : Beside(K, p, q) =>
              LeftOf(node[p], node[q]) \/ LeftOf(node[q], node[p])
    BY Zenon DEF LeafParts
  <1>2. /\ S = {} => it = EndIt
        /\ S # {} => ~it.end /\ KeyAt(it) \in S /\ S = {x \in C : KeyAt(it) <= x} /\ S \subseteq C
        /\ T = {} => jt = EndIt
        /\ T # {} => ~jt.end /\ KeyAt(jt) \in T /\ T = {x \in C : KeyAt(jt) <= x} /\ T \subseteq C
    BY StandsFacts
  <1>3. EndIt.end = TRUE
    BY DEF EndIt
  <1>4. ASSUME it = jt PROVE S = T
    BY <1>2, <1>3, <1>4
  <1>5. ASSUME S = T PROVE it = jt
    <2>1. CASE S = {}
      BY <1>2, <1>5, <2>1
    <2>2. CASE S # {}
      <3>0. /\ \E p \in DOMAIN K : \E i \in 1 .. Count(node[p]) :
                  K[p] = 0 /\ it = It(p, i) /\ S = FromPlace(C, p, i)
            /\ \E p \in DOMAIN K : \E i \in 1 .. Count(node[p]) :
                  K[p] = 0 /\ jt = It(p, i) /\ T = FromPlace(C, p, i)
        BY <1>5, <2>2, Zenon DEF Stands
      <3>p. PICK p \in DOMAIN K : \E i \in 1 .. Count(node[p]) : K[p] = 0 /\ it = It(p, i)
        BY <3>0
      <3>1. PICK i \in 1 .. Count(node[p]) : K[p] = 0 /\ it = It(p, i)
        BY <3>p
      <3>q. PICK q \in DOMAIN K : \E j \in 1 .. Count(node[q]) : K[q] = 0 /\ jt = It(q, j)
        BY <3>0
      <3>2. PICK j \in 1 .. Count(node[q]) : K[q] = 0 /\ jt = It(q, j)
        BY <3>q
      <3>3. KeyAt(it) = KeyIn(node[p], i) /\ KeyAt(jt) = KeyIn(node[q], j)
        BY <3>1, <3>2 DEF It, KeyAt, KeyIn
      <3>4. KeyAt(it) = KeyAt(jt) /\ KeyAt(it) \in Nat
        <4>1. KeyAt(it) \in T /\ KeyAt(jt) \in S
          BY <1>2, <1>5, <2>2
        <4>2. KeyAt(it) \in Nat /\ KeyAt(jt) \in Nat
          BY <1>1, <1>2, <1>5, <2>2
        <4>3. KeyAt(it) <= KeyAt(jt) /\ KeyAt(jt) <= KeyAt(it)
          BY <1>2, <1>5, <2>2, <4>1
        <4> QED
          BY <4>2, <4>3
      <3>5. KeyIn(node[p], i) \in Keys(node[p]) /\ KeyIn(node[q], j) \in Keys(node[q])
        BY <1>1, <3>1, <3>2, SlotSets
      <3>6. p = q
        <4> SUFFICES ASSUME p # q PROVE FALSE
          OBVIOUS
        <4>1. Beside(K, p, q)
          BY <3>1, <3>2, Zenon DEF Beside
        <4>2. KeyIn(node[p], i) < KeyIn(node[q], j) \/ KeyIn(node[q], j) < KeyIn(node[p], i)
          BY <1>1, <3>5, <4>1, Zenon DEF LeftOf
        <4> QED
          BY <3>3, <3>4, <4>2
      <3>7. i = j
        <4>1. j \in 1 .. Count(node[p]) /\ KeyIn(node[p], j) = KeyIn(node[p], i)
          BY <3>2, <3>3, <3>4, <3>6
        <4>2. LowerBound(node[p], KeyIn(node[p], i)) = i /\ LowerBound(node[p], KeyIn(node[p], j)) = j
          BY <1>1, <3>1, <4>1, LowerBoundFinds
        <4> QED
          BY <4>1, <4>2
      <3> QED
        BY <3>1, <3>2, <3>6, <3>7
    <2> QED
      BY <2>1, <2>2
  <1> QED
    BY <1>4, <1>5

\* moveNext goes past one entry.
LEMMA MovePasses ==
    ASSUME NEW K, NEW C, LeafParts(K, C), NEW it, NEW S, Stands(K, C, it, S)
    PROVE  IF S = {} THEN MoveNext(it) = EndIt
           ELSE Stands(K, C, MoveNext(it), S \ {KeyAt(it)})
  <1>1. /\ C \subseteq Nat
        /\ \A q \in DOMAIN K : K[q] = 0 => node[q] \in Nodes /\ Increasing(node[q])
        /\ \A x \in C : \E q \in DOMAIN K : K[q] = 0 /\ x \in Keys(node[q])
        /\ \A p, q : Beside(K, p, q) =>
              LeftOf(node[p], node[q]) \/ LeftOf(node[q], node[p])
    BY Zenon DEF LeafParts
  <1>2. S = {} => it = EndIt
    BY StandsFacts
  <1>3. CASE S = {}
    BY <1>2, <1>3 DEF MoveNext, EndIt
  <1>4. CASE S # {}
    <2>0. \E p \in DOMAIN K : \E i \in 1 .. Count(node[p]) :
                  K[p] = 0 /\ it = It(p, i) /\ S = FromPlace(C, p, i)
      BY <1>4, Zenon DEF Stands
    <2>p. PICK p \in DOMAIN K : \E i \in 1 .. Count(node[p]) :
                  K[p] = 0 /\ it = It(p, i) /\ S = FromPlace(C, p, i)
      BY <2>0
    <2>1. PICK i \in 1 .. Count(node[p]) : K[p] = 0 /\ it = It(p, i) /\ S = FromPlace(C, p, i)
      BY <2>p
    <2>2. /\ it.page = p /\ it.slot = i /\ it.end = FALSE
          /\ KeyAt(it) = KeyIn(node[p], i)
      BY <2>1 DEF It, KeyAt, KeyIn
    <2>3. /\ node[p] \in Nodes /\ Increasing(node[p]) /\ Count(node[p]) \in Nat
          /\ \A j \in 1 .. Count(node[p]) : /\ KeyIn(node[p], j) \in Nat
                                            /\ KeyIn(node[p], j) \in Keys(node[p])
      BY <1>1, <2>1, NodeFacts, SlotSets
    <2>k. PICK k : k = KeyIn(node[p], i)
      OBVIOUS
    <2>4. k \in Keys(node[p]) /\ k \in Nat /\ S = {x \in C : k <= x} /\ KeyAt(it) = k
      BY <2>1, <2>2, <2>3, <2>k, Zenon DEF FromPlace
    <2>5. CASE i # Count(node[p])
      <3>1. i + 1 \in 1 .. Count(node[p]) /\ i < i + 1
        BY <2>1, <2>3, <2>5
      <3>2. MoveNext(it) = It(p, i + 1)
        BY <2>2, <2>5, Zenon DEF MoveNext, Count
      <3>m. PICK m : m = KeyIn(node[p], i + 1)
        OBVIOUS
      <3>3. m \in Nat /\ k < m /\ m \in Keys(node[p])
        BY <2>1, <2>3, <2>k, <3>1, <3>m DEF Increasing
      <3>4. ASSUME NEW x \in C PROVE m <= x <=> k <= x /\ x # k
        <4>1. PICK q \in DOMAIN K : K[q] = 0 /\ x \in Keys(node[q])
          BY <1>1
        <4>2. x \in Nat
          BY <1>1
        <4>3. CASE q = p
          <5>1. PICK j \in 1 .. Count(node[p]) : x = KeyIn(node[p], j)
            BY <4>1, <4>3 DEF Keys, Slots, KeyIn
          <5>2. CASE j <= i
            <6>1. x <= k
              <7>1. CASE j = i
                BY <2>k, <4>2, <5>1, <7>1
              <7>2. CASE j < i
                <8>1. KeyIn(node[p], j) < KeyIn(node[p], i)
                  BY <2>1, <2>3, <5>1, <7>2 DEF Increasing
                <8> QED
                  BY <2>4, <2>k, <4>2, <5>1, <8>1
              <7> QED
                BY <2>1, <5>1, <5>2, <7>1, <7>2
            <6> QED
              BY <2>4, <3>3, <4>2, <6>1
          <5>3. CASE j > i
            <6>1. m <= x
              <7>1. CASE j = i + 1
                BY <3>m, <3>3, <4>2, <5>1, <7>1
              <7>2. CASE j > i + 1
                <8>1. KeyIn(node[p], i + 1) < KeyIn(node[p], j)
                  BY <2>3, <3>1, <5>1, <7>2 DEF Increasing
                <8> QED
                  BY <3>m, <3>3, <4>2, <5>1, <8>1
              <7> QED
                BY <2>1, <2>3, <5>1, <5>3, <7>1, <7>2
            <6> QED
              BY <2>4, <3>3, <4>2, <6>1
          <5> QED
            BY <2>1, <2>3, <5>1, <5>2, <5>3
        <4>4. CASE q # p
          <5>1. Beside(K, p, q)
            BY <2>1, <4>1, <4>4, Zenon DEF Beside
          <5>2. (x < k /\ x < m) \/ (k < x /\ m < x)
            BY <1>1, <2>4, <3>3, <4>1, <5>1, Zenon DEF LeftOf
          <5> QED
            BY <2>4, <3>3, <4>2, <5>2
        <4> QED
          BY <4>3, <4>4
      <3>5. S \ {KeyAt(it)} = FromPlace(C, p, i + 1)
        BY <2>4, <3>4, <3>m DEF FromPlace
      <3> QED
        BY <1>4, <2>1, <3>1, <3>2, <3>5, Zenon DEF Stands
    <2>6. CASE i = Count(node[p])
      <3>1. MoveNext(it) = IF node[p].next = NoNode THEN EndIt ELSE It(node[p].next, 1)
        BY <2>2, <2>6, Zenon DEF MoveNext, Count
      <3>2. Slots(node[p]) # {}
        BY <2>4, Zenon DEF Keys
      <3>3. Stands(K, C, MoveNext(it), Behind(C, p))
        BY <2>1, <3>1, <3>2, NextLeaf
      <3>4. ASSUME NEW x \in C
            PROVE  (\A y \in Keys(node[p]) : y < x) <=> k <= x /\ x # k
        <4>1. \A y \in Keys(node[p]) : y <= k /\ y \in Nat
          <5> SUFFICES ASSUME NEW y \in Keys(node[p]) PROVE y <= k /\ y \in Nat
            OBVIOUS
          <5>1. PICK j \in 1 .. Count(node[p]) : y = KeyIn(node[p], j)
            BY DEF Keys, Slots, KeyIn
          <5>2. CASE j = i
            BY <2>4, <2>k, <5>1, <5>2
          <5>3. CASE j < i
            BY <2>1, <2>3, <2>4, <2>k, <5>1, <5>3 DEF Increasing
          <5> QED
            BY <2>1, <2>3, <2>6, <5>1, <5>2, <5>3
        <4>2. x \in Nat
          BY <1>1
        <4> QED
          BY <2>4, <4>1, <4>2
      <3>5. S \ {KeyAt(it)} = Behind(C, p)
        BY <2>4, <3>4 DEF Behind
      <3> QED
        BY <1>4, <3>3, <3>5, Zenon
    <2> QED
      BY <2>5, <2>6
  <1> QED
    BY <1>3, <1>4

\* Records have RIDs other than (0, 0).
LEMMA EntriesArePositive == \A x \in Entries : x \in Nat /\ x > 0
  <1> SUFFICES ASSUME NEW d \in Data, NEW rid \in 1 .. MaxRid - 1
               PROVE  Key(d, rid) \in Nat /\ Key(d, rid) > 0
    BY DEF Entries
  <1>1. d \in Nat /\ MaxRid + 1 \in Nat /\ rid \in Nat /\ rid > 0
    BY DataAssumption, MaxRidAssumption
  <1>2. \A a, b, c \in Nat : c > 0 => a * b + c \in Nat /\ a * b + c > 0
    <2>1. \A a, b \in Nat : a * b \in Nat
      OBVIOUS
    <2> QED
      BY <2>1
  <1> QED
    BY <1>1, <1>2 DEF Key

LEMMA LeafOfKey ==
    ASSUME NEW K, NEW C, Tree(node, K, root, used, C), NEW k \in Nat,
           NEW p, p = LeafOf(k)
    PROVE  /\ p \in DOMAIN K /\ K[p] = 0 /\ p \in PageIds /\ node[p] \in Nodes
           /\ \A q : Beside(K, p, q) =>
                 /\ LeftOf(node[p], node[q]) => \A x \in Keys(node[q]) : k < x
                 /\ LeftOf(node[q], node[p]) => \A x \in Keys(node[q]) : x < k
  <1>a. PICK path : path = PathTo(k)
    OBVIOUS
  <1>p. p = path[Len(path)]
    BY <1>a, Zenon DEF LeafOf, Last
  <1>1. /\ Layered(node, K) /\ Whole(node, K, root, {}, {}, C)
        /\ \A q \in DOMAIN K : q \in PageIds /\ node[q] \in Nodes
    <2>1. TreeParts(node, K, root, used, C)
      BY TreeFacts
    <2> QED
      BY <2>1, Zenon DEF TreeParts
  <1>2. p \in DOMAIN K /\ K[p] = 0 /\ Home(node, K, p, k)
    <2>1. IsPath(node, K, root, k, path)
      BY <1>a, PathFacts
    <2>2. /\ K[root] \in Nat /\ Len(path) = K[root] + 1
          /\ \A d \in 1 .. K[root] + 1 : /\ path[d] \in DOMAIN K
                                         /\ K[path[d]] = (K[root] + 1) - d
                                         /\ Home(node, K, path[d], k)
      BY <2>1, Zenon DEF IsPath
    <2>3. K[root] + 1 \in 1 .. K[root] + 1 /\ (K[root] + 1) - (K[root] + 1) = 0
      BY <2>2
    <2> QED
      BY <1>p, <2>2, <2>3
  <1> QED
    BY <1>1, <1>2, HomeLeaf

\* Index::lowerBound stands before the entries that are not less.
LEMMA IteratorStands ==
    ASSUME NEW K, NEW C, Tree(node, K, root, used, C), NEW k \in Nat
    PROVE  Stands(K, C, IteratorAt(k), {x \in C : k <= x})
  <1>p. PICK p : p = LeafOf(k)
    OBVIOUS
  <1>b. PICK b : b = LowerBound(node[p], k)
    OBVIOUS
  <1>P. LeafParts(K, C)
    BY LeafFacts
  <1>1. /\ C \subseteq Nat
        /\ \A q \in DOMAIN K : K[q] = 0 => node[q] \in Nodes /\ Increasing(node[q])
        /\ \A x \in C : \E q \in DOMAIN K : K[q] = 0 /\ x \in Keys(node[q])
        /\ \A q, r : Beside(K, q, r) => /\ Slots(node[q]) # {}
                                        /\ LeftOf(node[q], node[r]) \/ LeftOf(node[r], node[q])
    BY <1>P, Zenon DEF LeafParts
  <1>2. /\ p \in DOMAIN K /\ K[p] = 0
        /\ \A q : Beside(K, p, q) =>
                 /\ LeftOf(node[p], node[q]) => \A x \in Keys(node[q]) : k < x
                 /\ LeftOf(node[q], node[p]) => \A x \in Keys(node[q]) : x < k
    BY <1>p, LeafOfKey
  <1>3. node[p] \in Nodes /\ Increasing(node[p]) /\ Count(node[p]) \in Nat
    BY <1>1, <1>2, NodeFacts
  <1>4. /\ b \in 1 .. Count(node[p]) + 1
        /\ \A j \in 1 .. Count(node[p]) : j < b => KeyIn(node[p], j) < k
        /\ b <= Count(node[p]) => KeyIn(node[p], b) >= k
    BY <1>3, <1>b, LowerBoundFacts
  <1>5. \A j \in 1 .. Count(node[p]) : /\ KeyIn(node[p], j) \in Nat
                                       /\ KeyIn(node[p], j) \in Keys(node[p])
    BY <1>3, NodeFacts, SlotSets
  <1>6. ASSUME NEW x \in C
        PROVE  /\ x \in Nat
               /\ \/ \E j \in 1 .. Count(node[p]) : x = KeyIn(node[p], j)
                  \/ x < k /\ \A y \in Keys(node[p]) : x < y
                  \/ k < x /\ \A y \in Keys(node[p]) : y < x
    <2>1. PICK q \in DOMAIN K : K[q] = 0 /\ x \in Keys(node[q])
      BY <1>1
    <2>2. CASE q = p
      BY <1>1, <2>1, <2>2 DEF Keys, Slots, KeyIn
    <2>3. CASE q # p
      <3>1. Beside(K, p, q)
        BY <1>2, <2>1, <2>3, Zenon DEF Beside
      <3>2. LeftOf(node[p], node[q]) \/ LeftOf(node[q], node[p])
        BY <1>1, <3>1, Zenon
      <3> QED
        BY <1>1, <1>2, <2>1, <3>1, <3>2, Zenon DEF LeftOf
    <2> QED
      BY <2>2, <2>3
  <1>7. CASE b <= Count(node[p])
    <2>1. b \in 1 .. Count(node[p])
      BY <1>3, <1>4, <1>7
    <2>2. IteratorAt(k) = It(p, b)
      BY <1>7, <1>b, <1>p, Zenon DEF IteratorAt, Count
    <2>c. PICK c : c = KeyIn(node[p], b)
      OBVIOUS
    <2>3. c \in Nat /\ k <= c /\ c \in Keys(node[p])
      BY <1>4, <1>5, <1>7, <2>1, <2>c
    <2>4. ASSUME NEW x \in C PROVE k <= x <=> c <= x
      <3>1. x \in Nat
        BY <1>6
      <3>2. CASE \E j \in 1 .. Count(node[p]) : x = KeyIn(node[p], j)
        <4>1. PICK j \in 1 .. Count(node[p]) : x = KeyIn(node[p], j)
          BY <3>2
        <4>2. CASE j < b
          <5>1. x < k
            BY <1>4, <4>1, <4>2
          <5> QED
            BY <2>3, <3>1, <5>1
        <4>3. CASE j = b
          BY <2>3, <2>c, <4>1, <4>3
        <4>4. CASE j > b
          <5>1. c < x
            BY <1>3, <2>1, <2>c, <4>1, <4>4 DEF Increasing
          <5> QED
            BY <2>3, <3>1, <5>1
        <4> QED
          BY <1>4, <4>1, <4>2, <4>3, <4>4
      <3>3. CASE (x < k /\ \A y \in Keys(node[p]) : x < y) \/ (k < x /\ \A y \in Keys(node[p]) : y < x)
        BY <2>3, <3>1, <3>3
      <3> QED
        BY <1>6, <3>2, <3>3
    <2>5. {x \in C : k <= x} = FromPlace(C, p, b)
      BY <2>4, <2>c DEF FromPlace
    <2> QED
      BY <1>2, <2>1, <2>2, <2>5, Zenon DEF Stands
  <1>8. CASE ~(b <= Count(node[p]))
    <2>1. IteratorAt(k) = IF node[p].next = NoNode THEN EndIt ELSE It(node[p].next, 1)
      BY <1>8, <1>b, <1>p, Zenon DEF IteratorAt, Count
    <2>2. C = {} \/ Slots(node[p]) # {}
      <3> SUFFICES ASSUME NEW x \in C PROVE Slots(node[p]) # {}
        OBVIOUS
      <3>1. PICK q \in DOMAIN K : K[q] = 0 /\ x \in Keys(node[q])
        BY <1>1
      <3>2. CASE q = p
        BY <3>1, <3>2, Zenon DEF Keys
      <3>3. CASE q # p
        <4>1. Beside(K, p, q)
          BY <1>2, <3>1, <3>3, Zenon DEF Beside
        <4> QED
          BY <1>1, <4>1
      <3> QED
        BY <3>2, <3>3
    <2>3. Stands(K, C, IteratorAt(k), Behind(C, p))
      BY <1>2, <1>P, <2>1, <2>2, NextLeaf
    <2>4. \A y \in Keys(node[p]) : y < k /\ y \in Nat
      <3> SUFFICES ASSUME NEW y \in Keys(node[p]) PROVE y < k /\ y \in Nat
        OBVIOUS
      <3>1. PICK j \in 1 .. Count(node[p]) : y = KeyIn(node[p], j)
        BY DEF Keys, Slots, KeyIn
      <3>2. j < b
        BY <1>3, <1>4, <1>8, <3>1
      <3> QED
        BY <1>4, <1>5, <3>1, <3>2
    <2>5. ASSUME NEW x \in C PROVE k <= x <=> \A y \in Keys(node[p]) : y < x
      <3>1. x \in Nat
        BY <1>6
      <3>2. CASE \E j \in 1 .. Count(node[p]) : x = KeyIn(node[p], j)
        <4>1. x \in Keys(node[p])
          BY <1>5, <3>2
        <4> QED
          BY <2>4, <3>1, <4>1
      <3>3. CASE x < k /\ \A y \in Keys(node[p]) : x < y
        <4>1. PICK y \in Keys(node[p]) : TRUE
          BY <2>2, Zenon DEF Keys
        <4> QED
          BY <2>4, <3>1, <3>3, <4>1
      <3>4. CASE k < x /\ \A y \in Keys(node[p]) : y < x
        BY <3>1, <3>4
      <3> QED
        BY <1>6, <3>2, <3>3, <3>4
    <2>6. {x \in C : k <= x} = Behind(C, p)
      BY <2>5 DEF Behind
    <2> QED
      BY <2>3, <2>6
  <1> QED
    BY <1>7, <1>8

\* begin() stands before all entries, if there are any.
LEMMA BeginStands ==
    ASSUME NEW K, NEW C, Tree(node, K, root, used, C), C # {}
    PROVE  Stands(K, C, Begin, C)
  <1>P. LeafParts(K, C)
    BY LeafFacts
  <1>a. PICK path : path = PathTo(0)
    OBVIOUS
  <1>p. PICK p : p = LeafOf(0)
    OBVIOUS
  <1>f. PICK f : f = [q \in PageIds |-> IF node[q].leaf THEN q ELSE node[q].slots[1].son]
    OBVIOUS
  <1>t. PICK at : at = Iterates(f, root, MaxHeight)
    OBVIOUS
  <1>1. /\ \A q \in DOMAIN K : /\ q \in PageIds /\ node[q] \in Nodes /\ Increasing(node[q])
                               /\ (node[q].leaf <=> K[q] = 0)
        /\ K[root] \in Nat /\ root \in DOMAIN K
    <2>1. TreeParts(node, K, root, used, C)
      BY TreeFacts
    <2> QED
      BY <2>1, Zenon DEF TreeParts
  <1>h. PICK h \in Nat : h = K[root] + 1 /\ h >= 1
    BY <1>1
  <1>2. MaxHeight \in Nat \ {0} /\ h <= MaxHeight
    <2>1. K[root] \in Nat /\ K[root] + 1 <= MaxHeight
      BY HeightFits
    <2>2. MaxHeight \in Int
      BY MaxPageNumAssumption DEF MaxHeight
    <2> QED
      BY <1>h, <2>1, <2>2
  <1>3. /\ Len(path) = h /\ path[1] = root
        /\ \A d \in 1 .. h : path[d] \in DOMAIN K /\ K[path[d]] = h - d
        /\ \A d \in 1 .. h - 1 : path[d + 1] = Son(node[path[d]], 0) /\ Slots(node[path[d]]) # {}
    <2>1. IsPath(node, K, root, 0, path)
      BY <1>a, PathFacts
    <2>2. /\ Len(path) = K[root] + 1 /\ path[1] = root
          /\ \A d \in 1 .. K[root] + 1 : path[d] \in DOMAIN K /\ K[path[d]] = (K[root] + 1) - d
          /\ \A d \in 1 .. K[root] : path[d + 1] = Son(node[path[d]], 0) /\ Slots(node[path[d]]) # {}
      BY <2>1, Zenon DEF IsPath
    <2>3. h - 1 = K[root]
      BY <1>1, <1>h
    <2> QED
      BY <1>h, <2>2, <2>3
  <1>4. p = path[h]
    BY <1>3, <1>a, <1>p, Zenon DEF LeafOf, Last
  <1>5. at[1] = root /\ \A d \in 2 .. MaxHeight : at[d] = f[at[d - 1]]
    BY <1>2, <1>t, IteratesDefined
  <1>6. ASSUME NEW d \in 1 .. h - 1
        PROVE  f[path[d]] = path[d + 1]
    <2>1. /\ path[d] \in DOMAIN K /\ K[path[d]] = h - d
          /\ path[d + 1] = Son(node[path[d]], 0) /\ Slots(node[path[d]]) # {}
      BY <1>3, <1>6
    <2>q. PICK q : q = path[d]
      OBVIOUS
    <2>2. q \in PageIds /\ node[q] \in Nodes /\ Increasing(node[q]) /\ ~node[q].leaf
      BY <1>1, <2>1, <2>q
    <2>3. Count(node[q]) \in Nat /\ Count(node[q]) > 0
      BY <2>1, <2>2, <2>q, SlotSets
    <2>i. PICK i : i = SonPos(node[q], 0)
      OBVIOUS
    <2>4. /\ i \in 1 .. Count(node[q])
          /\ i = 1 \/ KeyIn(node[q], i) <= 0
          /\ Son(node[q], 0) = SonIn(node[q], i)
      BY <2>2, <2>3, <2>i, SonPosFacts
    <2>5. KeyIn(node[q], i) \in Entries
      BY <2>2, <2>4, NodeFacts
    <2>6. KeyIn(node[q], i) \in Nat /\ KeyIn(node[q], i) > 0
      BY <2>5, EntriesArePositive
    <2>7. i = 1
      BY <2>4, <2>6
    <2>8. f[q] = node[q].slots[1].son
      BY <1>f, <2>2
    <2> QED
      BY <2>1, <2>4, <2>7, <2>8, <2>q, Zenon DEF SonIn
  <1>7. f[p] = p
    BY <1>1, <1>3, <1>4, <1>f, <1>h
  <1>8. at[MaxHeight] = p
    <2>G. PICK G : G = {d \in Nat : at[d] = IF d <= h THEN path[d] ELSE p}
      OBVIOUS
    <2>1. 1 \in G
      BY <1>3, <1>5, <1>h, <2>G
    <2>2. ASSUME NEW d \in 1 .. MaxHeight - 1, d \in G PROVE d + 1 \in G
      <3>1. d + 1 \in 2 .. MaxHeight /\ (d + 1) - 1 = d /\ d + 1 \in Nat
        BY <1>2
      <3>2. at[d + 1] = f[at[d]]
        BY <1>5, <3>1
      <3>3. at[d] = IF d <= h THEN path[d] ELSE p
        BY <2>2, <2>G
      <3>4. CASE d < h
        <4>1. d \in 1 .. h - 1
          BY <1>2, <3>4
        <4> QED
          BY <1>6, <2>G, <3>1, <3>2, <3>3, <3>4, <4>1
      <3>5. CASE d >= h
        <4>1. at[d] = p
          BY <1>2, <1>4, <3>3, <3>5
        <4> QED
          BY <1>7, <2>G, <3>1, <3>2, <3>5, <4>1
      <3> QED
        BY <1>2, <3>4, <3>5
    <2>3. 1 .. MaxHeight \subseteq G
      BY <1>2, <2>1, <2>2, InductionTo
    <2>4. MaxHeight \in G
      BY <1>2, <2>3
    <2> QED
      BY <1>2, <1>4, <2>4, <2>G
  <1>9. Begin = It(p, 1)
    BY <1>8, <1>f, <1>t, Zenon DEF Begin
  <1>10. C \subseteq Nat /\ {x \in C : 0 <= x} = C
    <2>1. C \subseteq Nat
      BY <1>P, Zenon DEF LeafParts
    <2>2. \A x \in C : 0 <= x
      BY <2>1
    <2> QED
      BY <2>1, <2>2
  <1>11. IteratorAt(0) = It(p, 1)
    <2>1. p \in DOMAIN K /\ K[p] = 0 /\ node[p] \in Nodes
      BY <1>p, LeafOfKey
    <2>2. Slots(node[p]) # {}
      <3>0. /\ \A x \in C : \E q \in DOMAIN K : K[q] = 0 /\ x \in Keys(node[q])
            /\ \A q, r : Beside(K, q, r) => Slots(node[q]) # {}
        BY <1>P, Zenon DEF LeafParts
      <3>1. PICK x \in C : TRUE
        OBVIOUS
      <3>2. PICK q \in DOMAIN K : K[q] = 0 /\ x \in Keys(node[q])
        BY <3>0
      <3>3. CASE q = p
        BY <3>2, <3>3, Zenon DEF Keys
      <3>4. CASE q # p
        <4>1. Beside(K, p, q)
          BY <2>1, <3>2, <3>4, Zenon DEF Beside
        <4> QED
          BY <3>0, <4>1
      <3> QED
        BY <3>3, <3>4
    <2>3. Count(node[p]) \in Nat /\ Count(node[p]) > 0
      BY <2>1, <2>2, SlotSets
    <2>b. PICK b : b = LowerBound(node[p], 0)
      OBVIOUS
    <2>4. /\ b \in 1 .. Count(node[p]) + 1
          /\ \A j \in 1 .. Count(node[p]) : j < b => KeyIn(node[p], j) < 0
      BY <2>1, <2>b, LowerBoundFacts
    <2>5. 1 \in 1 .. Count(node[p]) /\ KeyIn(node[p], 1) \in Nat
      BY <2>1, <2>3, NodeFacts
    <2>6. b = 1
      BY <2>4, <2>5
    <2>7. b <= Len(node[p].slots)
      BY <2>3, <2>6 DEF Count
    <2> QED
      BY <1>p, <2>6, <2>7, <2>b, Zenon DEF IteratorAt
  <1>12. Stands(K, C, IteratorAt(0), {x \in C : 0 <= x})
    BY IteratorStands
  <1> QED
    BY <1>9, <1>10, <1>11, <1>12, Zenon

\* What a loop from the entries A to the entries B has seen at its turn n: m are
\* its iterators, S are the entries before it.
Walked(K, C, m, A, B, n, S) ==
    /\ Stands(K, C, m[n], S) /\ B \subseteq S /\ S \subseteq A
    /\ A \ S = {KeyAt(m[j]) : j \in 1 .. n - 1}
    /\ \A j \in 1 .. n - 1 : InPage(m[j]) /\ \A x \in S : KeyAt(m[j]) < x
    /\ \A i, j \in 1 .. n - 1 : i < j => KeyAt(m[i]) < KeyAt(m[j])
    /\ IsFiniteSet(A \ S) /\ Cardinality(A \ S) = n - 1

LEMMA WalkStep ==
    ASSUME NEW K, NEW C, LeafParts(K, C), NEW m, NEW A, NEW B, NEW n \in Nat \ {0}, NEW S,
           Walked(K, C, m, A, B, n, S),
           NEW jt, Stands(K, C, jt, B), m[n] # jt, m[n + 1] = MoveNext(m[n])
    PROVE  \E T : Walked(K, C, m, A, B, n + 1, T)
  <1>1. C \subseteq Nat
    BY Zenon DEF LeafParts
  <1>2. /\ Stands(K, C, m[n], S) /\ B \subseteq S /\ S \subseteq A
        /\ A \ S = {KeyAt(m[j]) : j \in 1 .. n - 1}
        /\ \A j \in 1 .. n - 1 : InPage(m[j]) /\ \A x \in S : KeyAt(m[j]) < x
        /\ \A i, j \in 1 .. n - 1 : i < j => KeyAt(m[i]) < KeyAt(m[j])
        /\ IsFiniteSet(A \ S) /\ Cardinality(A \ S) = n - 1
    BY Zenon DEF Walked
  <1>3. S # B
    BY <1>2, StandsForOne
  <1>4. S # {}
    BY <1>2, <1>3
  <1>k. PICK k : k = KeyAt(m[n])
    OBVIOUS
  <1>5. S \subseteq C /\ InPage(m[n]) /\ k \in S /\ S = {x \in C : k <= x}
    BY <1>2, <1>4, <1>k, StandsFacts
  <1>6. k \notin B
    <2> SUFFICES ASSUME k \in B PROVE FALSE
      OBVIOUS
    <2>1. B # {} /\ B = {x \in C : KeyAt(jt) <= x} /\ KeyAt(jt) \in B
      BY StandsFacts
    <2>2. S \subseteq B
      <3> SUFFICES ASSUME NEW x \in S PROVE x \in B
        OBVIOUS
      <3>1. x \in Nat /\ k \in Nat /\ KeyAt(jt) \in Nat /\ x \in C
        BY <1>1, <1>2, <1>5, <2>1
      <3>2. k <= x /\ KeyAt(jt) <= k
        BY <1>5, <2>1
      <3> QED
        BY <2>1, <3>1, <3>2
    <2> QED
      BY <1>2, <1>3, <2>2
  <1>T. PICK T : T = S \ {k}
    OBVIOUS
  <1>7. Stands(K, C, m[n + 1], T)
    BY <1>2, <1>4, <1>k, <1>T, MovePasses
  <1>8. B \subseteq T /\ T \subseteq A
    BY <1>2, <1>6, <1>T
  <1>9. A \ T = (A \ S) \cup {k} /\ k \notin A \ S
    BY <1>2, <1>5, <1>T
  <1>10. IsFiniteSet(A \ T) /\ Cardinality(A \ T) = (n + 1) - 1
    <2>1. /\ IsFiniteSet((A \ S) \cup {k})
          /\ Cardinality((A \ S) \cup {k}) = Cardinality(A \ S) + 1
      BY <1>2, <1>9, FS_AddElement
    <2>2. (n - 1) + 1 = (n + 1) - 1
      OBVIOUS
    <2>3. IsFiniteSet(A \ T) /\ Cardinality(A \ T) = Cardinality(A \ S) + 1
      BY <1>9, <2>1, Zenon
    <2> QED
      BY <1>2, <2>2, <2>3, Zenon
  <1>11. \A j \in 1 .. (n + 1) - 1 : j \in 1 .. n - 1 \/ j = n
    OBVIOUS
  <1>12. \A j \in 1 .. n - 1 : j \in 1 .. (n + 1) - 1
    OBVIOUS
  <1>13. n \in 1 .. (n + 1) - 1
    OBVIOUS
  <1>14. A \ T = {KeyAt(m[j]) : j \in 1 .. (n + 1) - 1}
    BY <1>2, <1>9, <1>11, <1>12, <1>13, <1>k
  <1>15. ASSUME NEW x \in T PROVE k < x /\ x \in S
    BY <1>1, <1>5, <1>T
  <1>16. ASSUME NEW j \in 1 .. (n + 1) - 1
         PROVE  InPage(m[j]) /\ \A x \in T : KeyAt(m[j]) < x
    BY <1>2, <1>5, <1>11, <1>15, <1>k
  <1>17. ASSUME NEW i \in 1 .. (n + 1) - 1, NEW j \in 1 .. (n + 1) - 1, i < j
         PROVE  KeyAt(m[i]) < KeyAt(m[j])
    <2>1. i \in 1 .. n - 1
      BY <1>17
    <2>2. CASE j = n
      BY <1>2, <1>5, <1>k, <2>1, <2>2
    <2>3. CASE j \in 1 .. n - 1
      BY <1>2, <1>17, <2>1, <2>3
    <2> QED
      BY <1>11, <2>2, <2>3
  <1>18. Walked(K, C, m, A, B, n + 1, T)
    BY <1>7, <1>8, <1>10, <1>14, <1>16, <1>17, Zenon DEF Walked
  <1> QED
    BY <1>18

LEMMA EntriesFinite == IsFiniteSet(Entries)
  <1>P. PICK P : P = Data \X (1 .. MaxRid - 1)
    OBVIOUS
  <1>1. IsFiniteSet(P)
    <2>1. IsFiniteSet(Data) /\ IsFiniteSet(1 .. MaxRid - 1)
      BY DataAssumption, MaxRidAssumption, FS_Interval
    <2> QED
      BY <1>P, <2>1, FS_Product
  <1>f. PICK f : f = [e \in P |-> Key(e[1], e[2])]
    OBVIOUS
  <1>2. f \in [P -> Entries]
    <2>1. \A e \in P : Key(e[1], e[2]) \in Entries
      BY <1>P DEF Entries
    <2> QED
      BY <1>f, <2>1
  <1>3. ASSUME NEW x \in Entries PROVE \E e \in P : f[e] = x
    <2>1. PICK d \in Data, rid \in 1 .. MaxRid - 1 : x = Key(d, rid)
      BY DEF Entries
    <2>2. <<d, rid>> \in P /\ <<d, rid>>[1] = d /\ <<d, rid>>[2] = rid
      BY <1>P
    <2>3. f[<<d, rid>>] = Key(d, rid)
      BY <1>f, <2>2
    <2> QED
      BY <2>1, <2>2, <2>3
  <1>4. f \in Surjection(P, Entries)
    BY <1>2, <1>3, Zenon DEF Surjection
  <1> QED
    BY <1>1, <1>4, FS_Surjection

Collects(scan, X) ==
    /\ Range(scan) = X
    /\ \A i, j \in DOMAIN scan : i < j => scan[i] < scan[j]

\* A loop from iterator it to iterator jt collects the entries between them.
LEMMA WalkCollects ==
    ASSUME NEW K, NEW C, LeafParts(K, C), NEW A, NEW B, B \subseteq A,
           NEW it, Stands(K, C, it, A), NEW jt, Stands(K, C, jt, B),
           NEW scan, scan = UpTo(it, jt)
    PROVE  Collects(scan, A \ B)
  <1>1. C \subseteq Entries /\ C \subseteq Nat
    BY Zenon DEF LeafParts
  <1>2. A \subseteq C
    BY StandsFacts
  <1>N. PICK N : N = Cardinality(Entries) + 1
    OBVIOUS
  <1>3. N \in Nat \ {0} /\ Cardinality(Entries) \in Nat /\ N - 1 = Cardinality(Entries)
    BY <1>N, EntriesFinite, FS_CardinalityType
  <1>f. PICK f : f = [i \in Iterators |-> MoveNext(i)]
    OBVIOUS
  <1>m. PICK m : m = Iterates(f, it, N)
    OBVIOUS
  <1>4. DOMAIN m = 1 .. N /\ m[1] = it /\ \A d \in 2 .. N : m[d] = f[m[d - 1]]
    BY <1>3, <1>m, IteratesDefined
  <1>s. PICK s : s = {n \in DOMAIN m : m[n] = jt}
    OBVIOUS
  <1>5. scan = Collected(m, s)
    BY <1>N, <1>f, <1>m, <1>s, Zenon DEF UpTo, Moves
  <1>G. PICK G : G = {n \in Nat \ {0} : \E S : Walked(K, C, m, A, B, n, S)}
    OBVIOUS
  <1>6. 1 \in G
    <2>1. A \ A = {} /\ 1 .. 1 - 1 = {}
      OBVIOUS
    <2>2. IsFiniteSet({}) /\ Cardinality({}) = 1 - 1
      BY FS_EmptySet
    <2>3. {KeyAt(m[j]) : j \in {}} = {}
      OBVIOUS
    <2>4. Walked(K, C, m, A, B, 1, A)
      BY <1>4, <2>1, <2>2, <2>3, Zenon DEF Walked
    <2> QED
      BY <1>G, <2>4
  <1>7. ASSUME NEW n \in 1 .. N - 1, n \in G, n \notin s PROVE n + 1 \in G
    <2>1. PICK S : Walked(K, C, m, A, B, n, S)
      BY <1>7, <1>G
    <2>2. Stands(K, C, m[n], S)
      BY <2>1, Zenon DEF Walked
    <2>3. m[n] \in Iterators
      BY <2>2, StandsFacts
    <2>4. n + 1 \in 2 .. N /\ (n + 1) - 1 = n /\ n \in 1 .. N /\ n \in Nat \ {0}
      BY <1>3
    <2>5. m[n + 1] = MoveNext(m[n])
      BY <1>4, <1>f, <2>3, <2>4
    <2>6. m[n] # jt
      BY <1>4, <1>7, <1>s, <2>4
    <2>7. \E T : Walked(K, C, m, A, B, n + 1, T)
      BY <2>1, <2>4, <2>5, <2>6, WalkStep
    <2> QED
      BY <1>G, <2>4, <2>7
  <1>8. s # {}
    <2> SUFFICES ASSUME s = {} PROVE FALSE
      OBVIOUS
    <2>1. 1 .. N \subseteq G
      BY <1>3, <1>6, <1>7, InductionTo
    <2>2. N \in G /\ N \in 1 .. N
      BY <1>3, <2>1
    <2>3. PICK S : Walked(K, C, m, A, B, N, S)
      BY <1>G, <2>2
    <2>4. /\ Stands(K, C, m[N], S) /\ B \subseteq S /\ S \subseteq A
          /\ IsFiniteSet(A \ S) /\ Cardinality(A \ S) = N - 1
      BY <2>3, Zenon DEF Walked
    <2>5. A \ S \in SUBSET Entries
      BY <1>1, <1>2
    <2>6. A \ S = Entries
      BY <1>3, <2>4, <2>5, EntriesFinite, FS_Subset
    <2>7. S = {} /\ B = {}
      BY <1>1, <1>2, <2>4, <2>6
    <2>8. m[N] = jt
      BY <2>4, <2>7, StandsForOne
    <2> QED
      BY <1>4, <1>s, <2>2, <2>8
  <1>h. PICK h : h = Min(s)
    OBVIOUS
  <1>9. h \in s /\ \A n \in s : h <= n
    <2>1. s \in SUBSET Nat
      BY <1>4, <1>s
    <2> QED
      BY <1>8, <1>h, <2>1, MinNumber
  <1>10. h \in 1 .. N /\ m[h] = jt /\ h \in Nat
    BY <1>3, <1>4, <1>9, <1>s
  <1>11. h \in G
    <2>1. ASSUME NEW n \in 1 .. h - 1, n \in G PROVE n + 1 \in G
      <3>1. n \in 1 .. N - 1 /\ n < h /\ ~(h <= n)
        BY <1>3, <1>10
      <3>2. n \notin s
        BY <1>9, <3>1
      <3> QED
        BY <1>7, <2>1, <3>1, <3>2
    <2>2. 1 .. h \subseteq G
      BY <1>6, <1>10, <2>1, InductionTo
    <2> QED
      BY <1>10, <2>2
  <1>12. PICK S : Walked(K, C, m, A, B, h, S)
    BY <1>11, <1>G
  <1>13. /\ Stands(K, C, m[h], S)
         /\ A \ S = {KeyAt(m[j]) : j \in 1 .. h - 1}
         /\ \A j \in 1 .. h - 1 : InPage(m[j])
         /\ \A i, j \in 1 .. h - 1 : i < j => KeyAt(m[i]) < KeyAt(m[j])
    BY <1>12, Zenon DEF Walked
  <1>14. S = B
    BY <1>10, <1>13, StandsForOne
  <1>15. scan = [n \in 1 .. h - 1 |-> KeyAt(m[n])]
    BY <1>5, <1>8, <1>13, <1>h, Zenon DEF Collected
  <1>16. Range(scan) = {KeyAt(m[j]) : j \in 1 .. h - 1}
    BY <1>15 DEF Range
  <1>17. ASSUME NEW i \in DOMAIN scan, NEW j \in DOMAIN scan, i < j PROVE scan[i] < scan[j]
    BY <1>13, <1>15, <1>17
  <1>18. Range(scan) = A \ B
    BY <1>13, <1>14, <1>16
  <1> QED
    BY <1>17, <1>18, Zenon DEF Collects

LEMMA Rows ==
    ASSUME NEW w \in Nat, w > 0, NEW d \in Nat, NEW e \in Nat, NEW r \in 0 .. w - 1
    PROVE  /\ e * w + r \in Nat
           /\ (e * w + r) \div w = e
           /\ d <= e <=> d * w <= e * w + r
           /\ e < d <=> e * w + r < d * w
  <1>1. e * w + r \in Nat /\ d * w \in Nat /\ e * w \in Nat
    OBVIOUS
  <1>2. (e * w + r) \div w = e
    OBVIOUS
  <1>3. ASSUME d <= e PROVE d * w <= e * w
    BY <1>3
  <1>4. ASSUME e < d PROVE e * w + w <= d * w
    <2>1. PICK c \in Nat : d = e + 1 + c
      <3>1. d - (e + 1) \in Nat /\ d = (e + 1) + (d - (e + 1))
        BY <1>4
      <3> QED
        BY <3>1
    <2>2. d * w = e * w + w + c * w /\ c * w \in Nat
      BY <2>1
    <2> QED
      BY <1>1, <2>2
  <1> QED
    BY <1>1, <1>2, <1>3, <1>4

\* Entries are in the order of their data, between the keys of the bounds.
LEMMA KeyOrder ==
    ASSUME NEW d \in Data, NEW x \in Entries
    PROVE  /\ LowKey(d) \in Nat /\ HighKey(d) \in Nat
           /\ DataOf(x) \in Data
           /\ LowKey(d) <= x <=> d <= DataOf(x)
           /\ HighKey(d) <= x <=> d < DataOf(x)
  <1>w. PICK w \in Nat : w = MaxRid + 1 /\ w > 0
    BY MaxRidAssumption
  <1>1. PICK e \in Data, r \in 1 .. MaxRid - 1 : x = Key(e, r)
    BY DEF Entries
  <1>2. e \in Nat /\ d \in Nat
    BY DataAssumption
  <1>3. r \in 0 .. w - 1 /\ r < MaxRid /\ MaxRid \in 0 .. w - 1 /\ 0 \in 0 .. w - 1
    BY <1>w, MaxRidAssumption
  <1>4. /\ x = e * w + r /\ DataOf(x) = x \div w
        /\ LowKey(d) = d * w + 0 /\ HighKey(d) = d * w + MaxRid
    BY <1>1, <1>w DEF Key, DataOf, LowKey, HighKey
  <1>5. /\ x \in Nat /\ x \div w = e
        /\ d <= e <=> d * w <= x
        /\ e < d <=> x < d * w
    BY <1>2, <1>3, <1>4, <1>w, Rows
  <1>6. /\ d * w + MaxRid \in Nat /\ d * w + 0 \in Nat
        /\ e <= d <=> e * w <= d * w + MaxRid
        /\ d < e <=> d * w + MaxRid < e * w
    BY <1>2, <1>3, <1>w, Rows
  <1>7. d * w \in Nat /\ e * w \in Nat
    BY <1>2
  <1>8. HighKey(d) <= x <=> d < e
    <2>1. CASE d < e
      BY <1>3, <1>4, <1>6, <1>7, <2>1
    <2>2. CASE e < d
      <3>1. x < d * w
        BY <1>5, <2>2
      <3> QED
        BY <1>2, <1>3, <1>4, <1>5, <1>7, <2>2, <3>1
    <2>3. CASE d = e
      <3>1. HighKey(d) = e * w + MaxRid /\ x = e * w + r /\ ~(d < e)
        BY <1>2, <1>4, <2>3
      <3> QED
        BY <1>3, <1>7, <3>1
    <2> QED
      BY <1>2, <2>1, <2>2, <2>3
  <1>9. LowKey(d) <= x <=> d <= e
    <2>1. d * w + 0 = d * w
      BY <1>7
    <2> QED
      BY <1>4, <1>5, <2>1
  <1> QED
    BY <1>1, <1>4, <1>5, <1>6, <1>8, <1>9

AtLeast(C, d) == {x \in C : d <= DataOf(x)}
Above(C, d)   == {x \in C : d < DataOf(x)}

\* What the iterators of a data value stand for.
DataParts(K, C, d) ==
    /\ LeafParts(K, C) /\ Contents = C
    /\ \A x \in C : DataOf(x) \in Data
    /\ Stands(K, C, IteratorAt(LowKey(d)), AtLeast(C, d))
    /\ Stands(K, C, IteratorAt(HighKey(d)), Above(C, d))

LEMMA DataStands ==
    ASSUME NEW K, NEW C, Tree(node, K, root, used, C), NEW d \in Data
    PROVE  DataParts(K, C, d)
  <1>1. LeafParts(K, C)
    BY LeafFacts
  <1>2. C \subseteq Entries
    BY <1>1, Zenon DEF LeafParts
  <1>3. LowKey(d) \in Nat /\ HighKey(d) \in Nat
    <2>1. d \in Nat /\ MaxRid \in Nat /\ MaxRid + 1 \in Nat
      BY DataAssumption, MaxRidAssumption
    <2>2. d * (MaxRid + 1) \in Nat
      BY <2>1
    <2> QED
      BY <2>1, <2>2 DEF LowKey, HighKey, Key
  <1>4. ASSUME NEW x \in C
        PROVE  /\ DataOf(x) \in Data
               /\ LowKey(d) <= x <=> d <= DataOf(x)
               /\ HighKey(d) <= x <=> d < DataOf(x)
    BY <1>2, KeyOrder
  <1>5. /\ {x \in C : LowKey(d) <= x} = AtLeast(C, d)
        /\ {x \in C : HighKey(d) <= x} = Above(C, d)
    BY <1>4 DEF AtLeast, Above
  <1>6. /\ Stands(K, C, IteratorAt(LowKey(d)), {x \in C : LowKey(d) <= x})
        /\ Stands(K, C, IteratorAt(HighKey(d)), {x \in C : HighKey(d) <= x})
    BY <1>3, IteratorStands
  <1>7. Contents = C
    BY ContentsOfTree, Zenon DEF ContentsKnown
  <1>8. /\ Stands(K, C, IteratorAt(LowKey(d)), AtLeast(C, d))
        /\ Stands(K, C, IteratorAt(HighKey(d)), Above(C, d))
    BY <1>5, <1>6, Zenon
  <1> QED
    BY <1>1, <1>4, <1>7, <1>8, Zenon DEF DataParts

LEMMA EqualFromTree ==
    ASSUME NEW K, NEW C, Tree(node, K, root, used, C)
    PROVE  EqualScanCorrect
  <1> SUFFICES ASSUME NEW d \in Data PROVE Returns(SelectEQ(d), {d})
    BY Zenon DEF EqualScanCorrect
  <1>0. DataParts(K, C, d)
    BY DataStands
  <1>1. /\ LeafParts(K, C) /\ Contents = C /\ \A x \in C : DataOf(x) \in Data
        /\ Stands(K, C, IteratorAt(LowKey(d)), AtLeast(C, d))
        /\ Stands(K, C, IteratorAt(HighKey(d)), Above(C, d))
    BY <1>0, Zenon DEF DataParts
  <1>A. PICK A : A = AtLeast(C, d)
    OBVIOUS
  <1>B. PICK B : B = Above(C, d)
    OBVIOUS
  <1>2. ASSUME NEW x \in C PROVE DataOf(x) \in Nat /\ d \in Nat
    BY <1>1, DataAssumption
  <1>3. B \subseteq A /\ A \ B = {x \in C : DataOf(x) \in {d}}
    BY <1>2, <1>A, <1>B DEF AtLeast, Above
  <1>4. Collects(SelectEQ(d), A \ B)
    BY <1>1, <1>3, <1>A, <1>B, WalkCollects, Zenon DEF SelectEQ
  <1> QED
    BY <1>1, <1>3, <1>4, Zenon DEF Returns, Collects

LEMMA LessFromTree ==
    ASSUME NEW K, NEW C, Tree(node, K, root, used, C)
    PROVE  LessScansCorrect
  <1> SUFFICES ASSUME Contents # {}, NEW d \in Data
               PROVE  /\ Returns(SelectLT(d), {e \in Data : e < d})
                      /\ Returns(SelectLE(d), {e \in Data : e <= d})
    BY Zenon DEF LessScansCorrect
  <1>0. DataParts(K, C, d)
    BY DataStands
  <1>1. /\ LeafParts(K, C) /\ Contents = C /\ \A x \in C : DataOf(x) \in Data
        /\ Stands(K, C, IteratorAt(LowKey(d)), AtLeast(C, d))
        /\ Stands(K, C, IteratorAt(HighKey(d)), Above(C, d))
    BY <1>0, Zenon DEF DataParts
  <1>A. PICK A : A = AtLeast(C, d)
    OBVIOUS
  <1>B. PICK B : B = Above(C, d)
    OBVIOUS
  <1>2. ASSUME NEW x \in C PROVE DataOf(x) \in Nat /\ DataOf(x) \in Data /\ d \in Nat
    BY <1>1, DataAssumption
  <1>3. /\ A \subseteq C /\ C \ A = {x \in C : DataOf(x) \in {e \in Data : e < d}}
        /\ B \subseteq C /\ C \ B = {x \in C : DataOf(x) \in {e \in Data : e <= d}}
    BY <1>2, <1>A, <1>B DEF AtLeast, Above
  <1>4. Stands(K, C, Begin, C)
    BY <1>1, BeginStands
  <1>5. Collects(SelectLT(d), C \ A)
    BY <1>1, <1>3, <1>4, <1>A, WalkCollects, Zenon DEF SelectLT
  <1>6. Collects(SelectLE(d), C \ B)
    BY <1>1, <1>3, <1>4, <1>B, WalkCollects, Zenon DEF SelectLE
  <1> QED
    BY <1>1, <1>3, <1>5, <1>6, Zenon DEF Returns, Collects

LEMMA ContainsFromTree ==
    ASSUME NEW K, NEW C, Tree(node, K, root, used, C)
    PROVE  ContainsDataCorrect
  <1> SUFFICES ASSUME NEW d \in Data
               PROVE  ContainsData(d) <=> \E k \in Contents : DataOf(k) = d
    BY Zenon DEF ContainsDataCorrect
  <1>0. DataParts(K, C, d)
    BY DataStands
  <1>1. /\ LeafParts(K, C) /\ Contents = C /\ \A x \in C : DataOf(x) \in Data
        /\ Stands(K, C, IteratorAt(LowKey(d)), AtLeast(C, d))
        /\ Stands(K, C, IteratorAt(HighKey(d)), Above(C, d))
    BY <1>0, Zenon DEF DataParts
  <1>2. ContainsData(d) <=> AtLeast(C, d) # Above(C, d)
    <2>i. PICK it : it = IteratorAt(LowKey(d))
      OBVIOUS
    <2>j. PICK jt : jt = IteratorAt(HighKey(d))
      OBVIOUS
    <2>1. Stands(K, C, it, AtLeast(C, d)) /\ Stands(K, C, jt, Above(C, d))
      BY <1>1, <2>i, <2>j, Zenon
    <2>2. it = jt <=> AtLeast(C, d) = Above(C, d)
      BY <1>1, <2>1, StandsForOne
    <2> QED
      BY <2>2, <2>i, <2>j, Zenon DEF ContainsData
  <1>3. ASSUME NEW x \in C PROVE DataOf(x) \in Nat /\ d \in Nat
    BY <1>1, DataAssumption
  <1>4. AtLeast(C, d) # Above(C, d) <=> \E x \in C : DataOf(x) = d
    BY <1>3 DEF AtLeast, Above
  <1> QED
    BY <1>1, <1>2, <1>4

\* A scan for one value collects the RIDs of all its records, once and in order,
\* and ends at the first entry behind them, wherever splits and merges have put
\* them.
THEOREM EqualScans == Spec => []EqualScanCorrect
  <1>1. IInv => EqualScanCorrect
    BY EqualFromTree DEF IInv
  <1> QED
    BY <1>1, Invariance, PTL

\* The scans for lesser values start at begin() and collect all that is before
\* their bound, as long as the index has an entry.
THEOREM LessScans == Spec => []LessScansCorrect
  <1>1. IInv => LessScansCorrect
    BY LessFromTree DEF IInv
  <1> QED
    BY <1>1, Invariance, PTL

\* The checks for a value, which compare two iterators, find it exactly when
\* some record has it.
THEOREM ContainsDataExact == Spec => []ContainsDataCorrect
  <1>1. IInv => ContainsDataCorrect
    BY ContainsFromTree DEF IInv
  <1> QED
    BY <1>1, Invariance, PTL
=============================================================================

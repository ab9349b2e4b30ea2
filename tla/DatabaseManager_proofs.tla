------------------------- MODULE DatabaseManager_proofs -------------------------
(* The bitmap of file ids that FileManager keeps: setBit changes the bit it   *)
(* is asked to and no other, the root word stays exact, and findLeftOne finds *)
(* the least free id. From them: file ids and cache stay those of the         *)
(* database in use, through every statement, exception and end of the         *)
(* process: the inductive invariant of DatabaseManager and what follows from  *)
(* it, and that it implements DatabaseSet.                                    *)
EXTENDS DatabaseManager, NumberFacts, FiniteSetTheorems, SequenceTheorems

\* The table of powers of two is what its recursion says ...
LEMMA PowerOfTwoDef ==
    PowerOfTwo = [i \in 0 .. 31 |-> IF i = 0 THEN 1
                                    ELSE (2 * PowerOfTwo[i - 1]) % 61]
  <1> DEFINE T == <<1, 2, 4, 8, 16, 32, 3, 6, 12, 24, 48, 35, 9, 18, 36, 11,
                    22, 44, 27, 54, 47, 33, 5, 10, 20, 40, 19, 38, 15, 30, 60, 59>>
             g == [i \in 0 .. 31 |-> T[i + 1]]
  <1>1. g = [i \in 0 .. 31 |-> IF i = 0 THEN 1 ELSE (2 * g[i - 1]) % 61]
    OBVIOUS
  <1> HIDE DEF g
  <1> QED
    BY <1>1 DEF PowerOfTwo

\* ... and 61 tells the powers apart.
LEMMA PowersDiffer ==
    \A i, j \in 0 .. 31 : PowerOfTwo[i] = PowerOfTwo[j] => i = j
  <1>1. /\ PowerOfTwo[0] = 1   /\ PowerOfTwo[1] = 2   /\ PowerOfTwo[2] = 4
        /\ PowerOfTwo[3] = 8   /\ PowerOfTwo[4] = 16  /\ PowerOfTwo[5] = 32
        /\ PowerOfTwo[6] = 3   /\ PowerOfTwo[7] = 6   /\ PowerOfTwo[8] = 12
        /\ PowerOfTwo[9] = 24  /\ PowerOfTwo[10] = 48 /\ PowerOfTwo[11] = 35
        /\ PowerOfTwo[12] = 9  /\ PowerOfTwo[13] = 18 /\ PowerOfTwo[14] = 36
        /\ PowerOfTwo[15] = 11 /\ PowerOfTwo[16] = 22 /\ PowerOfTwo[17] = 44
        /\ PowerOfTwo[18] = 27 /\ PowerOfTwo[19] = 54 /\ PowerOfTwo[20] = 47
        /\ PowerOfTwo[21] = 33 /\ PowerOfTwo[22] = 5  /\ PowerOfTwo[23] = 10
        /\ PowerOfTwo[24] = 20 /\ PowerOfTwo[25] = 40 /\ PowerOfTwo[26] = 19
        /\ PowerOfTwo[27] = 38 /\ PowerOfTwo[28] = 15 /\ PowerOfTwo[29] = 30
        /\ PowerOfTwo[30] = 60 /\ PowerOfTwo[31] = 59
    BY PowerOfTwoDef
  <1> QED
    BY <1>1

\* h of initConst gives back the exponent of every power of two in a word.
THEOREM HashOfPower ==
    ASSUME NEW i \in 0 .. 31
    PROVE  H[PowerOfTwo[i]] = i
  <1>1. PowerOfTwo[i] \in 0 .. 60
    BY PowerOfTwoDef
  <1>2. {j \in 0 .. 31 : PowerOfTwo[j] = PowerOfTwo[i]} = {i}
    BY PowersDiffer
  <1>3. Max({i}) = i
    BY DEF Max
  <1> QED
    BY <1>1, <1>2, <1>3 DEF H

-----------------------------------------------------------------------------
Maps == [data: [Leaves -> SUBSET (0 .. WordBits - 1)], root: SUBSET Leaves]

\* The root word has a bit for each leaf word that is not zero.
RootExact(map) == map.root = {p \in Leaves : map.data[p] # {}}

\* An id is a leaf word and a bit of it.
LEMMA IdParts ==
    ASSUME NEW i \in Ids
    PROVE  /\ i \div WordBits \in Leaves
           /\ i % WordBits \in 0 .. WordBits - 1
           /\ i = (i \div WordBits) * WordBits + (i % WordBits)
  BY WordAssumption, FilesAssumption DEF Ids, Leaves

LEMMA PartsId ==
    ASSUME NEW p \in Leaves, NEW b \in 0 .. WordBits - 1
    PROVE  /\ p * WordBits + b \in Ids
           /\ (p * WordBits + b) \div WordBits = p
           /\ (p * WordBits + b) % WordBits = b
  BY WordAssumption, FilesAssumption DEF Ids, Leaves

LEMMA PartsOrder ==
    ASSUME NEW p \in Leaves, NEW q \in Leaves,
           NEW b \in 0 .. WordBits - 1, NEW c \in 0 .. WordBits - 1,
           p <= q, p = q => b <= c
    PROVE  p * WordBits + b <= q * WordBits + c
  BY WordAssumption, FilesAssumption DEF Leaves

\* Words have no more than 32 bits.
LEMMA WordSize ==
    /\ 0 .. WordBits - 1 \subseteq 0 .. 31
    /\ Leaves \subseteq 0 .. 31
  BY WordAssumption, FilesAssumption DEF Leaves

LEMMA FullMap ==
    /\ FullBitMap \in Maps
    /\ RootExact(FullBitMap)
    /\ Ones(FullBitMap) = Ids
  BY IdParts, WordAssumption DEF FullBitMap, Maps, RootExact, Ones

\* setBit changes the bit it is asked to and no other, and keeps the root exact.
THEOREM SetBitEffect ==
    ASSUME NEW map \in Maps, RootExact(map), NEW i \in Ids, NEW k \in {0, 1}
    PROVE  /\ SetBit(map, i, k) \in Maps
           /\ RootExact(SetBit(map, i, k))
           /\ Ones(SetBit(map, i, k)) =
                 IF k = 1 THEN Ones(map) \cup {i} ELSE Ones(map) \ {i}
  <1> DEFINE p == i \div WordBits
             b == i % WordBits
             leaf == WithBit(map.data[p], b, k)
             new == SetBit(map, i, k)
  <1>1. p \in Leaves /\ b \in 0 .. WordBits - 1 /\ i = p * WordBits + b
    BY IdParts
  <1>2. new = [data |-> [map.data EXCEPT ![p] = leaf],
               root |-> WithBit(map.root, p, IF leaf = {} THEN 0 ELSE 1)]
    BY DEF SetBit
  <1> HIDE DEF p, b, new
  <1>3. leaf \in SUBSET (0 .. WordBits - 1)
    BY <1>1 DEF Maps, WithBit
  <1>4. new \in Maps
    BY <1>1, <1>2, <1>3 DEF Maps, WithBit
  <1>5. RootExact(new)
    BY <1>1, <1>2 DEF Maps, WithBit, RootExact
  <1>6. ASSUME NEW j \in Ids
        PROVE  j \in Ones(new) <=>
                 IF k = 1 THEN j \in Ones(map) \/ j = i ELSE j \in Ones(map) /\ j # i
    <2>1. /\ j \div WordBits \in Leaves
          /\ j = (j \div WordBits) * WordBits + (j % WordBits)
      BY IdParts
    <2>2. CASE j \div WordBits = p
      <3>1. j = i <=> j % WordBits = b
        BY <1>1, <2>1, <2>2 DEF p, b
      <3>2. new.data[j \div WordBits] = leaf
        BY <1>1, <1>2, <2>2 DEF Maps
      <3> QED
        BY <2>2, <3>1, <3>2 DEF Ones, WithBit
    <2>3. CASE j \div WordBits # p
      <3>1. j # i
        BY <2>3 DEF p
      <3>2. new.data[j \div WordBits] = map.data[j \div WordBits]
        BY <1>1, <1>2, <2>1, <2>3 DEF Maps
      <3> QED
        BY <3>1, <3>2 DEF Ones
    <2> QED
      BY <2>2, <2>3
  <1>7. Ones(new) = IF k = 1 THEN Ones(map) \cup {i} ELSE Ones(map) \ {i}
    BY <1>6 DEF Ones
  <1> QED
    BY <1>4, <1>5, <1>7 DEF new

\* findLeftOne, by way of the root word and the hash of a word's lowest bit,
\* finds the least free id.
THEOREM LeftOneIsLeast ==
    ASSUME NEW map \in Maps, RootExact(map), Ones(map) # {}
    PROVE  /\ FindLeftOne(map) \in Ones(map)
           /\ \A j \in Ones(map) : FindLeftOne(map) <= j
           /\ FindLeftOne(map) = Min(Ones(map))
  <1> DEFINE p == Min(map.root)
             b == Min(map.data[p])
  <1>1. ASSUME NEW j \in Ones(map)
        PROVE  /\ j \div WordBits \in map.root
               /\ j % WordBits \in map.data[j \div WordBits]
    BY <1>1, IdParts DEF Ones, RootExact
  <1>2. map.root # {} /\ map.root \subseteq 0 .. 31
    BY <1>1, WordSize DEF Maps
  <1>3. p \in map.root /\ \A q \in map.root : p <= q
    BY <1>2, MinNumber
  <1>4. p \in Leaves /\ map.data[p] # {} /\ map.data[p] \subseteq 0 .. WordBits - 1
    BY <1>3 DEF Maps, RootExact
  <1>5. b \in map.data[p] /\ \A c \in map.data[p] : b <= c
    BY <1>4, WordSize, MinNumber
  <1>6. LowBitIndex(map.root) = p
    BY <1>2, <1>3, HashOfPower DEF LowBitIndex
  <1>7. LowBitIndex(map.data[p]) = b
    BY <1>4, <1>5, WordSize, HashOfPower DEF LowBitIndex
  <1> HIDE DEF p, b
  <1>8. FindLeftOne(map) = p * WordBits + b
    BY <1>6, <1>7 DEF FindLeftOne
  <1>9. p * WordBits + b \in Ones(map)
    BY <1>4, <1>5, PartsId DEF Ones
  <1>10. ASSUME NEW j \in Ones(map)
         PROVE  p * WordBits + b <= j
    <2>1. j \in Ids
      BY DEF Ones
    <2>2. /\ j \div WordBits \in Leaves
          /\ j % WordBits \in 0 .. WordBits - 1
          /\ j = (j \div WordBits) * WordBits + (j % WordBits)
      BY <2>1, IdParts
    <2>3. p <= j \div WordBits /\ (p = j \div WordBits => b <= j % WordBits)
      BY <1>1, <1>3, <1>5
    <2>4. b \in 0 .. WordBits - 1
      BY <1>4, <1>5
    <2>5. p * WordBits + b <= (j \div WordBits) * WordBits + (j % WordBits)
      BY <1>4, <2>2, <2>3, <2>4, PartsOrder
    <2> QED
      BY <2>2, <2>5
  <1>11. Ones(map) \subseteq Nat
    BY FilesAssumption DEF Ones, Ids
  <1>12. p * WordBits + b = Min(Ones(map))
    <2>1. /\ Min(Ones(map)) \in Ones(map)
          /\ \A j \in Ones(map) : Min(Ones(map)) <= j
      BY <1>11, MinNumber
    <2> QED
      BY <1>9, <1>10, <1>11, <2>1
  <1> QED
    BY <1>8, <1>9, <1>10, <1>12

-----------------------------------------------------------------------------
\* What a call of a statement is followed by.
FollowedWell(s, k) ==
    LET call == s[k][1]
        n    == s[k][2]
    IN  /\ call = "createFile" => /\ k + 2 <= Len(s)
                                  /\ s[k + 1] = <<"open", n>>
                                  /\ s[k + 2] = <<"writeMeta", n>>
        /\ call = "open" => /\ k + 1 <= Len(s)
                            /\ s[k + 1] \in {<<"writeMeta", n>>, <<"check", n>>}
        /\ call = "writeMeta"  => k + 1 <= Len(s) /\ s[k + 1] = <<"writeIndex", n>>
        /\ call = "writeIndex" => k + 1 <= Len(s) /\ s[k + 1] = <<"closeFile", n>>
        /\ call = "closeFile"  => k = Len(s)
        /\ call = "reset" => /\ k + 1 <= Len(s)
                             /\ \/ s[k + 1] = <<"remove", n>>
                                \/ /\ s[k + 1] = <<"open", n>>
                                   /\ k + 2 <= Len(s)
                                   /\ s[k + 2] = <<"check", n>>
        /\ call = "check"  => k = Len(s) \/ s[k + 1] = <<"reset", n>>
        /\ call = "remove" => k = Len(s) \/ s[k + 1][1] = "reset"
Ordered(s) == \A k \in 1 .. Len(s) : FollowedWell(s, k)

\* A file that is removed is not opened later in the statement.
RemovesOthers(s) ==
    \A j, k \in 1 .. Len(s) :
        j < k /\ s[j][1] = "remove" /\ s[k][1] = "open" => s[j][2] # s[k][2]

\* A file that will be opened is there, or an id may be lost.
OpensExisting ==
    \A k \in 1 .. Len(todo) :
        todo[k][1] = "open" =>
            \/ disk[todo[k][2]] # NoFile
            \/ Cardinality(Lost) < MaxLeaks
            \/ k > 1 /\ todo[k - 1][1] = "createFile"

\* What the next call relies on.
HeadReady ==
    todo # << >> =>
        LET call == todo[1][1]
            n    == todo[1][2]
        IN  /\ call = "open" => IF todo[2][1] = "check" THEN current = None
                                ELSE disk[n] # NoFile
            /\ call \in {"check", "remove"} => current = None
            /\ Working => /\ fd[fileID] = n
                          /\ disk[n] # NoFile
                          /\ current # None => current.id # fileID

IInv ==
    /\ TypeOK
    /\ RootExact(fm)
    /\ OpenFilesAccounted
    /\ CacheIsCurrent
    /\ dirty \subseteq CachedIds
    /\ current # None => disk[current.name] # NoFile
    /\ Cardinality(Lost) <= MaxLeaks
    /\ Ordered(todo)
    /\ RemovesOthers(todo)
    /\ OpensExisting
    /\ HeadReady
-----------------------------------------------------------------------------
(* Sets of ids, and the calls that are left of a statement.                   *)

LEMMA FewerIds ==
    ASSUME NEW T \in SUBSET Ids, NEW S \in SUBSET T
    PROVE  /\ Cardinality(S) \in Nat /\ Cardinality(T) \in Nat
           /\ Cardinality(S) <= Cardinality(T)
  <1>1. IsFiniteSet(Ids)
    BY FS_Interval, FilesAssumption DEF Ids
  <1>2. IsFiniteSet(T)
    BY <1>1, FS_Subset
  <1> QED
    BY <1>2, FS_Subset, FS_CardinalityType

LEMMA OneMoreId ==
    ASSUME NEW T \in SUBSET Ids, NEW x \in Ids, NEW S \in SUBSET (T \cup {x})
    PROVE  Cardinality(S) <= Cardinality(T) + 1
  <1>1. T \cup {x} \in SUBSET Ids
    OBVIOUS
  <1>2. Cardinality(S) <= Cardinality(T \cup {x})
    BY <1>1, FewerIds
  <1>3. IsFiniteSet(T)
    <2>1. IsFiniteSet(Ids)
      BY FS_Interval, FilesAssumption DEF Ids
    <2> QED
      BY <2>1, FS_Subset
  <1>4. Cardinality(T \cup {x}) = IF x \in T THEN Cardinality(T) ELSE Cardinality(T) + 1
    BY <1>3, FS_AddElement
  <1>5. Cardinality(T) \in Nat /\ Cardinality(S) \in Nat
    BY <1>1, FewerIds
  <1> QED
    BY <1>2, <1>4, <1>5

LEMMA AllIds == Cardinality(Ids) = MaxFiles
  BY FS_Interval, FilesAssumption DEF Ids

LEMMA TailOfCalls ==
    ASSUME NEW s \in Seq(Calls \X Names), s # << >>
    PROVE  /\ Tail(s) \in Seq(Calls \X Names)
           /\ Len(s) \in Nat \ {0}
           /\ Len(Tail(s)) = Len(s) - 1
           /\ \A k \in 1 .. Len(s) - 1 : Tail(s)[k] = s[k + 1]
  OBVIOUS

LEMMA TailKeepsOrder ==
    ASSUME NEW s \in Seq(Calls \X Names), s # << >>, Ordered(s), RemovesOthers(s)
    PROVE  Ordered(Tail(s)) /\ RemovesOthers(Tail(s))
  <1> DEFINE t == Tail(s)
  <1>1. /\ Len(s) \in Nat \ {0}
        /\ Len(t) = Len(s) - 1
        /\ \A k \in 1 .. Len(s) - 1 : t[k] = s[k + 1]
    BY TailOfCalls
  <1> HIDE DEF t
  <1>2. Ordered(t)
    <2> SUFFICES ASSUME NEW k \in 1 .. Len(t)
                 PROVE  FollowedWell(t, k)
      BY DEF Ordered
    <2>1. k + 1 \in 1 .. Len(s) /\ t[k] = s[k + 1]
      BY <1>1
    <2>2. k + 1 <= Len(t) => t[k + 1] = s[k + 1 + 1]
      BY <1>1
    <2>3. k + 2 <= Len(t) => t[k + 2] = s[k + 1 + 2]
      BY <1>1
    <2>4. FollowedWell(s, k + 1)
      BY <2>1 DEF Ordered
    <2> QED
      BY <1>1, <2>1, <2>2, <2>3, <2>4 DEF FollowedWell
  <1>3. RemovesOthers(t)
    <2> SUFFICES ASSUME NEW j \in 1 .. Len(t), NEW k \in 1 .. Len(t),
                        j < k, t[j][1] = "remove", t[k][1] = "open"
                 PROVE  t[j][2] # t[k][2]
      BY DEF RemovesOthers
    <2>1. j + 1 \in 1 .. Len(s) /\ k + 1 \in 1 .. Len(s) /\ j + 1 < k + 1
      BY <1>1
    <2> QED
      BY <1>1, <2>1 DEF RemovesOthers
  <1> QED
    BY <1>2, <1>3 DEF t

\* The head of a statement, for the steps that make it.
LEMMA HeadCall ==
    ASSUME TypeOK, NEW call, NEW n, Calling(call, n)
    PROVE  /\ todo \in Seq(Calls \X Names) /\ todo # << >>
           /\ Len(todo) \in Nat \ {0}
           /\ 1 \in 1 .. Len(todo)
           /\ todo[1] = <<call, n>> /\ Head(todo) = <<call, n>>
  BY DEF TypeOK, Calling

\* At an open there is an id left.
LEMMA IdLeft ==
    ASSUME IInv, NEW n \in Names, Calling("open", n)
    PROVE  /\ NextId \in Ids
           /\ NextId \in Ones(fm)
           /\ fd[NextId] = Closed
  <1>1. TypeOK /\ fm \in Maps /\ RootExact(fm) /\ OpenFilesAccounted
    BY DEF IInv, TypeOK, FileTypeOK, Maps
  <1>2. ~Working
    BY <1>1, HeadCall DEF Working
  <1>3. Ones(fm) # {}
    <2> SUFFICES ASSUME Ones(fm) = {} PROVE FALSE
      OBVIOUS
    <2> DEFINE x == IF current = None THEN 0 ELSE current.id
    <2>1. x \in Ids
      BY <1>1, FilesAssumption DEF TypeOK, Ids
    <2>2. Ids \in SUBSET (Lost \cup {x})
      BY <1>1, <1>2 DEF OpenFilesAccounted, Lost
    <2>3. Lost \in SUBSET Ids
      BY DEF Lost
    <2> HIDE DEF x
    <2>4. Cardinality(Ids) <= Cardinality(Lost) + 1
      BY <2>1, <2>2, <2>3, OneMoreId
    <2>5. Cardinality(Lost) <= MaxLeaks /\ Cardinality(Lost) \in Nat
      BY <2>3, FewerIds DEF IInv
    <2> QED
      BY <2>4, <2>5, AllIds, LeaksAssumption, FilesAssumption
  <1>4. NextId \in Ones(fm)
    BY <1>1, <1>3, LeftOneIsLeast DEF NextId
  <1> QED
    BY <1>1, <1>4 DEF Ones, OpenFilesAccounted
-----------------------------------------------------------------------------
(* What the calls of the file manager and of the cache do to the invariant.   *)

LEMMA LeastId ==
    ASSUME NEW map \in Maps, RootExact(map), Ones(map) # {}
    PROVE  FindLeftOne(map) = Min(Ones(map))
  BY LeftOneIsLeast

LEMMA InvFacts ==
    ASSUME IInv
    PROVE  /\ TypeOK
           /\ disk \in [Names -> Pages \cup {NoFile}]
           /\ fd \in [Ids -> Names \cup {Closed}]
           /\ fm \in Maps /\ RootExact(fm)
           /\ Lost \in SUBSET Ids
  BY DEF IInv, TypeOK, FileTypeOK, Maps, Lost

LEMMA CloseFileEffect ==
    ASSUME IInv, NEW id \in Ids, CloseFile(id)
    PROVE  /\ fd' \in [Ids -> Names \cup {Closed}]
           /\ fd' = [fd EXCEPT ![id] = Closed]
           /\ fm' \in Maps /\ RootExact(fm')
           /\ Ones(fm') = Ones(fm) \cup {id}
           /\ Ones(fm') # {} => FindLeftOne(fm') = Min(Ones(fm'))
           /\ Lost' \in SUBSET Lost
           /\ Cardinality(Lost') <= MaxLeaks
  <1>1. /\ fm' = SetBit(fm, id, 1)
        /\ fd' = [fd EXCEPT ![id] = Closed]
    BY DEF CloseFile
  <1>2. fm' \in Maps /\ RootExact(fm') /\ Ones(fm') = Ones(fm) \cup {id}
    BY <1>1, InvFacts, SetBitEffect
  <1>3. fd' \in [Ids -> Names \cup {Closed}]
    BY <1>1, InvFacts
  <1>4. Lost' \in SUBSET Lost
    BY <1>1, <1>2, InvFacts DEF Lost
  <1>5. Cardinality(Lost') <= MaxLeaks
    BY <1>4, InvFacts, FewerIds, LeaksAssumption DEF IInv
  <1>6. Ones(fm') # {} => FindLeftOne(fm') = Min(Ones(fm'))
    BY <1>2, LeastId
  <1> QED
    BY <1>1, <1>2, <1>3, <1>4, <1>5, <1>6

LEMMA CachedContents ==
    ASSUME TypeOK, NEW i \in CachedIds
    PROVE  i \in Ids /\ cache[i] \in Contents
  BY DEF TypeOK, CachedIds

LEMMA WrittenEffect ==
    ASSUME TypeOK, NEW id \in Ids, NEW p \in PageNos, NEW c \in Contents
    PROVE  /\ Written(id, p, c) \in [Names -> Pages \cup {NoFile}]
           /\ \A n \in Names : Written(id, p, c)[n] = NoFile <=> disk[n] = NoFile
  BY NoFileAssumption, ClosedAssumption DEF TypeOK, FileTypeOK, Written, Pages

LEMMA CloseCacheEffect ==
    ASSUME TypeOK, dirty \subseteq CachedIds, CloseCache
    PROVE  /\ disk' \in [Names -> Pages \cup {NoFile}]
           /\ \A n \in Names : disk'[n] = NoFile <=> disk[n] = NoFile
           /\ memory' \in Contents \cup {Fresh}
           /\ cache' \in [Ids -> Contents \cup {NotCached}]
           /\ CachedIds' = {} /\ dirty' = {}
           /\ reused' \in BOOLEAN
  <1>1. ASSUME NEW n \in Names
        PROVE  /\ disk'[n] \in Pages \cup {NoFile}
               /\ disk'[n] = NoFile <=> disk[n] = NoFile
    <2> DEFINE D == {i \in dirty : fd[i] = n}
               d == CHOOSE i \in D : TRUE
    <2>1. disk'[n] = IF D = {} THEN disk[n] ELSE Written(d, 0, cache[d])[n]
      BY DEF CloseCache
    <2>2. CASE D = {}
      BY <2>1, <2>2 DEF TypeOK, FileTypeOK
    <2>3. CASE D # {}
      <3>1. d \in CachedIds
        BY <2>3
      <3>2. d \in Ids /\ cache[d] \in Contents
        BY <3>1, CachedContents
      <3> HIDE DEF d, D
      <3>3. disk'[n] = Written(d, 0, cache[d])[n]
        BY <2>1, <2>3
      <3> QED
        BY <3>2, <3>3, WrittenEffect DEF PageNos
    <2> QED
      BY <2>2, <2>3
  <1>2. disk' \in [Names -> Pages \cup {NoFile}]
    <2>1. disk' = [n \in Names |-> disk'[n]]
      BY DEF CloseCache
    <2> QED
      BY <1>1, <2>1
  <1>3. memory' \in Contents \cup {Fresh}
    <2>1. CASE reused /\ CachedIds # {}
      <3> DEFINE c == CHOOSE i \in CachedIds : TRUE
      <3>1. c \in CachedIds
        BY <2>1
      <3>2. memory' = cache[c]
        BY <2>1 DEF CloseCache
      <3> HIDE DEF c
      <3> QED
        BY <3>1, <3>2, CachedContents
    <2>2. CASE ~(reused /\ CachedIds # {})
      BY <2>2 DEF CloseCache, TypeOK
    <2> QED
      BY <2>1, <2>2
  <1>4. /\ cache' \in [Ids -> Contents \cup {NotCached}]
        /\ CachedIds' = {} /\ dirty' = {} /\ reused' \in BOOLEAN
    BY DEF CloseCache, CachedIds
  <1> QED
    BY <1>1, <1>2, <1>3, <1>4

-----------------------------------------------------------------------------
(* A statement starts, makes a call, or ends.                                 *)

\* What is left of a statement after its first call.
LEMMA Returned ==
    ASSUME IInv, NEW call, NEW n, Calling(call, n), Return,
           Lost' \in SUBSET Lost,
           \A m \in Names : disk[m] # NoFile /\ disk'[m] = NoFile =>
                            call = "remove" /\ m = n,
           call = "createFile" => disk'[n] # NoFile
    PROVE  /\ todo' \in Seq(Calls \X Names)
           /\ Ordered(todo') /\ RemovesOthers(todo')
           /\ OpensExisting'
           /\ \A k \in 1 .. Len(todo) - 1 : todo'[k] = todo[k + 1]
           /\ Len(todo') = Len(todo) - 1
           /\ todo' = << >> <=> Len(todo) = 1
  <1>1. /\ todo \in Seq(Calls \X Names) /\ todo # << >>
        /\ todo[1] = <<call, n>> /\ todo' = Tail(todo)
    BY InvFacts, HeadCall DEF Return
  <1>2. /\ todo' \in Seq(Calls \X Names)
        /\ Len(todo) \in Nat \ {0}
        /\ Len(todo') = Len(todo) - 1
        /\ \A k \in 1 .. Len(todo) - 1 : todo'[k] = todo[k + 1]
    BY <1>1, TailOfCalls
  <1>3. Ordered(todo') /\ RemovesOthers(todo')
    BY <1>1, TailKeepsOrder DEF IInv
  <1>4. OpensExisting'
    <2> SUFFICES ASSUME NEW k \in 1 .. Len(todo'), todo'[k][1] = "open"
                 PROVE  \/ disk'[todo'[k][2]] # NoFile
                        \/ Cardinality(Lost') < MaxLeaks
                        \/ k > 1 /\ todo'[k - 1][1] = "createFile"
      BY DEF OpensExisting
    <2>1. /\ k + 1 \in 1 .. Len(todo) /\ todo'[k] = todo[k + 1]
          /\ k > 1 => todo'[k - 1] = todo[k]
      <3>1. k + 1 \in 1 .. Len(todo) /\ k \in 1 .. Len(todo) - 1
        BY <1>2
      <3>2. ASSUME k > 1 PROVE k - 1 \in 1 .. Len(todo) - 1 /\ (k - 1) + 1 = k
        BY <3>1, <3>2, <1>2
      <3>3. ASSUME k > 1 PROVE todo'[k - 1] = todo[(k - 1) + 1]
        BY <3>2, <3>3, <1>2
      <3> QED
        BY <1>2, <3>1, <3>2, <3>3
    <2>2. todo[k + 1] \in Calls \X Names
      BY <1>1, <2>1
    <2> DEFINE m == todo[k + 1][2]
    <2>3. m \in Names /\ m = todo'[k][2]
      BY <2>1, <2>2
    <2>4. \/ disk[m] # NoFile
          \/ Cardinality(Lost) < MaxLeaks
          \/ todo[k][1] = "createFile"
      BY <2>1 DEF IInv, OpensExisting
    <2>5. CASE disk[m] # NoFile
      <3>1. call = "remove" => m # n
        BY <1>1, <1>2, <2>1 DEF IInv, RemovesOthers
      <3> QED
        BY <2>3, <2>5, <3>1
    <2>6. CASE Cardinality(Lost) < MaxLeaks
      <3>1. /\ Cardinality(Lost') <= Cardinality(Lost)
            /\ Cardinality(Lost') \in Nat /\ Cardinality(Lost) \in Nat
        BY InvFacts, FewerIds
      <3> QED
        BY <2>6, <3>1, LeaksAssumption
    <2>7. CASE todo[k][1] = "createFile"
      <3>1. CASE k = 1
        <4>1. m = n
          BY <1>1, <2>7, <3>1 DEF IInv, Ordered, FollowedWell
        <4> QED
          BY <1>1, <2>3, <2>7, <3>1, <4>1
      <3>2. CASE k > 1
        BY <2>1, <2>7, <3>2
      <3> QED
        BY <3>1, <3>2
    <2> QED
      BY <2>4, <2>5, <2>6, <2>7
  <1>5. todo' = << >> <=> Len(todo) = 1
    BY <1>2
  <1> QED
    BY <1>2, <1>3, <1>4, <1>5

\* A statement that ends promises nothing more.
LEMMA Ended ==
    ASSUME Throw
    PROVE  /\ todo' \in Seq(Calls \X Names)
           /\ Ordered(todo') /\ RemovesOthers(todo')
           /\ OpensExisting' /\ HeadReady' /\ ~Working'
  BY DEF Throw, Ordered, FollowedWell, RemovesOthers, OpensExisting, HeadReady, Working

LEMMA Started ==
    ASSUME IInv, NEW calls \in Seq(Calls \X Names), Start(calls),
           Ordered(calls), RemovesOthers(calls),
           calls # << >> => calls[1][1] \in {"createFile", "reset"},
           \A k \in 1 .. Len(calls) :
               calls[k][1] = "open" =>
                   \/ disk[calls[k][2]] # NoFile
                   \/ Cardinality(Lost) < MaxLeaks
                   \/ k > 1 /\ calls[k - 1][1] = "createFile"
    PROVE  IInv'
  <1>1. /\ todo = << >> /\ todo' = calls
        /\ UNCHANGED <<disk, fd, fm, alive, fileID, current, cache, dirty,
                       memory, reused, made>>
    BY DEF Start, Idle, cacheVars
  <1>2. ~Working /\ ~Working'
    BY <1>1 DEF Working
  <1>3. TypeOK' /\ RootExact(fm)' /\ Cardinality(Lost)' <= MaxLeaks
    BY <1>1 DEF IInv, TypeOK, FileTypeOK, RootExact, Lost, Ones
  <1>4. OpenFilesAccounted'
    BY <1>1, <1>2 DEF IInv, OpenFilesAccounted, Ones, NextId
  <1>5. CacheIsCurrent' /\ (dirty \subseteq CachedIds)'
        /\ (current # None => disk[current.name] # NoFile)'
    BY <1>1 DEF IInv, CacheIsCurrent, CachedIds
  <1>6. OpensExisting'
    BY <1>1 DEF OpensExisting, Lost, Ones
  <1>7. HeadReady'
    BY <1>1, <1>2 DEF HeadReady
  <1> QED
    BY <1>1, <1>3, <1>4, <1>5, <1>6, <1>7 DEF IInv

LEMMA CreateStep ==
    ASSUME IInv, NEW n \in Names, CreateDatabase(n)
    PROVE  IInv'
  <1> DEFINE s == CreateCalls(n)
  <1>1. /\ s \in Seq(Calls \X Names) /\ Len(s) = 5
        /\ s[1] = <<"createFile", n>> /\ s[2] = <<"open", n>>
        /\ s[3] = <<"writeMeta", n>> /\ s[4] = <<"writeIndex", n>>
        /\ s[5] = <<"closeFile", n>>
    BY DEF CreateCalls, Calls
  <1>2. Start(s)
    BY DEF CreateDatabase
  <1> HIDE DEF s
  <1>3. Ordered(s) /\ RemovesOthers(s)
    BY <1>1 DEF Ordered, FollowedWell, RemovesOthers
  <1>4. s # << >> => s[1][1] \in {"createFile", "reset"}
    BY <1>1
  <1>5. ASSUME NEW k \in 1 .. Len(s), s[k][1] = "open"
        PROVE  k > 1 /\ s[k - 1][1] = "createFile"
    BY <1>1, <1>5
  <1> QED
    BY <1>1, <1>2, <1>3, <1>4, <1>5, Started

LEMMA UseStep ==
    ASSUME IInv, NEW n \in Names, UseDatabase(n)
    PROVE  IInv'
  <1> DEFINE s == UseCalls(n)
  <1>1. /\ s \in Seq(Calls \X Names) /\ Len(s) = 3
        /\ s[1] = <<"reset", n>> /\ s[2] = <<"open", n>> /\ s[3] = <<"check", n>>
    BY DEF UseCalls, Calls
  <1>2. Start(s) /\ MayFail(n)
    BY DEF UseDatabase
  <1> HIDE DEF s
  <1>3. Ordered(s) /\ RemovesOthers(s)
    BY <1>1 DEF Ordered, FollowedWell, RemovesOthers
  <1>4. s # << >> => s[1][1] \in {"createFile", "reset"}
    BY <1>1
  <1>5. ASSUME NEW k \in 1 .. Len(s), s[k][1] = "open"
        PROVE  disk[s[k][2]] # NoFile \/ Cardinality(Lost) < MaxLeaks
    BY <1>1, <1>2, <1>5 DEF MayFail
  <1> QED
    BY <1>1, <1>2, <1>3, <1>4, <1>5, Started

LEMMA JoinTwo ==
    ASSUME NEW S, NEW t \in Seq(S), NEW u \in Seq(S), Len(t) = 3, Len(u) = 2
    PROVE  /\ t \o u \in Seq(S) /\ Len(t \o u) = 5
           /\ (t \o u)[1] = t[1] /\ (t \o u)[2] = t[2] /\ (t \o u)[3] = t[3]
           /\ (t \o u)[4] = u[1] /\ (t \o u)[5] = u[2]
  <1> DEFINE s == t \o u
  <1>0. /\ s \in Seq(S) /\ Len(s) = Len(t) + Len(u)
        /\ \A i \in 1 .. Len(t) + Len(u) :
               s[i] = IF i <= Len(t) THEN t[i] ELSE u[i - Len(t)]
    BY ConcatProperties, Zenon
  <1> HIDE DEF s
  <1>1. /\ s \in Seq(S) /\ Len(s) = 5
        /\ \A i \in 1 .. 5 : s[i] = IF i <= 3 THEN t[i] ELSE u[i - 3]
    BY <1>0
  <1>2. s[1] = t[1] /\ s[2] = t[2] /\ s[3] = t[3] /\ s[4] = u[1] /\ s[5] = u[2]
    BY <1>1
  <1> QED
    BY <1>1, <1>2 DEF s

LEMMA JoinThree ==
    ASSUME NEW S, NEW t \in Seq(S), NEW u \in Seq(S), Len(t) = 5, Len(u) = 3
    PROVE  /\ t \o u \in Seq(S) /\ Len(t \o u) = 8
           /\ (t \o u)[1] = t[1] /\ (t \o u)[2] = t[2] /\ (t \o u)[3] = t[3]
           /\ (t \o u)[4] = t[4] /\ (t \o u)[5] = t[5]
           /\ (t \o u)[6] = u[1] /\ (t \o u)[7] = u[2] /\ (t \o u)[8] = u[3]
  <1> DEFINE s == t \o u
  <1>0. /\ s \in Seq(S) /\ Len(s) = Len(t) + Len(u)
        /\ \A i \in 1 .. Len(t) + Len(u) :
               s[i] = IF i <= Len(t) THEN t[i] ELSE u[i - Len(t)]
    BY ConcatProperties, Zenon
  <1> HIDE DEF s
  <1>1. /\ s \in Seq(S) /\ Len(s) = 8
        /\ \A i \in 1 .. 8 : s[i] = IF i <= 5 THEN t[i] ELSE u[i - 5]
    BY <1>0
  <1>2. /\ s[1] = t[1] /\ s[2] = t[2] /\ s[3] = t[3] /\ s[4] = t[4]
        /\ s[5] = t[5] /\ s[6] = u[1] /\ s[7] = u[2] /\ s[8] = u[3]
    BY <1>1
  <1> QED
    BY <1>1, <1>2 DEF s

LEMMA UseCallsAre ==
    ASSUME NEW n \in Names
    PROVE  /\ UseCalls(n) \in Seq(Calls \X Names) /\ Len(UseCalls(n)) = 3
           /\ UseCalls(n)[1] = <<"reset", n>>
           /\ UseCalls(n)[2] = <<"open", n>>
           /\ UseCalls(n)[3] = <<"check", n>>
  BY DEF UseCalls, Calls

\* DROP of the database in use, and of another one.
LEMMA OwnDrop ==
    ASSUME NEW n \in Names
    PROVE  LET s == DropCalls(n, n) IN
           /\ s \in Seq(Calls \X Names) /\ Len(s) = 5
           /\ s[1] = <<"reset", n>> /\ s[2] = <<"open", n>> /\ s[3] = <<"check", n>>
           /\ s[4] = <<"reset", n>> /\ s[5] = <<"remove", n>>
  <1> DEFINE u == UseCalls(n)
             w == <<<<"reset", n>>, <<"remove", n>>>>
             t == u \o w
  <1>1. /\ w \in Seq(Calls \X Names) /\ Len(w) = 2
        /\ w[1] = <<"reset", n>> /\ w[2] = <<"remove", n>>
    BY DEF Calls
  <1>2. DropCalls(n, n) = t \o << >>
    BY DEF DropCalls
  <1>0. u \in Seq(Calls \X Names) /\ Len(u) = 3
    BY UseCallsAre, Zenon
  <1> HIDE DEF u, w
  <1>3. /\ t \in Seq(Calls \X Names) /\ Len(t) = 5
        /\ t[1] = u[1] /\ t[2] = u[2] /\ t[3] = u[3] /\ t[4] = w[1] /\ t[5] = w[2]
    <2> DEFINE S == Calls \X Names
    <2>1. u \in Seq(S) /\ w \in Seq(S) /\ Len(u) = 3 /\ Len(w) = 2
      BY <1>0, <1>1
    <2> HIDE DEF S
    <2>2. /\ t \in Seq(S) /\ Len(t) = 5
          /\ t[1] = u[1] /\ t[2] = u[2] /\ t[3] = u[3] /\ t[4] = w[1] /\ t[5] = w[2]
      BY <2>1, JoinTwo
    <2> QED
      BY <2>2 DEF S
  <1> HIDE DEF t
  <1>4. DropCalls(n, n) = t
    BY <1>2, <1>3, ConcatEmptySeq, Zenon
  <1> QED
    BY <1>1, <1>3, <1>4, UseCallsAre, Zenon DEF u

LEMMA OtherDrop ==
    ASSUME NEW n \in Names, NEW p \in Names, p # n
    PROVE  LET s == DropCalls(n, p) IN
           /\ s \in Seq(Calls \X Names) /\ Len(s) = 8
           /\ s[1] = <<"reset", n>> /\ s[2] = <<"open", n>> /\ s[3] = <<"check", n>>
           /\ s[4] = <<"reset", n>> /\ s[5] = <<"remove", n>>
           /\ s[6] = <<"reset", p>> /\ s[7] = <<"open", p>> /\ s[8] = <<"check", p>>
  <1> DEFINE t == DropCalls(n, n)
             v == UseCalls(p)
             s == t \o v
  <1>1. DropCalls(n, p) = (UseCalls(n) \o <<<<"reset", n>>, <<"remove", n>>>>) \o v
    BY DEF DropCalls
  <1>2. t = (UseCalls(n) \o <<<<"reset", n>>, <<"remove", n>>>>) \o << >>
    BY DEF DropCalls
  <1>3. UseCalls(n) \o <<<<"reset", n>>, <<"remove", n>>>> \in Seq(Calls \X Names)
    <2>1. <<<<"reset", n>>, <<"remove", n>>>> \in Seq(Calls \X Names)
      BY DEF Calls
    <2>2. Len(<<<<"reset", n>>, <<"remove", n>>>>) = 2
      OBVIOUS
    <2> QED
      BY <2>1, <2>2, UseCallsAre, JoinTwo, Zenon
  <1>4. DropCalls(n, p) = s
    BY <1>1, <1>2, <1>3, ConcatEmptySeq, Zenon
  <1> HIDE DEF t, v
  <1>5. /\ t \in Seq(Calls \X Names) /\ Len(t) = 5
        /\ t[1] = <<"reset", n>> /\ t[2] = <<"open", n>> /\ t[3] = <<"check", n>>
        /\ t[4] = <<"reset", n>> /\ t[5] = <<"remove", n>>
    BY OwnDrop, Zenon DEF t
  <1>6. /\ v \in Seq(Calls \X Names) /\ Len(v) = 3
        /\ v[1] = <<"reset", p>> /\ v[2] = <<"open", p>> /\ v[3] = <<"check", p>>
    BY UseCallsAre, Zenon DEF v
  <1>7. /\ s \in Seq(Calls \X Names) /\ Len(s) = 8
        /\ s[1] = t[1] /\ s[2] = t[2] /\ s[3] = t[3] /\ s[4] = t[4] /\ s[5] = t[5]
        /\ s[6] = v[1] /\ s[7] = v[2] /\ s[8] = v[3]
    <2> DEFINE S == Calls \X Names
    <2>1. t \in Seq(S) /\ v \in Seq(S) /\ Len(t) = 5 /\ Len(v) = 3
      BY <1>5, <1>6
    <2> HIDE DEF S
    <2>2. /\ s \in Seq(S) /\ Len(s) = 8
          /\ s[1] = t[1] /\ s[2] = t[2] /\ s[3] = t[3] /\ s[4] = t[4]
          /\ s[5] = t[5] /\ s[6] = v[1] /\ s[7] = v[2] /\ s[8] = v[3]
      BY <2>1, JoinThree
    <2> QED
      BY <2>2 DEF S
  <1> HIDE DEF s
  <1> QED
    BY <1>4, <1>5, <1>6, <1>7, Zenon

LEMMA DropStep ==
    ASSUME IInv, NEW n \in Names, DropDatabase(n)
    PROVE  IInv'
  <1>1. CASE current = None
    <2>1. Start(<< >>)
      BY <1>1 DEF DropDatabase
    <2>2. Ordered(<< >>) /\ RemovesOthers(<< >>)
      BY DEF Ordered, FollowedWell, RemovesOthers
    <2>3. << >> \in Seq(Calls \X Names) /\ 1 .. Len(<< >>) = {}
      OBVIOUS
    <2> QED
      BY <2>1, <2>2, <2>3, Started, Zenon
  <1>2. CASE current # None
    <2> DEFINE p == current.name
               s == DropCalls(n, p)
    <2>1. p \in Names /\ disk[p] # NoFile
      BY <1>2 DEF IInv, TypeOK
    <2>2. Start(s) /\ MayFail(n)
      BY <1>2 DEF DropDatabase
    <2> HIDE DEF p, s
    <2>3. CASE p = n
      <3>1. /\ s \in Seq(Calls \X Names) /\ Len(s) = 5
            /\ s[1] = <<"reset", n>> /\ s[2] = <<"open", n>> /\ s[3] = <<"check", n>>
            /\ s[4] = <<"reset", n>> /\ s[5] = <<"remove", n>>
        BY <2>1, <2>3, OwnDrop, Zenon DEF s
      <3>2. Ordered(s) /\ RemovesOthers(s)
        BY <3>1 DEF Ordered, FollowedWell, RemovesOthers
      <3>3. s # << >> => s[1][1] \in {"createFile", "reset"}
        BY <3>1
      <3>4. ASSUME NEW k \in 1 .. Len(s), s[k][1] = "open"
            PROVE  disk[s[k][2]] # NoFile \/ Cardinality(Lost) < MaxLeaks
        BY <2>2, <3>1, <3>4 DEF MayFail
      <3> QED
        BY <2>2, <3>1, <3>2, <3>3, <3>4, Started
    <2>4. CASE p # n
      <3>1. /\ s \in Seq(Calls \X Names) /\ Len(s) = 8
            /\ s[1] = <<"reset", n>> /\ s[2] = <<"open", n>> /\ s[3] = <<"check", n>>
            /\ s[4] = <<"reset", n>> /\ s[5] = <<"remove", n>>
            /\ s[6] = <<"reset", p>> /\ s[7] = <<"open", p>> /\ s[8] = <<"check", p>>
        BY <2>1, <2>4, OtherDrop, Zenon DEF s
      <3>2. Ordered(s) /\ RemovesOthers(s)
        BY <2>4, <3>1 DEF Ordered, FollowedWell, RemovesOthers
      <3>3. s # << >> => s[1][1] \in {"createFile", "reset"}
        BY <3>1
      <3>4. ASSUME NEW k \in 1 .. Len(s), s[k][1] = "open"
            PROVE  disk[s[k][2]] # NoFile \/ Cardinality(Lost) < MaxLeaks
        BY <2>1, <2>2, <3>1, <3>4 DEF MayFail
      <3> QED
        BY <2>2, <3>1, <3>2, <3>3, <3>4, Started
    <2> QED
      BY <2>3, <2>4
  <1> QED
    BY <1>1, <1>2

-----------------------------------------------------------------------------
(* The calls.                                                                 *)

LEMMA ExecuteStep ==
    ASSUME IInv, Execute
    PROVE  IInv'
  <1>1. /\ todo = << >> /\ current # None /\ cache[current.id].rows < MaxRows
        /\ cache' = [cache EXCEPT ![current.id].rows = @ + 1]
        /\ dirty' = dirty \cup {current.id}
        /\ UNCHANGED <<disk, fd, fm, alive, todo, fileID, current, memory,
                       reused, made>>
    BY DEF Execute, Idle
  <1> DEFINE c == current.id
  <1>2. /\ c \in Ids /\ CachedIds = {c} /\ fd[c] = current.name
        /\ disk[current.name] # NoFile
    BY <1>1 DEF IInv, TypeOK, CacheIsCurrent
  <1>3. cache[c] \in Contents
    BY <1>2, InvFacts, CachedContents
  <1>4. [cache[c] EXCEPT !.rows = @ + 1] \in Contents
    BY <1>1, <1>3, RowsAssumption
  <1>5. cache' \in [Ids -> Contents \cup {NotCached}] /\ CachedIds' = {c}
    <2>1. cache' = [cache EXCEPT ![c] = [cache[c] EXCEPT !.rows = @ + 1]]
      BY <1>1
    <2>2. cache \in [Ids -> Contents \cup {NotCached}]
      BY DEF IInv, TypeOK
    <2> QED
      BY <1>2, <1>4, <2>1, <2>2, NoneAssumption DEF CachedIds
  <1> HIDE DEF c
  <1>6. TypeOK'
    BY <1>1, <1>2, <1>5 DEF IInv, TypeOK, FileTypeOK, c
  <1>7. ~Working /\ ~Working' /\ HeadReady' /\ OpensExisting'
    BY <1>1 DEF Working, HeadReady, OpensExisting
  <1>8. OpenFilesAccounted'
    BY <1>1, <1>7 DEF IInv, OpenFilesAccounted, Ones, NextId
  <1>9. CacheIsCurrent' /\ (dirty \subseteq CachedIds)'
    BY <1>1, <1>2, <1>5 DEF IInv, CacheIsCurrent, c
  <1>10. RootExact(fm)' /\ (Cardinality(Lost) <= MaxLeaks)'
         /\ (current # None => disk[current.name] # NoFile)'
    BY <1>1 DEF IInv, RootExact, Lost, Ones
  <1>11. Ordered(todo)' /\ RemovesOthers(todo)'
    BY <1>1 DEF IInv, Ordered, FollowedWell, RemovesOthers
  <1> QED
    BY <1>6, <1>7, <1>8, <1>9, <1>10, <1>11 DEF IInv

LEMMA CreateFileStep ==
    ASSUME IInv, NEW n \in Names, DoCreateFile(n)
    PROVE  IInv'
  <1>1. /\ Calling("createFile", n)
        /\ UNCHANGED <<fd, fm, alive, fileID, current, cache, dirty, memory,
                       reused, made>>
        /\ \/ /\ disk[n] = NoFile /\ disk' = [disk EXCEPT ![n] = EmptyFile] /\ Return
           \/ disk[n] # NoFile /\ disk' = disk /\ Throw
    BY DEF DoCreateFile, CreateFile, cacheVars, fileVars
  <1>2. /\ todo[1] = <<"createFile", n>> /\ todo # << >>
        /\ Head(todo) = <<"createFile", n>> /\ 1 \in 1 .. Len(todo)
        /\ Len(todo) \in Nat
    BY <1>1, InvFacts, HeadCall
  <1>3. ~Working
    BY <1>2 DEF Working
  <1>4. EmptyFile \in Pages /\ EmptyFile # NoFile
    BY NoFileAssumption DEF EmptyFile, Pages
  <1>5. /\ disk' \in [Names -> Pages \cup {NoFile}]
        /\ \A m \in Names : disk[m] # NoFile => disk'[m] # NoFile
    BY <1>1, <1>4, InvFacts
  <1>6. Lost' = Lost
    BY <1>1 DEF Lost, Ones
  <1>7. /\ todo' \in Seq(Calls \X Names)
        /\ Ordered(todo)' /\ RemovesOthers(todo)' /\ OpensExisting'
        /\ HeadReady' /\ ~Working'
    <2>1. CASE Throw
      BY <2>1, Ended
    <2>2. CASE disk' = [disk EXCEPT ![n] = EmptyFile] /\ Return
      <3>1. disk'[n] # NoFile
        BY <1>4, <2>2, InvFacts
      <3>2. /\ todo' \in Seq(Calls \X Names)
            /\ Ordered(todo)' /\ RemovesOthers(todo)' /\ OpensExisting'
            /\ \A k \in 1 .. Len(todo) - 1 : todo'[k] = todo[k + 1]
            /\ Len(todo') = Len(todo) - 1
        <4>1. /\ Lost' \in SUBSET Lost
              /\ \A m \in Names : ~(disk[m] # NoFile /\ disk'[m] = NoFile)
          BY <1>5, <1>6
        <4> QED
          BY <1>1, <2>2, <3>1, <4>1, Returned, Zenon
      <3>3. /\ Len(todo) >= 3 /\ todo[2] = <<"open", n>>
            /\ todo[3] = <<"writeMeta", n>>
        BY <1>2 DEF IInv, Ordered, FollowedWell
      <3>4. /\ todo' # << >> /\ Head(todo') = todo'[1]
            /\ todo'[1] = <<"open", n>> /\ todo'[2] = <<"writeMeta", n>>
        BY <1>2, <3>2, <3>3
      <3>5. ~Working'
        BY <3>4 DEF Working
      <3>6. HeadReady'
        BY <3>1, <3>4, <3>5 DEF HeadReady
      <3> QED
        BY <3>2, <3>5, <3>6
    <2> QED
      BY <1>1, <2>1, <2>2
  <1>8. TypeOK'
    BY <1>1, <1>5, <1>7 DEF IInv, TypeOK, FileTypeOK
  <1>9. OpenFilesAccounted'
    BY <1>1, <1>3, <1>7 DEF IInv, OpenFilesAccounted, Ones, NextId
  <1>10. CacheIsCurrent' /\ (dirty \subseteq CachedIds)' /\ RootExact(fm)'
    BY <1>1 DEF IInv, CacheIsCurrent, CachedIds, RootExact
  <1>11. (current # None => disk[current.name] # NoFile)'
    BY <1>1, <1>5 DEF IInv, TypeOK
  <1> QED
    BY <1>6, <1>7, <1>8, <1>9, <1>10, <1>11 DEF IInv

LEMMA OpenStep ==
    ASSUME IInv, NEW n \in Names, DoOpen(n)
    PROVE  IInv'
  <1>1. /\ Calling("open", n)
        /\ fileID' = NextId
        /\ fm' = SetBit(fm, NextId, 0)
        /\ fd' = IF disk[n] = NoFile THEN fd ELSE [fd EXCEPT ![NextId] = n]
        /\ IF disk[n] = NoFile THEN Throw ELSE Return
        /\ UNCHANGED <<disk, alive, current, cache, dirty, memory, reused, made>>
    BY DEF DoOpen, OpenFile, cacheVars
  <1>2. /\ todo[1] = <<"open", n>> /\ todo # << >>
        /\ Head(todo) = <<"open", n>> /\ 1 \in 1 .. Len(todo)
        /\ Len(todo) \in Nat
    BY <1>1, InvFacts, HeadCall
  <1>3. NextId \in Ids /\ NextId \in Ones(fm) /\ fd[NextId] = Closed
    BY <1>1, IdLeft
  <1> DEFINE id == NextId
  <1> HIDE DEF id
  <1>4. fm' \in Maps /\ RootExact(fm') /\ Ones(fm') = Ones(fm) \ {id}
    BY <1>1, <1>3, InvFacts, SetBitEffect DEF id
  <1>5. Ones(fm') # {} => FindLeftOne(fm') = Min(Ones(fm'))
    BY <1>4, LeastId
  <1>6. ~Working
    BY <1>2 DEF Working
  <1>7. fd' \in [Ids -> Names \cup {Closed}]
    BY <1>1, <1>3, InvFacts
  <1>8. current # None => current.id \in Ids /\ fd[current.id] # Closed
    BY DEF IInv, TypeOK, OpenFilesAccounted
  <1>9. /\ todo' \in Seq(Calls \X Names)
        /\ Ordered(todo)' /\ RemovesOthers(todo)' /\ OpensExisting' /\ HeadReady'
        /\ Cardinality(Lost') <= MaxLeaks
        /\ Working' <=> disk[n] # NoFile
    <2>1. CASE disk[n] = NoFile
      <3>1. Throw
        BY <1>1, <2>1
      <3>2. Cardinality(Lost) < MaxLeaks
        BY <1>2, <2>1 DEF IInv, OpensExisting
      <3>3. Lost' \in SUBSET (Lost \cup {id})
        BY <1>1, <1>4, <2>1 DEF Lost
      <3>4. Cardinality(Lost') <= Cardinality(Lost) + 1
        BY <1>3, <3>3, InvFacts, OneMoreId DEF id
      <3>5. Cardinality(Lost) \in Nat /\ Cardinality(Lost') \in Nat
        <4>1. Lost' \in SUBSET Ids
          BY DEF Lost
        <4> QED
          BY <4>1, InvFacts, FewerIds
      <3>6. Cardinality(Lost') <= MaxLeaks
        BY <3>2, <3>4, <3>5, LeaksAssumption
      <3> QED
        BY <2>1, <3>1, <3>6, Ended
    <2>2. CASE disk[n] # NoFile
      <3>1. Return /\ fd' = [fd EXCEPT ![id] = n]
        BY <1>1, <2>2 DEF id
      <3>2. Lost' \in SUBSET Lost
        BY <1>3, <1>4, <3>1, InvFacts, ClosedAssumption DEF Lost, id
      <3>3. /\ todo' \in Seq(Calls \X Names)
            /\ Ordered(todo)' /\ RemovesOthers(todo)' /\ OpensExisting'
            /\ \A k \in 1 .. Len(todo) - 1 : todo'[k] = todo[k + 1]
            /\ Len(todo') = Len(todo) - 1
        <4>1. \A m \in Names : ~(disk[m] # NoFile /\ disk'[m] = NoFile)
          BY <1>1
        <4> QED
          BY <1>1, <3>1, <3>2, <4>1, Returned, Zenon
      <3>4. Len(todo) >= 2 /\ todo[2] \in {<<"writeMeta", n>>, <<"check", n>>}
        BY <1>2 DEF IInv, Ordered, FollowedWell
      <3>5. todo' # << >> /\ Head(todo') = todo'[1] /\ todo'[1] = todo[2]
        BY <1>2, <3>3, <3>4
      <3>6. Working'
        BY <3>4, <3>5 DEF Working
      <3>7. todo[2][1] = "check" => current = None
        BY <1>2 DEF IInv, HeadReady
      <3>8. HeadReady'
        <4>1. todo'[1][2] = n /\ todo'[1][1] \in {"writeMeta", "check"}
          BY <3>4, <3>5
        <4>2. fd'[fileID'] = n
          BY <1>1, <1>3, <3>1, InvFacts DEF id
        <4>3. current # None => current.id # id
          BY <1>3, <1>8 DEF id
        <4>4. todo'[1][1] = "check" => current = None
          BY <3>5, <3>7
        <4> QED
          BY <1>1, <2>2, <4>1, <4>2, <4>3, <4>4 DEF HeadReady, id
      <3>9. Cardinality(Lost') <= MaxLeaks
        BY <3>2, InvFacts, FewerIds, LeaksAssumption DEF IInv
      <3> QED
        BY <2>2, <3>3, <3>6, <3>8, <3>9
    <2> QED
      BY <2>1, <2>2
  <1>10. TypeOK'
    BY <1>1, <1>3, <1>4, <1>7, <1>9 DEF IInv, TypeOK, FileTypeOK, Maps
  <1>11. OpenFilesAccounted'
    <2>1. {i \in Ids : fd'[i] # Closed} =
             (IF current = None THEN {} ELSE {current.id})
             \cup (IF disk[n] # NoFile THEN {id} ELSE {})
      <3>1. {i \in Ids : fd[i] # Closed} = IF current = None THEN {} ELSE {current.id}
        BY <1>6 DEF IInv, OpenFilesAccounted
      <3>2. CASE disk[n] = NoFile
        BY <1>1, <3>1, <3>2
      <3>3. CASE disk[n] # NoFile
        <4>1. fd' = [fd EXCEPT ![id] = n]
          BY <1>1, <3>3 DEF id
        <4>2. {i \in Ids : fd'[i] # Closed} = {i \in Ids : fd[i] # Closed} \cup {id}
          BY <1>3, <4>1, InvFacts, ClosedAssumption DEF id
        <4> QED
          BY <3>1, <3>3, <4>2
      <3> QED
        BY <3>2, <3>3
    <2>2. \A i \in Ones(fm') : fd'[i] = Closed
      BY <1>1, <1>3, <1>4, InvFacts DEF IInv, OpenFilesAccounted, Ones, id
    <2> QED
      BY <1>1, <1>5, <1>9, <2>1, <2>2, Zenon DEF OpenFilesAccounted, NextId, id
  <1>12. CacheIsCurrent' /\ (dirty \subseteq CachedIds)'
    <2>1. current # None => fd'[current.id] = fd[current.id]
      BY <1>1, <1>3, <1>8, InvFacts
    <2> QED
      BY <1>1, <2>1 DEF IInv, CacheIsCurrent, CachedIds
  <1>13. (current # None => disk[current.name] # NoFile)'
    BY <1>1 DEF IInv
  <1> QED
    BY <1>4, <1>9, <1>10, <1>11, <1>12, <1>13 DEF IInv

\* What the calls on an open file rely on.
LEMMA WorkingCall ==
    ASSUME IInv, NEW call \in {"writeMeta", "writeIndex", "closeFile", "check"},
           NEW n, Calling(call, n)
    PROVE  /\ Working /\ fileID \in Ids /\ fd[fileID] = n /\ disk[n] # NoFile
           /\ current # None => current.id # fileID
           /\ {i \in Ids : fd[i] # Closed} =
                 (IF current = None THEN {} ELSE {current.id}) \cup {fileID}
  <1>1. todo # << >> /\ todo[1] = <<call, n>> /\ Head(todo) = <<call, n>>
    BY InvFacts, HeadCall
  <1>2. Working
    BY <1>1 DEF Working
  <1> QED
    BY <1>1, <1>2 DEF IInv, HeadReady, OpenFilesAccounted, TypeOK

LEMMA WriteStep ==
    ASSUME IInv, NEW n \in Names, DoWrite(n)
    PROVE  IInv'
  <1>1. PICK call \in {"writeMeta", "writeIndex"}, p \in PageNos :
           /\ Calling(call, n)
           /\ disk' = Written(fileID, p, NewMeta(n))
           /\ UNCHANGED <<fd, fm, alive, fileID, current, cache, dirty, memory,
                          reused, made>>
           /\ Return
    BY DEF DoWrite, WritePage, PageNos, cacheVars
  <1>2. /\ Working /\ fileID \in Ids /\ fd[fileID] = n /\ disk[n] # NoFile
        /\ current # None => current.id # fileID
    BY <1>1, WorkingCall
  <1>3. NewMeta(n) \in Contents
    BY RowsAssumption DEF NewMeta
  <1>4. /\ disk' \in [Names -> Pages \cup {NoFile}]
        /\ \A m \in Names : disk'[m] = NoFile <=> disk[m] = NoFile
    BY <1>1, <1>2, <1>3, InvFacts, WrittenEffect
  <1>5. Lost' = Lost /\ Lost' \in SUBSET Lost
    BY <1>1 DEF Lost, Ones
  <1>6. /\ todo[1] = <<call, n>> /\ todo # << >> /\ 1 \in 1 .. Len(todo)
        /\ Len(todo) \in Nat
    BY <1>1, InvFacts, HeadCall
  <1>7. /\ todo' \in Seq(Calls \X Names)
        /\ Ordered(todo)' /\ RemovesOthers(todo)' /\ OpensExisting'
        /\ \A k \in 1 .. Len(todo) - 1 : todo'[k] = todo[k + 1]
        /\ Len(todo') = Len(todo) - 1
    <2>1. /\ \A m \in Names : ~(disk[m] # NoFile /\ disk'[m] = NoFile)
          /\ call # "createFile"
      BY <1>1, <1>4
    <2> QED
      BY <1>1, <1>5, <2>1, Returned, Zenon
  <1>8. Len(todo) >= 2 /\ todo[2] \in {<<"writeIndex", n>>, <<"closeFile", n>>}
    <2>1. FollowedWell(todo, 1)
      BY <1>6 DEF IInv, Ordered
    <2>2. CASE call = "writeMeta"
      <3>1. /\ todo[1][1] = "writeMeta" /\ todo[1][2] = n
            /\ Len(todo) \in Nat /\ 1 + 1 = 2
        BY <1>6, <2>2
      <3> QED
        BY <2>1, <3>1 DEF FollowedWell
    <2>3. CASE call = "writeIndex"
      <3>1. /\ todo[1][1] = "writeIndex" /\ todo[1][2] = n
            /\ Len(todo) \in Nat /\ 1 + 1 = 2
        BY <1>6, <2>3
      <3> QED
        BY <2>1, <3>1 DEF FollowedWell
    <2> QED
      BY <2>2, <2>3
  <1>9. todo' # << >> /\ Head(todo') = todo'[1] /\ todo'[1] = todo[2]
    BY <1>6, <1>7, <1>8
  <1>10. Working'
    BY <1>8, <1>9 DEF Working
  <1>11. HeadReady'
    <2>1. todo'[1][2] = n /\ todo'[1][1] \in {"writeIndex", "closeFile"}
      BY <1>8, <1>9
    <2> QED
      BY <1>1, <1>2, <1>4, <2>1 DEF HeadReady
  <1>12. TypeOK'
    BY <1>1, <1>4, <1>7 DEF IInv, TypeOK, FileTypeOK
  <1>13. OpenFilesAccounted'
    BY <1>1, <1>2, <1>10 DEF IInv, OpenFilesAccounted, Ones, NextId
  <1>14. CacheIsCurrent' /\ (dirty \subseteq CachedIds)' /\ RootExact(fm)'
    BY <1>1 DEF IInv, CacheIsCurrent, CachedIds, RootExact
  <1>15. (current # None => disk[current.name] # NoFile)'
    BY <1>1, <1>4 DEF IInv, TypeOK
  <1> QED
    BY <1>5, <1>7, <1>11, <1>12, <1>13, <1>14, <1>15 DEF IInv

LEMMA CloseFileStep ==
    ASSUME IInv, NEW n \in Names, DoCloseFile(n)
    PROVE  IInv'
  <1>1. /\ Calling("closeFile", n) /\ CloseFile(fileID) /\ Return
        /\ made' = made \cup {n}
        /\ UNCHANGED <<disk, alive, fileID, current, cache, dirty, memory, reused>>
    BY DEF DoCloseFile, cacheVars
  <1>2. /\ Working /\ fileID \in Ids /\ fd[fileID] = n
        /\ current # None => current.id # fileID
        /\ {i \in Ids : fd[i] # Closed} =
              (IF current = None THEN {} ELSE {current.id}) \cup {fileID}
    BY <1>1, WorkingCall
  <1>3. /\ fd' \in [Ids -> Names \cup {Closed}]
        /\ fd' = [fd EXCEPT ![fileID] = Closed]
        /\ fm' \in Maps /\ RootExact(fm')
        /\ Ones(fm') = Ones(fm) \cup {fileID}
        /\ Ones(fm') # {} => FindLeftOne(fm') = Min(Ones(fm'))
        /\ Cardinality(Lost') <= MaxLeaks
    BY <1>1, <1>2, CloseFileEffect
  <1>4. todo' = << >>
    <2>1. todo # << >> /\ todo[1] = <<"closeFile", n>> /\ 1 \in 1 .. Len(todo)
      BY <1>1, InvFacts, HeadCall
    <2>2. FollowedWell(todo, 1)
      BY <2>1 DEF IInv, Ordered
    <2>3. Len(todo) = 1
      BY <2>1, <2>2 DEF FollowedWell
    <2> QED
      BY <1>1, <2>3, InvFacts DEF Return, TypeOK
  <1>5. /\ todo' \in Seq(Calls \X Names) /\ Ordered(todo)' /\ RemovesOthers(todo)'
        /\ OpensExisting' /\ HeadReady' /\ ~Working'
    BY <1>4, Ended DEF Throw
  <1>6. TypeOK'
    BY <1>1, <1>3, <1>5 DEF IInv, TypeOK, FileTypeOK, Maps
  <1>7. OpenFilesAccounted'
    <2>1. {i \in Ids : fd'[i] # Closed} = {i \in Ids : fd[i] # Closed} \ {fileID}
      BY <1>2, <1>3, InvFacts
    <2>2. {i \in Ids : fd'[i] # Closed} = IF current = None THEN {} ELSE {current.id}
      BY <1>2, <2>1
    <2>3. \A i \in Ones(fm') : fd'[i] = Closed
      BY <1>2, <1>3, InvFacts DEF IInv, OpenFilesAccounted, Ones
    <2> QED
      BY <1>1, <1>3, <1>5, <2>2, <2>3 DEF OpenFilesAccounted, NextId
  <1>8. CacheIsCurrent' /\ (dirty \subseteq CachedIds)'
    <2>1. current # None => fd'[current.id] = fd[current.id]
      BY <1>2, <1>3, InvFacts DEF TypeOK
    <2> QED
      BY <1>1, <2>1 DEF IInv, CacheIsCurrent, CachedIds
  <1>9. (current # None => disk[current.name] # NoFile)'
    BY <1>1 DEF IInv
  <1> QED
    BY <1>3, <1>5, <1>6, <1>7, <1>8, <1>9 DEF IInv

\* The database in use is closed by a step that calls nothing on another file.
LEMMA DatabaseClosed ==
    ASSUME IInv, CloseDatabase, ~Working
    PROVE  /\ current' = None
           /\ disk' \in [Names -> Pages \cup {NoFile}]
           /\ \A n \in Names : disk'[n] = NoFile <=> disk[n] = NoFile
           /\ fd' \in [Ids -> Names \cup {Closed}]
           /\ fm' \in Maps /\ RootExact(fm')
           /\ cache' \in [Ids -> Contents \cup {NotCached}]
           /\ dirty' \subseteq Ids /\ reused' \in BOOLEAN
           /\ memory' \in Contents \cup {Fresh}
           /\ CachedIds' = {} /\ dirty' = {}
           /\ Lost' \in SUBSET Lost /\ Cardinality(Lost') <= MaxLeaks
           /\ \A i \in Ids : fd'[i] = Closed
           /\ Ones(fm') # {} => FindLeftOne(fm') = Min(Ones(fm'))
  <1>1. CASE current = None
    <2>1. UNCHANGED <<disk, fd, fm, current, cache, dirty, memory, reused>>
      BY <1>1 DEF CloseDatabase, cacheVars
    <2>2. Lost' = Lost /\ CachedIds' = CachedIds
      BY <2>1 DEF Lost, Ones, CachedIds
    <2>3. CachedIds = {} /\ dirty = {} /\ \A i \in Ids : fd[i] = Closed
      BY <1>1 DEF IInv, CacheIsCurrent, OpenFilesAccounted
    <2>4. /\ cache \in [Ids -> Contents \cup {NotCached}]
          /\ reused \in BOOLEAN /\ memory \in Contents \cup {Fresh}
          /\ Cardinality(Lost) <= MaxLeaks
      BY DEF IInv, TypeOK
    <2>5. Ones(fm) # {} => FindLeftOne(fm) = Min(Ones(fm))
      BY InvFacts, LeastId
    <2> QED
      BY <1>1, <2>1, <2>2, <2>3, <2>4, <2>5, InvFacts
  <1>2. CASE current # None
    <2>1. CloseCache /\ CloseFile(current.id) /\ current' = None
      BY <1>2 DEF CloseDatabase
    <2>2. current.id \in Ids /\ {i \in Ids : fd[i] # Closed} = {current.id}
      BY <1>2 DEF IInv, TypeOK, OpenFilesAccounted
    <2>3. /\ disk' \in [Names -> Pages \cup {NoFile}]
          /\ \A n \in Names : disk'[n] = NoFile <=> disk[n] = NoFile
          /\ memory' \in Contents \cup {Fresh}
          /\ cache' \in [Ids -> Contents \cup {NotCached}]
          /\ CachedIds' = {} /\ dirty' = {}
          /\ reused' \in BOOLEAN
      BY <2>1, InvFacts, CloseCacheEffect DEF IInv
    <2>4. /\ fd' \in [Ids -> Names \cup {Closed}]
          /\ fd' = [fd EXCEPT ![current.id] = Closed]
          /\ fm' \in Maps /\ RootExact(fm')
          /\ Ones(fm') # {} => FindLeftOne(fm') = Min(Ones(fm'))
          /\ Lost' \in SUBSET Lost /\ Cardinality(Lost') <= MaxLeaks
      BY <2>1, <2>2, CloseFileEffect
    <2>5. \A i \in Ids : fd'[i] = Closed
      BY <2>2, <2>4, InvFacts
    <2> QED
      BY <2>1, <2>3, <2>4, <2>5
  <1> QED
    BY <1>1, <1>2

LEMMA ResetStep ==
    ASSUME IInv, NEW n \in Names, DoReset(n)
    PROVE  IInv'
  <1>1. Calling("reset", n) /\ CloseDatabase /\ Return
        /\ UNCHANGED <<alive, fileID, made>>
    BY DEF DoReset
  <1>2. /\ todo[1] = <<"reset", n>> /\ todo # << >>
        /\ Head(todo) = <<"reset", n>> /\ 1 \in 1 .. Len(todo)
        /\ Len(todo) \in Nat
    BY <1>1, InvFacts, HeadCall
  <1>3. ~Working
    BY <1>2 DEF Working
  <1>4. /\ current' = None
        /\ disk' \in [Names -> Pages \cup {NoFile}]
        /\ \A m \in Names : disk'[m] = NoFile <=> disk[m] = NoFile
        /\ fd' \in [Ids -> Names \cup {Closed}]
        /\ fm' \in Maps /\ RootExact(fm')
        /\ cache' \in [Ids -> Contents \cup {NotCached}]
        /\ dirty' \subseteq Ids /\ reused' \in BOOLEAN
        /\ memory' \in Contents \cup {Fresh}
        /\ CachedIds' = {} /\ dirty' = {}
        /\ Lost' \in SUBSET Lost /\ Cardinality(Lost') <= MaxLeaks
        /\ \A i \in Ids : fd'[i] = Closed
        /\ Ones(fm') # {} => FindLeftOne(fm') = Min(Ones(fm'))
    BY <1>1, <1>3, DatabaseClosed
  <1>5. /\ todo' \in Seq(Calls \X Names)
        /\ Ordered(todo)' /\ RemovesOthers(todo)' /\ OpensExisting'
        /\ \A k \in 1 .. Len(todo) - 1 : todo'[k] = todo[k + 1]
        /\ Len(todo') = Len(todo) - 1
    <2>1. \A m \in Names : ~(disk[m] # NoFile /\ disk'[m] = NoFile)
      BY <1>4
    <2> QED
      BY <1>1, <1>4, <2>1, Returned, Zenon
  <1>6. FollowedWell(todo, 1)
    BY <1>2 DEF IInv, Ordered
  <1>7. /\ Len(todo) >= 2
        /\ \/ todo[2] = <<"remove", n>>
           \/ /\ todo[2] = <<"open", n>>
              /\ Len(todo) >= 3 /\ todo[3] = <<"check", n>>
    BY <1>2, <1>6 DEF FollowedWell
  <1>8. /\ todo' # << >> /\ Head(todo') = todo'[1] /\ todo'[1] = todo[2]
        /\ Len(todo) >= 3 => todo'[2] = todo[3]
    BY <1>2, <1>5, <1>7
  <1>9. ~Working'
    BY <1>7, <1>8 DEF Working
  <1>10. HeadReady'
    BY <1>4, <1>7, <1>8, <1>9 DEF HeadReady
  <1>11. TypeOK'
    BY <1>1, <1>4, <1>5 DEF IInv, TypeOK, FileTypeOK, Maps
  <1>12. OpenFilesAccounted'
    BY <1>4, <1>9 DEF OpenFilesAccounted, Ones, NextId
  <1>13. CacheIsCurrent' /\ (dirty \subseteq CachedIds)'
    BY <1>4 DEF CacheIsCurrent
  <1> QED
    BY <1>4, <1>5, <1>10, <1>11, <1>12, <1>13 DEF IInv

LEMMA CheckStep ==
    ASSUME IInv, NEW n \in Names, DoCheck(n)
    PROVE  IInv'
  <1>1. /\ Calling("check", n) /\ UNCHANGED <<alive, fileID, made>>
        /\ IF IsDatabase(MetaPage)
           THEN /\ cache'   = [cache EXCEPT ![fileID] = MetaPage]
                /\ current' = [name |-> n, id |-> fileID]
                /\ Return
                /\ UNCHANGED <<disk, fd, fm, dirty, memory, reused>>
           ELSE CloseCache /\ CloseFile(fileID) /\ Throw /\ UNCHANGED current
    BY DEF DoCheck, fileVars
  <1>2. /\ todo[1] = <<"check", n>> /\ todo # << >>
        /\ 1 \in 1 .. Len(todo) /\ Len(todo) \in Nat
    BY <1>1, InvFacts, HeadCall
  <1>3. current = None
    BY <1>2 DEF IInv, HeadReady
  <1>4. /\ Working /\ fileID \in Ids /\ fd[fileID] = n /\ disk[n] # NoFile
        /\ {i \in Ids : fd[i] # Closed} = {fileID}
    BY <1>1, <1>3, WorkingCall
  <1>5. CachedIds = {} /\ dirty = {}
    BY <1>3 DEF IInv, CacheIsCurrent
  <1>6. CASE IsDatabase(MetaPage)
    <2>1. /\ cache' = [cache EXCEPT ![fileID] = MetaPage]
          /\ current' = [name |-> n, id |-> fileID]
          /\ Return
          /\ UNCHANGED <<disk, fd, fm, dirty, memory, reused>>
      BY <1>1, <1>6
    <2>2. MetaPage \in Contents
      BY <1>6 DEF IsDatabase
    <2>3. Lost' \in SUBSET Lost
      BY <2>1 DEF Lost, Ones
    <2>4. /\ todo' \in Seq(Calls \X Names)
          /\ Ordered(todo)' /\ RemovesOthers(todo)' /\ OpensExisting'
          /\ \A k \in 1 .. Len(todo) - 1 : todo'[k] = todo[k + 1]
          /\ Len(todo') = Len(todo) - 1
          /\ todo' = << >> <=> Len(todo) = 1
      <3>1. \A m \in Names : ~(disk[m] # NoFile /\ disk'[m] = NoFile)
        BY <2>1
      <3> QED
        BY <1>1, <2>1, <2>3, <3>1, Returned, Zenon
    <2>5. FollowedWell(todo, 1)
      BY <1>2 DEF IInv, Ordered
    <2>6. todo' = << >> \/ (Head(todo') = todo'[1] /\ todo'[1] = <<"reset", n>>)
      BY <1>2, <2>4, <2>5 DEF FollowedWell
    <2>7. ~Working' /\ HeadReady'
      BY <2>6 DEF Working, HeadReady
    <2>8. /\ cache' \in [Ids -> Contents \cup {NotCached}]
          /\ CachedIds' = {fileID}
      <3>1. /\ cache \in [Ids -> Contents \cup {NotCached}]
            /\ \A i \in Ids : cache[i] = NotCached
        BY <1>5 DEF IInv, TypeOK, CachedIds
      <3> QED
        BY <1>4, <2>1, <2>2, <3>1, NoneAssumption DEF CachedIds
    <2>9. current' # None /\ current'.id = fileID /\ current'.name = n
          /\ current' \in [name: Names, id: Ids]
      BY <1>4, <2>1, NoneAssumption
    <2>10. TypeOK'
      BY <1>1, <2>1, <2>4, <2>8, <2>9 DEF IInv, TypeOK, FileTypeOK
    <2>11. OpenFilesAccounted'
      BY <1>4, <2>1, <2>7, <2>9 DEF IInv, OpenFilesAccounted, Ones, NextId
    <2>12. CacheIsCurrent' /\ (dirty \subseteq CachedIds)'
      BY <1>4, <1>5, <2>1, <2>8, <2>9 DEF CacheIsCurrent
    <2>13. (current # None => disk[current.name] # NoFile)'
      BY <1>4, <2>1, <2>9
    <2>14. RootExact(fm)' /\ (Cardinality(Lost) <= MaxLeaks)'
      BY <2>1 DEF IInv, RootExact, Lost, Ones
    <2> QED
      BY <2>4, <2>7, <2>10, <2>11, <2>12, <2>13, <2>14 DEF IInv
  <1>7. CASE ~IsDatabase(MetaPage)
    <2>1. CloseCache /\ CloseFile(fileID) /\ Throw /\ current' = None
      BY <1>1, <1>3, <1>7
    <2>2. /\ disk' \in [Names -> Pages \cup {NoFile}]
          /\ memory' \in Contents \cup {Fresh}
          /\ cache' \in [Ids -> Contents \cup {NotCached}]
          /\ CachedIds' = {} /\ dirty' = {}
          /\ reused' \in BOOLEAN
      BY <1>5, <2>1, InvFacts, CloseCacheEffect
    <2>3. /\ fd' \in [Ids -> Names \cup {Closed}]
          /\ fd' = [fd EXCEPT ![fileID] = Closed]
          /\ fm' \in Maps /\ RootExact(fm')
          /\ Ones(fm') # {} => FindLeftOne(fm') = Min(Ones(fm'))
          /\ Cardinality(Lost') <= MaxLeaks
      BY <1>4, <2>1, CloseFileEffect
    <2>4. \A i \in Ids : fd'[i] = Closed
      BY <1>4, <2>3, InvFacts
    <2>5. /\ todo' \in Seq(Calls \X Names)
          /\ Ordered(todo)' /\ RemovesOthers(todo)'
          /\ OpensExisting' /\ HeadReady' /\ ~Working'
      BY <2>1, Ended
    <2>6. TypeOK'
      BY <1>1, <2>1, <2>2, <2>3, <2>5 DEF IInv, TypeOK, FileTypeOK, Maps
    <2>7. OpenFilesAccounted'
      BY <2>1, <2>3, <2>4, <2>5 DEF OpenFilesAccounted, Ones, NextId
    <2>8. CacheIsCurrent' /\ (dirty \subseteq CachedIds)'
      BY <2>1, <2>2 DEF CacheIsCurrent
    <2> QED
      BY <2>1, <2>3, <2>5, <2>6, <2>7, <2>8 DEF IInv
  <1> QED
    BY <1>6, <1>7

LEMMA RemoveStep ==
    ASSUME IInv, NEW n \in Names, DoRemove(n)
    PROVE  IInv'
  <1>1. /\ Calling("remove", n) /\ Return
        /\ disk' = [disk EXCEPT ![n] = NoFile]
        /\ made' = made \ {n}
        /\ UNCHANGED <<fd, fm, alive, fileID, current, cache, dirty, memory, reused>>
    BY DEF DoRemove, RemoveFile, cacheVars
  <1>2. /\ todo[1] = <<"remove", n>> /\ todo # << >>
        /\ Head(todo) = <<"remove", n>>
        /\ 1 \in 1 .. Len(todo) /\ Len(todo) \in Nat
    BY <1>1, InvFacts, HeadCall
  <1>3. current = None
    BY <1>2 DEF IInv, HeadReady
  <1>4. ~Working
    BY <1>2 DEF Working
  <1>5. /\ disk' \in [Names -> Pages \cup {NoFile}]
        /\ \A m \in Names : disk[m] # NoFile /\ disk'[m] = NoFile => m = n
    BY <1>1, InvFacts
  <1>6. Lost' \in SUBSET Lost
    BY <1>1 DEF Lost, Ones
  <1>7. /\ todo' \in Seq(Calls \X Names)
        /\ Ordered(todo)' /\ RemovesOthers(todo)' /\ OpensExisting'
        /\ \A k \in 1 .. Len(todo) - 1 : todo'[k] = todo[k + 1]
        /\ Len(todo') = Len(todo) - 1
        /\ todo' = << >> <=> Len(todo) = 1
    BY <1>1, <1>5, <1>6, Returned, Zenon
  <1>8. FollowedWell(todo, 1)
    BY <1>2 DEF IInv, Ordered
  <1>9. \/ todo' = << >>
        \/ Head(todo')[1] = "reset" /\ todo'[1][1] = "reset"
    BY <1>2, <1>7, <1>8 DEF FollowedWell
  <1>10. ~Working' /\ HeadReady'
    BY <1>9 DEF Working, HeadReady
  <1>11. TypeOK'
    BY <1>1, <1>5, <1>7 DEF IInv, TypeOK, FileTypeOK
  <1>12. OpenFilesAccounted'
    BY <1>1, <1>4, <1>10 DEF IInv, OpenFilesAccounted, Ones, NextId
  <1>13. CacheIsCurrent' /\ (dirty \subseteq CachedIds)' /\ RootExact(fm)'
    BY <1>1 DEF IInv, CacheIsCurrent, CachedIds, RootExact
  <1>14. (current # None => disk[current.name] # NoFile)'
    BY <1>1, <1>3
  <1>15. (Cardinality(Lost) <= MaxLeaks)'
    BY <1>1 DEF IInv, Lost, Ones
  <1> QED
    BY <1>7, <1>10, <1>11, <1>12, <1>13, <1>14, <1>15 DEF IInv

LEMMA ExitStep ==
    ASSUME IInv, Exit
    PROVE  IInv'
  <1>1. /\ todo = << >> /\ todo' = << >> /\ CloseDatabase /\ alive' = FALSE
        /\ UNCHANGED <<fileID, made>>
    BY DEF Exit, Idle
  <1>2. ~Working
    BY <1>1 DEF Working
  <1>3. /\ current' = None
        /\ disk' \in [Names -> Pages \cup {NoFile}]
        /\ fd' \in [Ids -> Names \cup {Closed}]
        /\ fm' \in Maps /\ RootExact(fm')
        /\ cache' \in [Ids -> Contents \cup {NotCached}]
        /\ dirty' \subseteq Ids /\ reused' \in BOOLEAN
        /\ memory' \in Contents \cup {Fresh}
        /\ CachedIds' = {} /\ dirty' = {}
        /\ Cardinality(Lost') <= MaxLeaks
        /\ \A i \in Ids : fd'[i] = Closed
        /\ Ones(fm') # {} => FindLeftOne(fm') = Min(Ones(fm'))
    BY <1>1, <1>2, DatabaseClosed
  <1>4. /\ todo' \in Seq(Calls \X Names)
        /\ Ordered(todo)' /\ RemovesOthers(todo)'
        /\ OpensExisting' /\ HeadReady' /\ ~Working'
    BY <1>1, Ended DEF Throw
  <1>5. TypeOK'
    BY <1>1, <1>3, <1>4 DEF IInv, TypeOK, FileTypeOK, Maps
  <1>6. OpenFilesAccounted'
    BY <1>3, <1>4 DEF OpenFilesAccounted, Ones, NextId
  <1>7. CacheIsCurrent' /\ (dirty \subseteq CachedIds)'
    BY <1>3 DEF CacheIsCurrent
  <1> QED
    BY <1>3, <1>4, <1>5, <1>6, <1>7 DEF IInv

\* Where no process runs there is nothing to keep but the files.
LEMMA NoProcessHolds ==
    ASSUME disk' \in [Names -> Pages \cup {NoFile}], made' \subseteq Names,
           alive' \in BOOLEAN, todo' = << >>, fileID' = 0, current' = None,
           fd' = [i \in Ids |-> Closed], fm' = FullBitMap,
           cache' = [i \in Ids |-> NotCached],
           dirty' = {}, memory' = Fresh, reused' = FALSE
    PROVE  IInv'
  <1>1. fm' \in Maps /\ RootExact(fm') /\ Ones(fm') = Ids
    BY FullMap
  <1>2. /\ todo' \in Seq(Calls \X Names)
        /\ Ordered(todo)' /\ RemovesOthers(todo)'
        /\ OpensExisting' /\ HeadReady' /\ ~Working'
    BY Ended DEF Throw
  <1>3. 0 \in Ids
    BY FilesAssumption DEF Ids
  <1>4. TypeOK'
    BY <1>1, <1>2, <1>3 DEF TypeOK, FileTypeOK, Maps
  <1>5. OpenFilesAccounted'
    <2>1. Ones(fm') # {} => FindLeftOne(fm') = Min(Ones(fm'))
      BY <1>1, LeastId
    <2> QED
      BY <1>1, <1>2, <2>1 DEF OpenFilesAccounted, NextId
  <1>6. CacheIsCurrent' /\ (dirty \subseteq CachedIds)'
    BY DEF CacheIsCurrent, CachedIds
  <1>7. (Cardinality(Lost) <= MaxLeaks)'
    <2>1. Lost' = {}
      BY <1>1 DEF Lost
    <2> QED
      BY <2>1, FS_EmptySet, LeaksAssumption
  <1> QED
    BY <1>1, <1>2, <1>4, <1>5, <1>6, <1>7 DEF IInv

LEMMA InitHolds == Init => IInv
  <1> SUFFICES ASSUME Init PROVE IInv
    OBVIOUS
  <1>1. fm \in Maps /\ RootExact(fm) /\ Ones(fm) = Ids
    BY FullMap DEF Init, FileInit
  <1>2. /\ todo \in Seq(Calls \X Names) /\ Ordered(todo) /\ RemovesOthers(todo)
        /\ OpensExisting /\ HeadReady /\ ~Working
    BY DEF Init, Ordered, RemovesOthers, OpensExisting, HeadReady, Working
  <1>3. 0 \in Ids
    BY FilesAssumption DEF Ids
  <1>4. TypeOK
    BY <1>1, <1>2, <1>3 DEF Init, FileInit, TypeOK, FileTypeOK, Maps
  <1>5. OpenFilesAccounted
    <2>1. Ones(fm) # {} => FindLeftOne(fm) = Min(Ones(fm))
      BY <1>1, LeastId
    <2> QED
      BY <1>1, <1>2, <2>1 DEF Init, FileInit, OpenFilesAccounted, NextId
  <1>6. CacheIsCurrent /\ dirty \subseteq CachedIds
    BY DEF Init, CacheIsCurrent, CachedIds
  <1>7. Cardinality(Lost) <= MaxLeaks
    <2>1. Lost = {}
      BY <1>1 DEF Lost
    <2> QED
      BY <2>1, FS_EmptySet, LeaksAssumption
  <1>8. current = None
    BY DEF Init
  <1> QED
    BY <1>1, <1>2, <1>4, <1>5, <1>6, <1>7, <1>8 DEF IInv

LEMMA EndStep ==
    ASSUME IInv, Kill \/ Restart
    PROVE  IInv'
  <1>1. alive' \in BOOLEAN /\ NoProcess
    BY DEF Kill, Restart
  <1>2. disk' \in [Names -> Pages \cup {NoFile}] /\ made' \subseteq Names
    BY <1>1 DEF NoProcess, IInv, TypeOK, FileTypeOK
  <1> QED
    BY <1>1, <1>2, NoProcessHolds DEF NoProcess, NoOpenFiles

LEMMA StutterStep ==
    ASSUME IInv, UNCHANGED vars
    PROVE  IInv'
  BY DEF IInv, vars, TypeOK, FileTypeOK, RootExact, OpenFilesAccounted, Working,
         Ones, NextId, CacheIsCurrent, CachedIds, Lost, Ordered, RemovesOthers,
         OpensExisting, HeadReady
-----------------------------------------------------------------------------
\* The invariant holds after every call of every statement, for any number of
\* databases, file ids, statements and lost ids, whatever call the process
\* ends after.
THEOREM Invariance == Spec => []IInv
  <1>1. Init => IInv
    BY InitHolds
  <1>2. IInv /\ [Next]_vars => IInv'
    <2> SUFFICES ASSUME IInv, [Next]_vars PROVE IInv'
      OBVIOUS
    <2>1. ASSUME NEW n \in Names, CreateDatabase(n) PROVE IInv'
      BY <2>1, CreateStep
    <2>2. ASSUME NEW n \in Names, UseDatabase(n) PROVE IInv'
      BY <2>2, UseStep
    <2>3. ASSUME NEW n \in Names, DropDatabase(n) PROVE IInv'
      BY <2>3, DropStep
    <2>4. CASE Execute
      BY <2>4, ExecuteStep
    <2>5. ASSUME NEW n \in Names, DoCreateFile(n) PROVE IInv'
      BY <2>5, CreateFileStep
    <2>6. ASSUME NEW n \in Names, DoOpen(n) PROVE IInv'
      BY <2>6, OpenStep
    <2>7. ASSUME NEW n \in Names, DoWrite(n) PROVE IInv'
      BY <2>7, WriteStep
    <2>8. ASSUME NEW n \in Names, DoCloseFile(n) PROVE IInv'
      BY <2>8, CloseFileStep
    <2>9. ASSUME NEW n \in Names, DoReset(n) PROVE IInv'
      BY <2>9, ResetStep
    <2>10. ASSUME NEW n \in Names, DoCheck(n) PROVE IInv'
      BY <2>10, CheckStep
    <2>11. ASSUME NEW n \in Names, DoRemove(n) PROVE IInv'
      BY <2>11, RemoveStep
    <2>12. CASE Exit
      BY <2>12, ExitStep
    <2>13. CASE Kill \/ Restart
      BY <2>13, EndStep
    <2>14. CASE UNCHANGED vars
      BY <2>14, StutterStep
    <2>15. CASE Step
      BY <2>5, <2>6, <2>7, <2>8, <2>9, <2>10, <2>11, <2>15 DEF Step
    <2> QED
      BY <2>1, <2>2, <2>3, <2>4, <2>12, <2>13, <2>14, <2>15 DEF Next
  <1> QED
    BY <1>1, <1>2, PTL DEF Spec

\* Whatever happens, the variables keep their types: a statement never works on
\* a file id that does not exist.
THEOREM TypeCorrect == Spec => []TypeOK
  <1>1. IInv => TypeOK
    BY DEF IInv
  <1> QED
    BY <1>1, Invariance, PTL

\* Every open file is the one of the database in use or of the running
\* statement, no free id is open, and the next id is the least free one.
THEOREM FilesAccounted == Spec => []OpenFilesAccounted
  <1>1. IInv => OpenFilesAccounted
    BY DEF IInv
  <1> QED
    BY <1>1, Invariance, PTL

\* No page of a closed database stays in the cache, where the next file with
\* the same id would show it.
THEOREM CacheCurrent == Spec => []CacheIsCurrent
  <1>1. IInv => CacheIsCurrent
    BY DEF IInv
  <1> QED
    BY <1>1, Invariance, PTL
-----------------------------------------------------------------------------
(* DatabaseManager keeps the promises of DatabaseSet: every call maps to one  *)
(* of its steps or changes nothing that its callers see.                      *)

\* A database that was made has its pages, and they are its own.
MadeIsWhole ==
    \A n \in made : /\ disk[n] # NoFile
                    /\ disk[n][0] \in Contents /\ disk[n][0].of = n
                    /\ disk[n][1] # Hole

\* The page in the cache is the one of the database in use, and saved unless
\* it is dirty.
CacheIsOwn ==
    current # None /\ current.name \in made =>
        /\ cache[current.id].of = current.name
        /\ dirty = {} => cache[current.id] = disk[current.name][0]

\* A database that is being created is neither made nor in use, and has the
\* pages that were written so far.
Creates(s) == \/ s[1][1] \in {"writeMeta", "writeIndex", "closeFile"}
              \/ s[1][1] = "open" /\ s[2][1] = "writeMeta"
CreatedSoFar ==
    todo # << >> =>
        LET call == todo[1][1]
            n    == todo[1][2]
        IN  /\ Creates(todo) => /\ n \notin made
                                /\ current # None => current.name # n
            /\ call \in {"writeIndex", "closeFile"} => disk[n][0] = NewMeta(n)
            /\ call = "closeFile" => disk[n][1] = NewMeta(n)

RInv == MadeIsWhole /\ CacheIsOwn /\ CreatedSoFar

\* A step of DatabaseSet, or one that its callers do not see.
Seen == [Abstract!Next]_(Abstract!vars)
-----------------------------------------------------------------------------
(* What is seen of a state.                                                   *)

LEMMA Views ==
    /\ MadeIsWhole =>
         Status = [n \in Names |-> IF disk[n] = NoFile THEN "absent"
                                   ELSE IF n \in made THEN "present" ELSE "broken"]
    /\ MadeIsWhole' =>
         Status' = [n \in Names |-> IF disk'[n] = NoFile THEN "absent"
                                    ELSE IF n \in made' THEN "present" ELSE "broken"]
  <1>2. ASSUME MadeIsWhole, NEW n \in made PROVE Whole(n)
    BY <1>2, NoneAssumption DEF MadeIsWhole, Whole
  <1>3. ASSUME MadeIsWhole', NEW n \in made' PROVE Whole(n)'
    BY <1>3, NoneAssumption DEF MadeIsWhole, Whole
  <1> QED
    BY <1>2, <1>3 DEF Status

LEMMA Unseen ==
    ASSUME MadeIsWhole, MadeIsWhole', made \in SUBSET Names,
           made' = made, current' = current,
           current # None => cache'[current.id] = cache[current.id],
           \A m \in Names : disk'[m] = NoFile <=> disk[m] = NoFile,
           \A m \in made : disk'[m][0] = disk[m][0]
    PROVE  Seen
  <1>1. Status' = Status
    BY Views
  <1>2. Saved' = Saved
    BY DEF Saved
  <1>3. InUse' = InUse /\ Shown' = Shown
    BY DEF InUse, Shown
  <1> QED
    BY <1>1, <1>2, <1>3 DEF Seen, Abstract!vars

\* A step of a statement that creates nothing.
LEMMA NotCreating ==
    ASSUME \/ todo' = << >>
           \/ todo'[1][1] \in {"createFile", "reset", "remove", "check"}
           \/ todo'[1][1] = "open" /\ todo'[2][1] = "check"
    PROVE  CreatedSoFar'
  BY DEF CreatedSoFar, Creates

\* The calls that follow.
LEMMA Follows ==
    ASSUME IInv, NEW call, NEW n, Calling(call, n), Return
    PROVE  /\ FollowedWell(todo, 1) /\ Len(todo) \in Nat \ {0}
           /\ todo # << >> /\ todo[1] = <<call, n>>
           /\ todo[1][1] = call /\ todo[1][2] = n
           /\ todo' = << >> <=> Len(todo) = 1
           /\ Len(todo) = 1 \/ Len(todo) >= 2
           /\ Len(todo) >= 2 => todo'[1] = todo[2]
           /\ Len(todo) >= 3 => todo'[2] = todo[3]
  <1>1. /\ todo \in Seq(Calls \X Names) /\ todo # << >>
        /\ todo[1] = <<call, n>> /\ 1 \in 1 .. Len(todo) /\ todo' = Tail(todo)
    BY InvFacts, HeadCall DEF Return
  <1>2. FollowedWell(todo, 1)
    BY <1>1 DEF IInv, Ordered
  <1>3. /\ Len(todo) \in Nat \ {0} /\ Len(todo') = Len(todo) - 1
        /\ todo' \in Seq(Calls \X Names)
        /\ \A k \in 1 .. Len(todo) - 1 : todo'[k] = todo[k + 1]
    BY <1>1, TailOfCalls
  <1>4. todo' = << >> <=> Len(todo) = 1
    BY <1>3
  <1>5. Len(todo) >= 2 => todo'[1] = todo[2]
    BY <1>3
  <1>6. Len(todo) >= 3 => todo'[2] = todo[3]
    BY <1>3
  <1>7. todo[1][1] = call /\ todo[1][2] = n
    BY <1>1
  <1>8. Len(todo) = 1 \/ Len(todo) >= 2
    BY <1>3
  <1> QED
    BY <1>1, <1>2, <1>3, <1>4, <1>5, <1>6, <1>7, <1>8

LEMMA Typed ==
    ASSUME IInv
    PROVE  /\ made \in SUBSET Names
           /\ disk \in [Names -> Pages \cup {NoFile}]
           /\ cache \in [Ids -> Contents \cup {NotCached}]
           /\ dirty \subseteq Ids /\ fileID \in Ids
           /\ current # None => /\ current.name \in Names /\ current.id \in Ids
                                /\ disk[current.name] # NoFile
                                /\ CachedIds = {current.id}
                                /\ fd[current.id] = current.name
                                /\ cache[current.id] \in Contents
           /\ current = None => CachedIds = {} /\ dirty = {}
           /\ dirty \subseteq CachedIds
  <1>1. TypeOK /\ CacheIsCurrent /\ dirty \subseteq CachedIds
    BY DEF IInv
  <1>2. current # None => /\ current.name \in Names /\ current.id \in Ids
                          /\ disk[current.name] # NoFile
                          /\ CachedIds = {current.id}
                          /\ fd[current.id] = current.name
    BY <1>1 DEF IInv, TypeOK, CacheIsCurrent
  <1>3. current # None => cache[current.id] \in Contents
    BY <1>1, <1>2, CachedContents
  <1> QED
    BY <1>1, <1>2, <1>3 DEF TypeOK, FileTypeOK, CacheIsCurrent
-----------------------------------------------------------------------------
(* Statements and calls.                                                      *)

LEMMA StartSeen ==
    ASSUME IInv, RInv, NEW calls, Start(calls),
           calls = << >> \/ calls[1][1] \in {"createFile", "reset"}
    PROVE  RInv' /\ Seen
  <1>1. /\ todo' = calls
        /\ UNCHANGED <<disk, fd, fm, alive, fileID, current, cache, dirty,
                       memory, reused, made>>
    BY DEF Start, cacheVars
  <1>2. MadeIsWhole /\ MadeIsWhole' /\ CacheIsOwn'
    BY <1>1 DEF RInv, MadeIsWhole, CacheIsOwn
  <1>3. CreatedSoFar'
    BY <1>1, NotCreating
  <1>4. Seen
    BY <1>1, <1>2, Unseen, Typed
  <1> QED
    BY <1>2, <1>3, <1>4 DEF RInv

LEMMA StatementSeen ==
    ASSUME IInv, RInv, NEW n \in Names,
           CreateDatabase(n) \/ UseDatabase(n) \/ DropDatabase(n)
    PROVE  RInv' /\ Seen
  <1>1. CASE CreateDatabase(n)
    <2>1. CreateCalls(n)[1][1] = "createFile"
      BY DEF CreateCalls
    <2> QED
      BY <1>1, <2>1, StartSeen DEF CreateDatabase
  <1>2. CASE UseDatabase(n)
    <2>1. UseCalls(n)[1][1] = "reset"
      BY UseCallsAre
    <2> QED
      BY <1>2, <2>1, StartSeen DEF UseDatabase
  <1>3. CASE DropDatabase(n)
    <2>1. CASE current = None
      BY <1>3, <2>1, StartSeen DEF DropDatabase
    <2>2. CASE current # None
      <3> DEFINE p == current.name
      <3>1. p \in Names
        BY <2>2, Typed
      <3> HIDE DEF p
      <3>2. DropCalls(n, p)[1] = <<"reset", n>>
        BY <3>1, OwnDrop, OtherDrop, Zenon
      <3>3. DropCalls(n, p)[1][1] = "reset"
        BY <3>2
      <3>4. Start(DropCalls(n, p))
        BY <1>3, <2>2 DEF DropDatabase, p
      <3> QED
        BY <3>3, <3>4, StartSeen
    <2> QED
      BY <2>1, <2>2
  <1> QED
    BY <1>1, <1>2, <1>3

LEMMA ExecuteSeen ==
    ASSUME IInv, RInv, Execute
    PROVE  RInv' /\ Seen
  <1> DEFINE c == current.id
  <1>1. /\ todo = << >> /\ current # None
        /\ cache' = [cache EXCEPT ![c] = [cache[c] EXCEPT !.rows = @ + 1]]
        /\ dirty' = dirty \cup {c}
        /\ UNCHANGED <<disk, todo, current, made>>
    BY DEF Execute, Idle
  <1>2. c \in Ids /\ cache[c] \in Contents /\ cache \in [Ids -> Contents \cup {NotCached}]
    BY <1>1, Typed
  <1> HIDE DEF c
  <1>3. /\ cache'[c] = [cache[c] EXCEPT !.rows = @ + 1]
        /\ cache'[c].of = cache[c].of
        /\ cache'[c].rows = cache[c].rows + 1
    BY <1>1, <1>2, RowsAssumption
  <1>4. MadeIsWhole /\ MadeIsWhole'
    BY <1>1 DEF RInv, MadeIsWhole
  <1>5. CacheIsOwn'
    BY <1>1, <1>3 DEF RInv, CacheIsOwn, c
  <1>6. CreatedSoFar'
    BY <1>1, NotCreating
  <1>7. Status' = Status /\ Saved' = Saved /\ InUse' = InUse
    BY <1>1 DEF Status, Saved, InUse, Whole
  <1>8. CASE current.name \in made
    <2>1. Shown = cache[c].rows /\ Shown' = cache'[c].rows
      BY <1>1, <1>8 DEF Shown, c
    <2>2. InUse = current.name /\ InUse # None
      <3>1. current.name # None
        BY <1>8, Typed, NoneAssumption
      <3> QED
        BY <1>1, <3>1 DEF InUse
    <2>3. Status[current.name] = "present"
      BY <1>4, <1>8, Typed, Views DEF MadeIsWhole
    <2>4. Abstract!Store
      BY <1>3, <1>7, <2>1, <2>2, <2>3 DEF Abstract!Store
    <2> QED
      BY <1>4, <1>5, <1>6, <2>4 DEF RInv, Seen, Abstract!Next
  <1>9. CASE current.name \notin made
    <2>1. Shown' = Shown
      BY <1>1, <1>9 DEF Shown
    <2> QED
      BY <1>4, <1>5, <1>6, <1>7, <2>1 DEF RInv, Seen, Abstract!vars
  <1> QED
    BY <1>8, <1>9

\* createFile: the database is begun; it is neither made nor in use.
LEMMA CreateFileSeen ==
    ASSUME IInv, RInv, NEW n \in Names, DoCreateFile(n)
    PROVE  RInv' /\ Seen
  <1>1. /\ Calling("createFile", n)
        /\ UNCHANGED <<current, cache, dirty, made>>
        /\ \/ /\ disk[n] = NoFile /\ disk' = [disk EXCEPT ![n] = EmptyFile] /\ Return
           \/ disk[n] # NoFile /\ disk' = disk /\ Throw
    BY DEF DoCreateFile, CreateFile, cacheVars, fileVars
  <1>2. MadeIsWhole
    BY DEF RInv
  <1>3. CASE disk' = disk /\ Throw
    <2>1. MadeIsWhole' /\ CacheIsOwn'
      BY <1>1, <1>3 DEF RInv, MadeIsWhole, CacheIsOwn
    <2>2. CreatedSoFar'
      BY <1>3, NotCreating DEF Throw
    <2> QED
      BY <1>1, <1>2, <1>3, <2>1, <2>2, Typed, Unseen DEF RInv
  <1>4. CASE disk[n] = NoFile /\ disk' = [disk EXCEPT ![n] = EmptyFile] /\ Return
    <2>1. n \notin made /\ (current # None => current.name # n)
      BY <1>2, <1>4, Typed DEF MadeIsWhole
    <2>2. disk'[n] # NoFile /\ \A m \in Names \ {n} : disk'[m] = disk[m]
      <3>1. EmptyFile \in Pages
        BY DEF EmptyFile, Pages
      <3> QED
        BY <1>4, <3>1, Typed, NoFileAssumption
    <2>3. MadeIsWhole' /\ CacheIsOwn'
      <3>1. \A m \in made : m \in Names \ {n}
        BY <2>1, Typed
      <3> QED
        BY <1>1, <2>2, <3>1, Typed DEF RInv, MadeIsWhole, CacheIsOwn
    <2>4. CreatedSoFar'
      <3>1. todo'[1] = <<"open", n>>
        BY <1>1, <1>4, Follows DEF FollowedWell
      <3>2. todo'[1][1] = "open" /\ todo'[1][2] = n
        BY <3>1
      <3> QED
        BY <1>1, <2>1, <3>2 DEF CreatedSoFar
    <2>5. Status[n] = "absent" /\ Status' = [Status EXCEPT ![n] = "broken"]
      BY <1>1, <1>2, <1>4, <2>1, <2>2, <2>3, Views
    <2>6. Saved' = Saved /\ InUse' = InUse /\ Shown' = Shown
      BY <1>1, <2>1, <2>2 DEF Saved, InUse, Shown
    <2>7. Abstract!Begin(n)
      BY <2>5, <2>6 DEF Abstract!Begin
    <2> QED
      BY <2>3, <2>4, <2>7 DEF RInv, Seen, Abstract!Next
  <1> QED
    BY <1>1, <1>3, <1>4

LEMMA OpenSeen ==
    ASSUME IInv, RInv, NEW n \in Names, DoOpen(n)
    PROVE  RInv' /\ Seen
  <1>1. /\ Calling("open", n)
        /\ IF disk[n] = NoFile THEN Throw ELSE Return
        /\ UNCHANGED <<disk, current, cache, dirty, made>>
    BY DEF DoOpen, OpenFile, cacheVars
  <1>2. MadeIsWhole /\ MadeIsWhole' /\ CacheIsOwn'
    BY <1>1 DEF RInv, MadeIsWhole, CacheIsOwn
  <1>3. Seen
    BY <1>1, <1>2, Typed, Unseen
  <1>4. CASE Throw
    BY <1>2, <1>3, <1>4, NotCreating DEF Throw, RInv
  <1>5. CASE Return
    <2>1. /\ todo[1][1] = "open" /\ todo[1][2] = n /\ todo # << >>
          /\ todo'[1] = todo[2]
          /\ todo[2] \in {<<"writeMeta", n>>, <<"check", n>>}
      BY <1>1, <1>5, Follows DEF FollowedWell
    <2>2. CASE todo[2] = <<"writeMeta", n>>
      <3>1. n \notin made /\ (current # None => current.name # n)
        BY <2>1, <2>2 DEF RInv, CreatedSoFar, Creates
      <3>2. todo'[1][1] = "writeMeta" /\ todo'[1][2] = n
        BY <2>1, <2>2
      <3>3. CreatedSoFar'
        BY <1>1, <3>1, <3>2 DEF CreatedSoFar
      <3> QED
        BY <1>2, <1>3, <3>3 DEF RInv
    <2>3. CASE todo[2] = <<"check", n>>
      <3>1. todo'[1][1] = "check"
        BY <2>1, <2>3
      <3> QED
        BY <1>2, <1>3, <3>1, NotCreating DEF RInv
    <2> QED
      BY <2>1, <2>2, <2>3
  <1> QED
    BY <1>1, <1>4, <1>5

\* The pages of a new database are written to a file that nobody sees yet.
LEMMA WriteSeen ==
    ASSUME IInv, RInv, NEW n \in Names, DoWrite(n)
    PROVE  RInv' /\ Seen
  <1>1. PICK call \in {"writeMeta", "writeIndex"}, p \in PageNos :
           /\ Calling(call, n) /\ p = IF call = "writeMeta" THEN 0 ELSE 1
           /\ disk' = Written(fileID, p, NewMeta(n))
           /\ UNCHANGED <<current, cache, dirty, made>>
           /\ Return
    BY DEF DoWrite, WritePage, PageNos, cacheVars
  <1>2. fd[fileID] = n /\ disk[n] # NoFile
    BY <1>1, WorkingCall
  <1>3. disk' = [disk EXCEPT ![n][p] = NewMeta(n)]
    BY <1>1, <1>2 DEF Written
  <1>4. /\ FollowedWell(todo, 1) /\ Len(todo) \in Nat \ {0} /\ todo # << >>
        /\ todo[1][1] = call /\ todo[1][2] = n
        /\ Len(todo) >= 2 => todo'[1] = todo[2]
    BY <1>1, Follows
  <1>5. n \notin made /\ (current # None => current.name # n)
    BY <1>4 DEF RInv, CreatedSoFar, Creates
  <1>6. NewMeta(n) \in Contents
    BY RowsAssumption DEF NewMeta
  <1>7. /\ disk[n] \in Pages /\ disk'[n] = [disk[n] EXCEPT ![p] = NewMeta(n)]
        /\ disk'[n] \in Pages
        /\ \A m \in Names \ {n} : disk'[m] = disk[m]
    BY <1>2, <1>3, <1>6, Typed DEF Pages
  <1>8. \A m \in made : m \in Names \ {n}
    BY <1>5, Typed
  <1>9. MadeIsWhole /\ MadeIsWhole' /\ CacheIsOwn'
    BY <1>1, <1>5, <1>7, <1>8, Typed DEF RInv, MadeIsWhole, CacheIsOwn
  <1>10. Seen
    <2>1. \A m \in Names : disk'[m] = NoFile <=> disk[m] = NoFile
      BY <1>2, <1>7, NoFileAssumption
    <2>2. \A m \in made : disk'[m][0] = disk[m][0]
      BY <1>7, <1>8
    <2> QED
      BY <1>1, <1>9, <2>1, <2>2, Typed, Unseen
  <1>11. CreatedSoFar'
    <2>1. CASE call = "writeMeta"
      <3>1. p = 0
        BY <1>1, <2>1
      <3>2. todo[1][1] = "writeMeta"
        BY <1>4, <2>1
      <3>3. todo'[1] = <<"writeIndex", n>>
        BY <1>4, <3>2 DEF FollowedWell
      <3>4. todo'[1][1] = "writeIndex" /\ todo'[1][2] = n
        BY <3>3
      <3>5. disk'[n][0] = NewMeta(n)
        BY <1>7, <3>1 DEF Pages, PageNos
      <3> QED
        BY <1>1, <1>5, <3>4, <3>5 DEF CreatedSoFar, NewMeta
    <2>2. CASE call = "writeIndex"
      <3>1. p = 1
        BY <1>1, <2>2
      <3>2. todo[1][1] = "writeIndex"
        BY <1>4, <2>2
      <3>3. todo'[1] = <<"closeFile", n>>
        BY <1>4, <3>2 DEF FollowedWell
      <3>4. todo'[1][1] = "closeFile" /\ todo'[1][2] = n
        BY <3>3
      <3>5. disk[n][0] = NewMeta(n)
        BY <1>4, <3>2 DEF RInv, CreatedSoFar
      <3>6. disk'[n][0] = NewMeta(n) /\ disk'[n][1] = NewMeta(n)
        BY <1>7, <3>1, <3>5 DEF Pages, PageNos
      <3> QED
        BY <1>1, <1>5, <3>4, <3>6 DEF CreatedSoFar, NewMeta
    <2> QED
      BY <2>1, <2>2
  <1> QED
    BY <1>9, <1>10, <1>11 DEF RInv

\* The last call of CREATE: from now on the database is there, and empty.
LEMMA CloseFileSeen ==
    ASSUME IInv, RInv, NEW n \in Names, DoCloseFile(n)
    PROVE  RInv' /\ Seen
  <1>1. /\ Calling("closeFile", n) /\ Return
        /\ made' = made \cup {n}
        /\ UNCHANGED <<disk, current, cache, dirty>>
    BY DEF DoCloseFile, cacheVars
  <1>2. /\ FollowedWell(todo, 1) /\ todo # << >>
        /\ todo[1][1] = "closeFile" /\ todo[1][2] = n
        /\ todo' = << >> <=> Len(todo) = 1
    BY <1>1, Follows
  <1>3. /\ n \notin made /\ (current # None => current.name # n)
        /\ disk[n][0] = NewMeta(n) /\ disk[n][1] = NewMeta(n)
    BY <1>2 DEF RInv, CreatedSoFar, Creates
  <1>4. disk[n] # NoFile
    BY <1>1, WorkingCall
  <1>5. NewMeta(n) \in Contents /\ NewMeta(n).of = n /\ NewMeta(n).rows = 0
    BY RowsAssumption DEF NewMeta
  <1>6. MadeIsWhole /\ MadeIsWhole'
    BY <1>1, <1>3, <1>4, <1>5, NoneAssumption DEF RInv, MadeIsWhole
  <1>7. CacheIsOwn'
    BY <1>1, <1>3 DEF RInv, CacheIsOwn
  <1>8. CreatedSoFar'
    <2>1. todo' = << >>
      BY <1>2 DEF FollowedWell
    <2> QED
      BY <2>1, NotCreating
  <1>9. Status[n] = "broken" /\ Status' = [Status EXCEPT ![n] = "present"]
    BY <1>1, <1>3, <1>4, <1>6, Views
  <1>10. Saved' = Saved
    BY <1>1, <1>3, <1>5 DEF Saved
  <1>11. InUse' = InUse /\ Shown' = Shown /\ InUse # n
    BY <1>1, <1>3, NoneAssumption DEF InUse, Shown
  <1>12. Abstract!Complete(n)
    BY <1>9, <1>10, <1>11 DEF Abstract!Complete
  <1> QED
    BY <1>6, <1>7, <1>8, <1>12 DEF RInv, Seen, Abstract!Next

-----------------------------------------------------------------------------
(* The database in use is closed, opened and removed.                         *)

\* close() writes page 0 of the database in use when it is dirty, and no other.
LEMMA WrittenAtClose ==
    ASSUME IInv, current # None, CloseCache
    PROVE  /\ \A m \in Names \ {current.name} : disk'[m] = disk[m]
           /\ disk'[current.name] =
                IF dirty = {} THEN disk[current.name]
                ELSE [disk[current.name] EXCEPT ![0] = cache[current.id]]
  <1> DEFINE c == current.id
             n == current.name
  <1>1. /\ n \in Names /\ c \in Ids /\ fd[c] = n /\ disk[n] # NoFile
        /\ dirty = {} \/ dirty = {c}
    BY Typed
  <1>2. \A m \in Names :
           disk'[m] = LET D == {i \in dirty : fd[i] = m}
                          d == CHOOSE i \in D : TRUE
                      IN IF D = {} THEN disk[m] ELSE Written(d, 0, cache[d])[m]
    BY DEF CloseCache
  <1> HIDE DEF c, n
  <1>3. ASSUME dirty = {} PROVE \A m \in Names : disk'[m] = disk[m]
    BY <1>2, <1>3
  <1>4. ASSUME dirty = {c}
        PROVE  /\ \A m \in Names \ {n} : disk'[m] = disk[m]
               /\ disk'[n] = [disk[n] EXCEPT ![0] = cache[c]]
    <2>1. ASSUME NEW m \in Names, m # n PROVE {i \in dirty : fd[i] = m} = {}
      BY <1>1, <1>4, <2>1
    <2>2. {i \in dirty : fd[i] = n} = {c}
      BY <1>1, <1>4
    <2>3. (CHOOSE i \in {c} : TRUE) = c
      OBVIOUS
    <2>4. disk'[n] = Written(c, 0, cache[c])[n]
      BY <1>1, <1>2, <2>2, <2>3
    <2>5. Written(c, 0, cache[c]) = [disk EXCEPT ![n][0] = cache[c]]
      BY <1>1 DEF Written
    <2>6. disk'[n] = [disk[n] EXCEPT ![0] = cache[c]]
      BY <1>1, <2>4, <2>5, Typed
    <2> QED
      BY <1>2, <2>1, <2>6
  <1> QED
    BY <1>1, <1>3, <1>4 DEF c, n

\* The end of Database: what was stored is safe.
LEMMA CloseSeen ==
    ASSUME IInv, RInv, CloseDatabase, made' = made
    PROVE  MadeIsWhole' /\ CacheIsOwn' /\ Seen
  <1>1. CASE current = None
    <2>1. UNCHANGED <<disk, current, cache, dirty>>
      BY <1>1 DEF CloseDatabase, cacheVars
    <2>2. MadeIsWhole /\ MadeIsWhole' /\ CacheIsOwn'
      BY <2>1 DEF RInv, MadeIsWhole, CacheIsOwn
    <2> QED
      BY <2>1, <2>2, Typed, Unseen
  <1>2. CASE current # None
    <2> DEFINE c == current.id
               n == current.name
    <2>1. CloseCache /\ current' = None
      BY <1>2 DEF CloseDatabase
    <2>2. /\ n \in Names /\ c \in Ids /\ disk[n] # NoFile /\ disk[n] \in Pages
          /\ cache[c] \in Contents
      BY <1>2, Typed
    <2>3. /\ \A m \in Names \ {n} : disk'[m] = disk[m]
          /\ disk'[n] = IF dirty = {} THEN disk[n] ELSE [disk[n] EXCEPT ![0] = cache[c]]
      BY <1>2, <2>1, WrittenAtClose
    <2>4. n \in made => /\ cache[c].of = n
                        /\ dirty = {} => cache[c] = disk[n][0]
      BY <1>2 DEF RInv, CacheIsOwn
    <2>5. /\ InUse = n /\ InUse # None /\ InUse' = None /\ Shown' = 0
          /\ Shown = IF n \in made THEN cache[c].rows ELSE 0
      BY <1>2, <2>1, <2>2, NoneAssumption DEF InUse, Shown
    <2> HIDE DEF c, n
    <2>6. /\ disk'[n] \in Pages /\ disk'[n] # NoFile
          /\ disk'[n][1] = disk[n][1]
          /\ n \in made => disk'[n][0] = cache[c]
      BY <2>2, <2>3, <2>4, NoFileAssumption DEF Pages, PageNos
    <2>7. MadeIsWhole /\ MadeIsWhole'
      <3>1. MadeIsWhole
        BY DEF RInv
      <3>2. ASSUME NEW m \in made
            PROVE  /\ disk'[m] # NoFile
                   /\ disk'[m][0] \in Contents /\ disk'[m][0].of = m
                   /\ disk'[m][1] # Hole
        <4>1. CASE m = n
          BY <2>2, <2>4, <2>6, <3>1, <4>1 DEF MadeIsWhole
        <4>2. CASE m # n
          BY <2>3, <3>1, <4>2, Typed DEF MadeIsWhole
        <4> QED
          BY <4>1, <4>2
      <3> QED
        BY <3>1, <3>2 DEF MadeIsWhole
    <2>8. CacheIsOwn'
      BY <2>1 DEF CacheIsOwn
    <2>9. Status' = Status
      BY <2>2, <2>3, <2>6, <2>7, Views
    <2>10. Saved' = [Saved EXCEPT ![InUse] = Shown]
      <3>1. Saved = [m \in Names |-> IF m \in made THEN disk[m][0].rows ELSE 0]
        BY DEF Saved
      <3>2. Saved' = [m \in Names |-> IF m \in made THEN disk'[m][0].rows ELSE 0]
        BY DEF Saved
      <3>3. ASSUME NEW m \in Names PROVE Saved'[m] = IF m = n THEN Shown ELSE Saved[m]
        BY <2>3, <2>5, <2>6, <3>1, <3>2
      <3> QED
        BY <2>5, <3>1, <3>2, <3>3
    <2>11. Abstract!Close
      BY <2>5, <2>9, <2>10 DEF Abstract!Close
    <2> QED
      BY <2>7, <2>8, <2>11 DEF Seen, Abstract!Next
  <1> QED
    BY <1>1, <1>2

LEMMA ResetSeen ==
    ASSUME IInv, RInv, NEW n \in Names, DoReset(n)
    PROVE  RInv' /\ Seen
  <1>1. Calling("reset", n) /\ CloseDatabase /\ Return /\ made' = made
    BY DEF DoReset
  <1>2. /\ todo'[1] = <<"remove", n>> \/ todo'[1] = <<"open", n>>
        /\ todo'[1] = <<"open", n>> => todo'[2] = <<"check", n>>
    BY <1>1, Follows DEF FollowedWell
  <1>3. CreatedSoFar'
    BY <1>2, NotCreating
  <1> QED
    BY <1>1, <1>3, CloseSeen DEF RInv

LEMMA ExitSeen ==
    ASSUME IInv, RInv, Exit
    PROVE  RInv' /\ Seen
  <1>1. todo' = << >> /\ CloseDatabase /\ made' = made
    BY DEF Exit, Idle
  <1> QED
    BY <1>1, CloseSeen, NotCreating DEF RInv

\* A made database passes the check, and shows what was saved.
LEMMA CheckSeen ==
    ASSUME IInv, RInv, NEW n \in Names, DoCheck(n)
    PROVE  RInv' /\ Seen
  <1>1. /\ Calling("check", n) /\ made' = made
        /\ IF IsDatabase(MetaPage)
           THEN /\ cache'   = [cache EXCEPT ![fileID] = MetaPage]
                /\ current' = [name |-> n, id |-> fileID]
                /\ Return
                /\ UNCHANGED <<disk, dirty>>
           ELSE CloseCache /\ Throw /\ UNCHANGED current
    BY DEF DoCheck, fileVars
  <1>2. /\ fd[fileID] = n /\ disk[n] # NoFile /\ fileID \in Ids
    BY <1>1, WorkingCall
  <1>3. current = None
    <2>1. todo # << >> /\ todo[1] = <<"check", n>>
      BY <1>1, InvFacts, HeadCall
    <2> QED
      BY <2>1 DEF IInv, HeadReady
  <1>4. CachedIds = {} /\ dirty = {} /\ cache \in [Ids -> Contents \cup {NotCached}]
    BY <1>3, Typed
  <1>5. MetaPage = IF disk[n][0] = Hole THEN memory ELSE disk[n][0]
    BY <1>2, <1>4 DEF MetaPage, ReadPage
  <1>6. MadeIsWhole
    BY DEF RInv
  <1>7. n \in made => MetaPage = disk[n][0] /\ MetaPage \in Contents /\ MetaPage.of = n
    BY <1>5, <1>6, NoneAssumption DEF MadeIsWhole
  <1>8. CASE IsDatabase(MetaPage)
    <2>1. /\ cache'   = [cache EXCEPT ![fileID] = MetaPage]
          /\ current' = [name |-> n, id |-> fileID]
          /\ Return
          /\ UNCHANGED <<disk, dirty>>
      BY <1>1, <1>8
    <2>2. /\ cache'[fileID] = MetaPage
          /\ current' # None /\ current'.name = n /\ current'.id = fileID
      BY <1>2, <1>4, <2>1, NoneAssumption
    <2>3. MadeIsWhole' /\ CacheIsOwn'
      BY <1>1, <1>6, <1>7, <2>1, <2>2 DEF MadeIsWhole, CacheIsOwn
    <2>4. CreatedSoFar'
      <3>1. /\ FollowedWell(todo, 1) /\ Len(todo) \in Nat \ {0}
            /\ todo[1][1] = "check" /\ todo[1][2] = n
            /\ todo' = << >> <=> Len(todo) = 1
            /\ Len(todo) >= 2 => todo'[1] = todo[2]
        BY <1>1, <2>1, Follows
      <3>2. Len(todo) = 1 \/ todo[2] = <<"reset", n>>
        BY <3>1 DEF FollowedWell
      <3>3. todo' = << >> \/ todo'[1][1] = "reset"
        <4>1. Len(todo) = 1 \/ Len(todo) >= 2
          BY <1>1, <2>1, Follows
        <4>2. CASE Len(todo) = 1
          BY <3>1, <4>2, Zenon
        <4>3. CASE Len(todo) # 1
          <5>1. todo'[1] = <<"reset", n>>
            BY <3>1, <3>2, <4>1, <4>3, Zenon
          <5> QED
            BY <5>1
        <4> QED
          BY <4>2, <4>3
      <3> QED
        BY <3>3, NotCreating
    <2>5. Status' = Status /\ Saved' = Saved
      BY <1>1, <2>1 DEF Status, Saved, Whole
    <2>6. Status[n] # "absent"
      BY <1>2, <1>6, Views
    <2>7. InUse = None /\ InUse' = n
      BY <1>3, <2>2 DEF InUse
    <2>8. Shown' = Saved[n]
      BY <1>1, <1>7, <2>2 DEF Shown, Saved
    <2>9. Abstract!Open(n)
      BY <2>5, <2>6, <2>7, <2>8 DEF Abstract!Open
    <2> QED
      BY <2>3, <2>4, <2>9 DEF RInv, Seen, Abstract!Next
  <1>9. CASE ~IsDatabase(MetaPage)
    <2>1. CloseCache /\ Throw /\ UNCHANGED current
      BY <1>1, <1>9
    <2>2. disk' = disk
      <3>1. disk' = [m \in Names |-> disk[m]]
        BY <1>4, <2>1 DEF CloseCache
      <3> QED
        BY <3>1, Typed
    <2>3. MadeIsWhole' /\ CacheIsOwn'
      BY <1>1, <1>3, <1>6, <2>1, <2>2 DEF MadeIsWhole, CacheIsOwn
    <2>4. CreatedSoFar'
      BY <2>1, NotCreating DEF Throw
    <2>5. Seen
      BY <1>1, <1>3, <1>6, <2>1, <2>2, <2>3, Typed, Unseen
    <2> QED
      BY <2>3, <2>4, <2>5 DEF RInv
  <1> QED
    BY <1>8, <1>9

LEMMA RemoveSeen ==
    ASSUME IInv, RInv, NEW n \in Names, DoRemove(n)
    PROVE  RInv' /\ Seen
  <1>1. /\ Calling("remove", n) /\ Return
        /\ disk' = [disk EXCEPT ![n] = NoFile]
        /\ made' = made \ {n}
        /\ UNCHANGED <<current, cache>>
    BY DEF DoRemove, RemoveFile, cacheVars
  <1>2. current = None
    <2>1. todo # << >> /\ todo[1] = <<"remove", n>>
      BY <1>1, InvFacts, HeadCall
    <2> QED
      BY <2>1 DEF IInv, HeadReady
  <1>3. disk'[n] = NoFile /\ \A m \in Names \ {n} : disk'[m] = disk[m]
    BY <1>1, Typed
  <1>4. MadeIsWhole /\ MadeIsWhole'
    <2>1. \A m \in made' : m \in made /\ m \in Names \ {n}
      BY <1>1, Typed
    <2> QED
      BY <1>3, <2>1 DEF RInv, MadeIsWhole
  <1>5. CacheIsOwn'
    BY <1>1, <1>2 DEF CacheIsOwn
  <1>6. CreatedSoFar'
    <2>1. /\ FollowedWell(todo, 1) /\ Len(todo) \in Nat \ {0}
          /\ todo[1][1] = "remove"
          /\ todo' = << >> <=> Len(todo) = 1
          /\ Len(todo) >= 2 => todo'[1] = todo[2]
      BY <1>1, Follows
    <2>2. Len(todo) = 1 \/ todo[2][1] = "reset"
      BY <2>1 DEF FollowedWell
    <2>3. todo' = << >> \/ todo'[1][1] = "reset"
      <3>1. Len(todo) = 1 \/ Len(todo) >= 2
        BY <1>1, Follows
      <3> QED
        BY <2>1, <2>2, <3>1, Zenon
    <2> QED
      BY <2>3, NotCreating
  <1>7. Status' = [Status EXCEPT ![n] = "absent"]
    <2>1. \A m \in Names : Status'[m] = IF m = n THEN "absent" ELSE Status[m]
      BY <1>1, <1>3, <1>4, Views
    <2>2. /\ Status = [m \in Names |-> Status[m]]
          /\ Status' = [m \in Names |-> Status'[m]]
      BY DEF Status
    <2> QED
      BY <2>1, <2>2
  <1>8. Saved' = [Saved EXCEPT ![n] = 0]
    <2>1. \A m \in Names : Saved'[m] = IF m = n THEN 0 ELSE Saved[m]
      BY <1>1, <1>3 DEF Saved
    <2>2. /\ Saved = [m \in Names |-> Saved[m]]
          /\ Saved' = [m \in Names |-> Saved'[m]]
      BY DEF Saved
    <2> QED
      BY <2>1, <2>2
  <1>9. InUse' = InUse /\ InUse = None /\ Shown' = Shown
    BY <1>1, <1>2 DEF InUse, Shown
  <1>10. CASE disk[n] = NoFile
    <2>1. n \notin made
      BY <1>4, <1>10 DEF MadeIsWhole
    <2>2. Status' = Status
      BY <1>1, <1>3, <1>4, <1>10, Views
    <2>3. Saved' = Saved
      BY <1>1, <1>3, <2>1 DEF Saved
    <2> QED
      BY <1>4, <1>5, <1>6, <1>9, <2>2, <2>3 DEF RInv, Seen, Abstract!vars
  <1>11. CASE disk[n] # NoFile
    <2>1. Status[n] # "absent"
      BY <1>4, <1>11, Views
    <2>2. InUse # n
      BY <1>9, NoneAssumption
    <2>3. Abstract!Remove(n)
      BY <1>7, <1>8, <1>9, <2>1, <2>2 DEF Abstract!Remove
    <2> QED
      BY <1>4, <1>5, <1>6, <2>3 DEF RInv, Seen, Abstract!Next
  <1> QED
    BY <1>10, <1>11

LEMMA EndSeen ==
    ASSUME IInv, RInv, Kill \/ Restart
    PROVE  RInv' /\ Seen
  <1>1. /\ todo' = << >> /\ current' = None
        /\ UNCHANGED <<disk, made>>
    BY DEF Kill, Restart, NoProcess
  <1>2. MadeIsWhole' /\ CacheIsOwn'
    BY <1>1 DEF RInv, MadeIsWhole, CacheIsOwn
  <1>3. Status' = Status /\ Saved' = Saved
    BY <1>1 DEF Status, Saved, Whole
  <1>4. InUse' = None /\ Shown' = 0
    BY <1>1 DEF InUse, Shown
  <1>5. Abstract!Lose
    BY <1>3, <1>4 DEF Abstract!Lose
  <1> QED
    BY <1>1, <1>2, <1>5, NotCreating DEF RInv, Seen, Abstract!Next
-----------------------------------------------------------------------------
LEMMA InitSeen == Init => RInv /\ Abstract!Init
  <1> SUFFICES ASSUME Init PROVE RInv /\ Abstract!Init
    OBVIOUS
  <1>1. RInv
    BY DEF Init, RInv, MadeIsWhole, CacheIsOwn, CreatedSoFar
  <1>2. Status = [n \in Names |-> "absent"]
    BY DEF Init, FileInit, Status
  <1>3. Saved = [n \in Names |-> 0] /\ InUse = None /\ Shown = 0
    BY DEF Init, Saved, InUse, Shown
  <1> QED
    BY <1>1, <1>2, <1>3 DEF Abstract!Init

LEMMA NextSeen == IInv /\ RInv /\ [Next]_vars => RInv' /\ Seen
  <1> SUFFICES ASSUME IInv, RInv, [Next]_vars PROVE RInv' /\ Seen
    OBVIOUS
  <1>1. ASSUME NEW n \in Names, CreateDatabase(n) \/ UseDatabase(n) \/ DropDatabase(n)
        PROVE  RInv' /\ Seen
    BY <1>1, StatementSeen
  <1>2. CASE Execute
    BY <1>2, ExecuteSeen
  <1>3. ASSUME NEW n \in Names, DoCreateFile(n) PROVE RInv' /\ Seen
    BY <1>3, CreateFileSeen
  <1>4. ASSUME NEW n \in Names, DoOpen(n) PROVE RInv' /\ Seen
    BY <1>4, OpenSeen
  <1>5. ASSUME NEW n \in Names, DoWrite(n) PROVE RInv' /\ Seen
    BY <1>5, WriteSeen
  <1>6. ASSUME NEW n \in Names, DoCloseFile(n) PROVE RInv' /\ Seen
    BY <1>6, CloseFileSeen
  <1>7. ASSUME NEW n \in Names, DoReset(n) PROVE RInv' /\ Seen
    BY <1>7, ResetSeen
  <1>8. ASSUME NEW n \in Names, DoCheck(n) PROVE RInv' /\ Seen
    BY <1>8, CheckSeen
  <1>9. ASSUME NEW n \in Names, DoRemove(n) PROVE RInv' /\ Seen
    BY <1>9, RemoveSeen
  <1>10. CASE Step
    BY <1>3, <1>4, <1>5, <1>6, <1>7, <1>8, <1>9, <1>10 DEF Step
  <1>11. CASE Exit
    BY <1>11, ExitSeen
  <1>12. CASE Kill \/ Restart
    BY <1>12, EndSeen
  <1>13. CASE UNCHANGED vars
    <2>1. UNCHANGED <<disk, todo, current, cache, dirty, made>>
      BY <1>13 DEF vars
    <2>2. RInv'
      BY <2>1 DEF RInv, MadeIsWhole, CacheIsOwn, CreatedSoFar, Creates
    <2>3. UNCHANGED <<Status, Saved, InUse, Shown>>
      BY <2>1 DEF Status, Saved, InUse, Shown, Whole
    <2> QED
      BY <2>2, <2>3 DEF Seen, Abstract!vars
  <1> QED
    BY <1>1, <1>2, <1>10, <1>11, <1>12, <1>13 DEF Next

\* What was executed in a database shows in it, and survives once the database
\* is closed, in every order of statements and whatever call the process ends
\* after: each call is a step of DatabaseSet or not seen at all.
THEOREM Refinement == Spec => ImplementsDatabaseSet
  <1>1. Spec => [](IInv /\ RInv)
    <2>1. Init => RInv
      BY InitSeen
    <2>2. IInv /\ RInv /\ [Next]_vars => RInv'
      BY NextSeen
    <2> QED
      BY <2>1, <2>2, Invariance, PTL DEF Spec
  <1>2. Init => Abstract!Init
    BY InitSeen
  <1>3. IInv /\ RInv /\ [Next]_vars => [Abstract!Next]_(Abstract!vars)
    BY NextSeen DEF Seen
  <1> QED
    BY <1>1, <1>2, <1>3, PTL DEF Spec, ImplementsDatabaseSet, Abstract!Spec
=============================================================================

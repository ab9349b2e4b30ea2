------------------------ MODULE IndexEntityLists_proofs ------------------------
(* Entity lists stay lists: the inductive invariant of IndexEntityLists, what *)
(* follows from it, and that each operation does to a list what it does to a  *)
(* sequence.                                                                  *)
EXTENDS IndexEntityLists, NumberFacts, FiniteSetTheorems, FunctionTheorems,
        SequenceTheorems

Distinct(c) == \A j, k \in 1 .. Len(c) : c[j] = c[k] => j = k

\* The set of nodes, whatever they are linked to.
Shape ==
    /\ nodes = [r \in DOMAIN nodes |-> nodes[r]]
    /\ \A r \in DOMAIN nodes : nodes[r] \in Node
    /\ DOMAIN nodes \subseteq RIDs
    /\ IsFiniteSet(DOMAIN nodes)
    /\ heads \subseteq DOMAIN nodes

\* c is the chain of the head h.
IsChain(h, c) ==
    /\ c \in Seq(RIDs) /\ Len(c) \in Nat \ {0}
    /\ Distinct(c)
    /\ c[1] = h
    /\ \A k \in 1 .. Len(c) :
          /\ c[k] \in DOMAIN nodes
          /\ nodes[c[k]].nextRID = IF k < Len(c) THEN c[k + 1] ELSE Null

\* ch gives every head its chain, and every node is in one place.
Chains(ch) ==
    /\ DOMAIN ch = heads
    /\ \A h \in heads : IsChain(h, ch[h])
    /\ \A g, h \in heads : g # h => \A k \in 1 .. Len(ch[g]), l \in 1 .. Len(ch[h]) :
                                       ch[g][k] # ch[h][l]
    /\ \A r \in DOMAIN nodes : \E h \in heads : \E k \in 1 .. Len(ch[h]) : ch[h][k] = r

IInv == Shape /\ \E ch : Chains(ch)

\* The entities that a chain lists.
Content(c) == [i \in 1 .. Len(c) - 1 |-> nodes[c[i + 1]].dataRID]
-----------------------------------------------------------------------------
(* The loops of the code reach the nodes of the chain.                        *)

\* The first nodes of a chain.
First(c, n) == [k \in 1 .. n |-> c[k]]

LEMMA FirstFacts ==
    ASSUME NEW S, NEW c \in Seq(S), NEW n \in 1 .. Len(c)
    PROVE  /\ First(c, n) \in Seq(S) /\ Len(First(c, n)) = n
           /\ First(c, n)[n] = c[n]
           /\ n + 1 <= Len(c) => Append(First(c, n), c[n + 1]) = First(c, n + 1)
  <1>1. Len(c) \in Nat /\ \A k \in 1 .. Len(c) : c[k] \in S
    BY LenProperties, ElementOfSeq
  <1>2. First(c, n) \in [1 .. n -> S]
    BY <1>1 DEF First
  <1>3. First(c, n) \in Seq(S)
    BY <1>1, <1>2, SeqDef
  <1>4. Len(First(c, n)) = n
    BY <1>1, <1>2, <1>3, LenProperties
  <1>5. ASSUME n + 1 <= Len(c) PROVE Append(First(c, n), c[n + 1]) = First(c, n + 1)
    <2> DEFINE a == Append(First(c, n), c[n + 1])
    <2>1. /\ a \in Seq(S) /\ Len(a) = n + 1
          /\ \A k \in 1 .. n : a[k] = First(c, n)[k]
          /\ a[n + 1] = c[n + 1]
      BY <1>1, <1>3, <1>4, <1>5, AppendProperties
    <2>2. a = [k \in 1 .. n + 1 |-> a[k]]
      BY <1>1, <2>1, LenProperties
    <2>3. \A k \in 1 .. n + 1 : a[k] = c[k]
      BY <1>1, <2>1 DEF First
    <2> HIDE DEF a
    <2>4. a = First(c, n + 1)
      BY <2>2, <2>3 DEF First
    <2> QED
      BY <2>4 DEF a
  <1> QED
    BY <1>1, <1>3, <1>4, <1>5 DEF First

\* One turn of the loops.
Onward(b) ==
    LET next == nodes[b[Len(b)]].nextRID
    IN IF next \in DOMAIN nodes THEN Append(b, next) ELSE b

LEMMA OnwardOfFirst ==
    ASSUME Shape, NEW h, NEW c, IsChain(h, c), NEW j \in 1 .. Len(c),
           NEW b, b = First(c, j)
    PROVE  Onward(b) = IF j < Len(c) THEN First(c, j + 1) ELSE b
  <1>1. /\ Len(c) \in Nat \ {0} /\ c \in Seq(RIDs)
        /\ c[j] \in DOMAIN nodes
        /\ nodes[c[j]].nextRID = IF j < Len(c) THEN c[j + 1] ELSE Null
        /\ j < Len(c) => c[j + 1] \in DOMAIN nodes
    BY DEF IsChain
  <1>2. Len(b) = j /\ b[j] = c[j] /\ (j < Len(c) => Append(b, c[j + 1]) = First(c, j + 1))
    BY <1>1, FirstFacts
  <1>3. Null \notin DOMAIN nodes
    BY NullAssumption DEF Shape
  <1> PICK next : next = nodes[c[j]].nextRID
    OBVIOUS
  <1>4. Onward(b) = IF next \in DOMAIN nodes THEN Append(b, next) ELSE b
    BY <1>2 DEF Onward
  <1>5. CASE j < Len(c)
    <2>1. next = c[j + 1] /\ next \in DOMAIN nodes
      BY <1>1, <1>5
    <2> QED
      BY <1>2, <1>4, <1>5, <2>1
  <1>6. CASE ~(j < Len(c))
    <2>1. next \notin DOMAIN nodes
      BY <1>1, <1>3, <1>6
    <2> QED
      BY <1>4, <1>6, <2>1
  <1> QED
    BY <1>5, <1>6

LEMMA ChainOf ==
    ASSUME Shape, NEW h, NEW c, IsChain(h, c)
    PROVE  Chain(h) = c
  <1> DEFINE N == Cardinality(DOMAIN nodes)
             Rec(g) == g = [n \in 0 .. N |-> IF n = 0 THEN <<h>> ELSE Onward(g[n - 1])]
             f == CHOOSE g : Rec(g)
             m == Len(c)
             upto(n) == IF n < m THEN n + 1 ELSE m
  <1>1. m \in Nat \ {0} /\ Distinct(c) /\ c[1] = h /\ c \in Seq(RIDs)
        /\ \A k \in 1 .. m : /\ c[k] \in DOMAIN nodes
                             /\ nodes[c[k]].nextRID = IF k < m THEN c[k + 1] ELSE Null
    BY DEF IsChain
  <1>2. N \in Nat /\ m <= N
    <2>1. N \in Nat /\ IsFiniteSet(DOMAIN nodes)
      BY FS_CardinalityType DEF Shape
    <2>2. c \in [1 .. m -> DOMAIN nodes]
      <3>1. c \in [1 .. m -> RIDs]
        BY <1>1, LenProperties
      <3> QED
        BY <1>1, <3>1
    <2>3. c \in Injection(1 .. m, DOMAIN nodes)
      BY <1>1, <2>2, Fun_IsInj DEF Distinct
    <2>4. Cardinality(1 .. m) <= N
      BY <2>1, <2>3, FS_Injection
    <2>5. Cardinality(1 .. m) = IF 1 > m THEN 0 ELSE m - 1 + 1
      BY <1>1, FS_Interval
    <2> QED
      BY <1>1, <2>1, <2>4, <2>5
  <1>3. ASSUME NEW n \in 1 .. N
        PROVE  First(c, upto(n)) = Onward(First(c, upto(n - 1)))
    <2> PICK j : j = upto(n - 1)
      OBVIOUS
    <2>1. j \in 1 .. m /\ (n < m => j = n /\ upto(n) = n + 1)
          /\ (~(n < m) => j = m /\ upto(n) = m)
      BY <1>1, <1>2
    <2>2. Onward(First(c, j)) = IF j < m THEN First(c, j + 1) ELSE First(c, j)
      BY <2>1, OnwardOfFirst
    <2> HIDE DEF upto
    <2>3. CASE n < m
      BY <2>1, <2>2, <2>3
    <2>4. CASE ~(n < m)
      BY <1>1, <2>1, <2>2, <2>4
    <2> QED
      BY <2>3, <2>4
  <1>5. First(c, upto(0)) = <<h>>
    <2>1. upto(0) = 1
      BY <1>1
    <2>2. First(c, 1) = <<h>>
      BY <1>1 DEF First
    <2> QED
      BY <2>1, <2>2
  <1>6. \E g : Rec(g)
    <2> DEFINE g == [n \in 0 .. N |-> First(c, upto(n))]
    <2> HIDE DEF upto, N
    <2>1. \A n \in 0 .. N : g[n] = First(c, upto(n))
      OBVIOUS
    <2>2. \A n \in 1 .. N : n - 1 \in 0 .. N
      BY <1>2
    <2>3. ASSUME NEW n \in 0 .. N
          PROVE  g[n] = IF n = 0 THEN <<h>>
                        ELSE Onward(g[n - 1])
      <3>1. CASE n = 0
        BY <1>5, <2>1, <3>1
      <3>2. CASE n # 0
        <4>1. n \in 1 .. N
          BY <1>2, <3>2
        <4>2. g[n] = First(c, upto(n)) /\ g[n - 1] = First(c, upto(n - 1))
          BY <2>1, <2>2, <4>1
        <4> HIDE DEF g
        <4> QED
          BY <1>3, <3>2, <4>1, <4>2
      <3> QED
        BY <3>1, <3>2
    <2>4. g = [n \in 0 .. N |-> g[n]]
      OBVIOUS
    <2> HIDE DEF g
    <2>5. Rec(g)
      BY <2>3, <2>4
    <2> QED
      BY <2>5
  <1>7. Rec(f)
    <2> HIDE DEF Rec
    <2> QED
      BY <1>6, Zenon
  <1>8. Chain(h) = f[N]
    BY DEF Chain, Onward
  <1> HIDE DEF f
  <1>9. f[0] = <<h>>
    BY <1>2, <1>7
  <1>10. ASSUME NEW n \in 1 .. N
         PROVE f[n] = Onward(f[n - 1])
    BY <1>2, <1>7
  <1> HIDE DEF Rec, upto
  <1> DEFINE G == {k \in Nat : f[k - 1] = First(c, upto(k - 1))}
  <1>11. 1 .. N + 1 \subseteq G
    <2>1. 1 \in G
      BY <1>5, <1>9
    <2>2. ASSUME NEW k \in 1 .. (N + 1) - 1, k \in G PROVE k + 1 \in G
      <3>1. k \in 1 .. N
        BY <1>2
      <3>2. f[k] = First(c, upto(k))
        BY <1>3, <1>10, <2>2, <3>1
      <3>3. k + 1 \in Nat /\ (k + 1) - 1 = k
        BY <3>1
      <3> QED
        BY <3>2, <3>3
    <2> HIDE DEF G
    <2>3. N + 1 \in Nat
      BY <1>2
    <2> HIDE DEF N
    <2> QED
      BY <2>1, <2>2, <2>3, InductionTo
  <1>12. f[N] = First(c, upto(N))
    <2> HIDE DEF N
    <2>1. N + 1 \in 1 .. N + 1 /\ (N + 1) - 1 = N
      BY <1>2
    <2> QED
      BY <1>11, <2>1
  <1>13. upto(N) = m
    BY <1>1, <1>2 DEF upto
  <1>14. First(c, m) = c
    BY <1>1, LenProperties DEF First
  <1> QED
    BY <1>8, <1>12, <1>13, <1>14

\* What the heads list, in terms of their chains.
ListsAreContents ==
    \A ch : Chains(ch) => \A h \in heads :
        /\ Chain(h) = ch[h]
        /\ Listed(h) = Content(ch[h])
        /\ \A r : r \in ChainSet(h) <=> \E k \in 1 .. Len(ch[h]) : ch[h][k] = r

LEMMA ListedOf == Shape => ListsAreContents
  <1> SUFFICES ASSUME Shape, NEW ch, Chains(ch), NEW h \in heads
               PROVE  /\ Chain(h) = ch[h]
                      /\ Listed(h) = Content(ch[h])
                      /\ \A r : r \in ChainSet(h) <=> \E k \in 1 .. Len(ch[h]) : ch[h][k] = r
    BY DEF ListsAreContents
  <1>1. IsChain(h, ch[h])
    BY DEF Chains
  <1>2. Chain(h) = ch[h]
    BY <1>1, ChainOf
  <1>3. DOMAIN ch[h] = 1 .. Len(ch[h])
    BY <1>1, LenProperties DEF IsChain
  <1> QED
    BY <1>2, <1>3 DEF Listed, Content, ChainSet
-----------------------------------------------------------------------------
(* The properties of the runs.                                                *)
LEMMA PartitionFromIInv == IInv => ListsPartition
  <1> SUFFICES ASSUME Shape, NEW ch, Chains(ch) PROVE ListsPartition
    BY DEF IInv
  <1>1. ASSUME NEW h \in heads
        PROVE  /\ IsChain(h, ch[h]) /\ Chain(h) = ch[h]
               /\ \A r : r \in ChainSet(h) <=> \E k \in 1 .. Len(ch[h]) : ch[h][k] = r
    BY ListedOf DEF ListsAreContents, Chains
  <1>2. ASSUME NEW h \in heads
        PROVE  /\ nodes[Chain(h)[Len(Chain(h))]].nextRID = Null
               /\ h \in ChainSet(h) /\ ChainSet(h) \subseteq DOMAIN nodes
    <2>1. Len(ch[h]) \in 1 .. Len(ch[h]) /\ 1 \in 1 .. Len(ch[h])
      BY <1>1 DEF IsChain
    <2> QED
      BY <1>1, <2>1 DEF IsChain
  <1>3. ASSUME NEW g \in heads, NEW h \in heads, g # h
        PROVE  ChainSet(g) \cap ChainSet(h) = {}
    BY <1>1, <1>3 DEF Chains
  <1>4. ASSUME NEW h \in heads PROVE ChainSet(h) \cap heads = {h}
    BY <1>2, <1>3
  <1>5. DOMAIN nodes = UNION {ChainSet(h) : h \in heads}
    <2>1. ASSUME NEW r \in DOMAIN nodes PROVE \E h \in heads : r \in ChainSet(h)
      BY <1>1 DEF Chains
    <2> QED
      BY <1>2, <2>1
  <1> QED
    BY <1>2, <1>3, <1>4, <1>5 DEF ListsPartition

LEMMA QueriesFromIInv == IInv => QueriesAgree
  <1> SUFFICES ASSUME Shape, NEW ch, Chains(ch), NEW h \in heads
               PROVE  /\ IsEmpty(h) <=> Listed(h) = <<>>
                      /\ \A e \in Entities \cup {Null} :
                            ContainsEntity(e, h)
                               <=> e \in {Listed(h)[i] : i \in DOMAIN Listed(h)}
    BY DEF IInv, QueriesAgree
  <1> PICK c : c = ch[h]
    OBVIOUS
  <1>1. IsChain(h, c) /\ Chain(h) = c /\ Listed(h) = Content(c)
    BY ListedOf DEF ListsAreContents, Chains
  <1>2. /\ Len(c) \in Nat \ {0} /\ c[1] = h
        /\ nodes[h].nextRID = IF 1 < Len(c) THEN c[2] ELSE Null
        /\ 1 < Len(c) => c[2] \in RIDs
    BY <1>1 DEF IsChain, Shape
  <1>3. IsEmpty(h) <=> Len(c) = 1
    <2>1. CASE Len(c) = 1
      BY <1>2, <2>1 DEF IsEmpty
    <2>2. CASE Len(c) # 1
      <3>1. 1 < Len(c)
        <4>1. \A m \in Nat \ {0} : m # 1 => 1 < m
          OBVIOUS
        <4> QED
          BY <1>2, <2>2, <4>1, Zenon
      <3>2. nodes[h].nextRID = c[2] /\ c[2] \in RIDs
        BY <1>2, <3>1, Zenon
      <3> QED
        BY <2>2, <3>2, NullAssumption DEF IsEmpty
    <2> QED
      BY <2>1, <2>2
  <1>4. Content(c) = <<>> <=> Len(c) = 1
    <2> PICK l : l = Content(c)
      OBVIOUS
    <2> PICK S : S = {Content(c)[i] : i \in 1 .. Len(c) - 1}
      OBVIOUS
    <2>1. l \in Seq(S) /\ Len(l) = Len(c) - 1
      <3>1. Content(c) \in [1 .. Len(c) - 1 -> {Content(c)[i] : i \in 1 .. Len(c) - 1}]
        BY DEF Content
      <3>2. Len(c) - 1 \in Nat
        BY <1>2
      <3> HIDE DEF Content
      <3>3. Content(c) \in Seq({Content(c)[i] : i \in 1 .. Len(c) - 1})
        BY <3>1, <3>2, SeqDef
      <3> QED
        BY <3>1, <3>2, <3>3, LenProperties
    <2>2. Len(<<>>) = 0 /\ (l # <<>> => Len(l) # 0)
      BY <2>1, EmptySeq
    <2>3. l = <<>> <=> Len(l) = 0
      BY <2>2, Zenon
    <2> QED
      BY <1>2, <2>1, <2>3
  <1>5. ASSUME NEW e
        PROVE ContainsEntity(e, h) <=> e \in {Listed(h)[i] : i \in DOMAIN Listed(h)}
    <2>1. ContainsEntity(e, h) <=> \E i \in 2 .. Len(c) : nodes[c[i]].dataRID = e
      BY <1>1 DEF ContainsEntity
    <2>2. DOMAIN Content(c) = 1 .. Len(c) - 1
          /\ \A i \in 1 .. Len(c) - 1 : Content(c)[i] = nodes[c[i + 1]].dataRID
      BY DEF Content
    <2>3. ASSUME NEW i \in 2 .. Len(c), nodes[c[i]].dataRID = e
          PROVE  e \in {Listed(h)[j] : j \in DOMAIN Listed(h)}
      <3>1. i - 1 \in 1 .. Len(c) - 1 /\ (i - 1) + 1 = i
        BY <1>2
      <3>2. Content(c)[i - 1] = e
        BY <2>2, <2>3, <3>1
      <3> QED
        BY <1>1, <2>2, <3>1, <3>2
    <2>4. ASSUME NEW i \in 1 .. Len(c) - 1, Content(c)[i] = e
          PROVE  \E j \in 2 .. Len(c) : nodes[c[j]].dataRID = e
      <3>1. i + 1 \in 2 .. Len(c)
        BY <1>2
      <3> QED
        BY <2>2, <2>4, <3>1
    <2> QED
      BY <1>1, <2>1, <2>2, <2>3, <2>4
  <1> QED
    BY <1>1, <1>3, <1>4, <1>5
-----------------------------------------------------------------------------
(* The steps.  At most one list changes; the others keep nodes and content.   *)

\* From the lists of the heads ch to those of new, where h is the only head that
\* comes, goes or changes.
OneList(ch, new, h) ==
    /\ DOMAIN new = heads'
    /\ \A g \in heads' : g # h => g \in heads /\ new[g] = ch[g]
    /\ \A g \in heads : g # h => g \in heads'
    /\ \A g \in heads : g # h => \A k \in 1 .. Len(ch[g]) :
          /\ ch[g][k] \in DOMAIN nodes'
          /\ nodes'[ch[g][k]] = nodes[ch[g][k]]
    /\ h \in heads' =>
          /\ IsChain(h, new[h])'
          /\ \A k \in 1 .. Len(new[h]) :
                \/ new[h][k] \notin DOMAIN nodes
                \/ h \in heads /\ \E l \in 1 .. Len(ch[h]) : ch[h][l] = new[h][k]
    /\ \A r \in DOMAIN nodes' :
          \/ /\ r \in DOMAIN nodes
             /\ h \in heads => ~ \E l \in 1 .. Len(ch[h]) : ch[h][l] = r
          \/ h \in heads' /\ \E k \in 1 .. Len(new[h]) : new[h][k] = r

LEMMA OthersKept ==
    ASSUME NEW ch, Chains(ch), NEW new, NEW h, OneList(ch, new, h)
    PROVE  /\ Chains(new)'
           /\ \A g \in heads : g # h => Content(ch[g])' = Content(ch[g])
  <1>1. ASSUME NEW g \in heads, g # h
        PROVE  IsChain(g, ch[g])' /\ Content(ch[g])' = Content(ch[g])
    <2> PICK c : c = ch[g]
      OBVIOUS
    <2>1. IsChain(g, c)
      BY DEF Chains
    <2>2. \A k \in 1 .. Len(c) : c[k] \in DOMAIN nodes' /\ nodes'[c[k]] = nodes[c[k]]
      BY <1>1 DEF OneList
    <2>3. IsChain(g, c)'
      BY <2>1, <2>2 DEF IsChain
    <2>4. \A i \in 1 .. Len(c) - 1 : i + 1 \in 1 .. Len(c)
      BY <2>1 DEF IsChain
    <2>5. Content(c)' = Content(c)
      BY <2>2, <2>4 DEF Content
    <2> QED
      BY <2>3, <2>5
  <1>2. \A g \in heads' : IsChain(g, new[g])'
    BY <1>1 DEF OneList
  <1>3. ASSUME NEW g \in heads', g # h, h \in heads',
               NEW k \in 1 .. Len(new[g]), NEW l \in 1 .. Len(new[h])
        PROVE  new[g][k] # new[h][l]
    <2>1. g \in heads /\ new[g] = ch[g]
      BY <1>3 DEF OneList
    <2>2. new[g][k] \in DOMAIN nodes
      BY <2>1 DEF Chains, IsChain
    <2>3. \A m \in 1 .. Len(ch[h]) : h \in heads => ch[h][m] # new[g][k]
      BY <1>3, <2>1 DEF Chains
    <2>4. \/ new[h][l] \notin DOMAIN nodes
          \/ h \in heads /\ \E m \in 1 .. Len(ch[h]) : ch[h][m] = new[h][l]
      BY <1>3, Zenon DEF OneList
    <2> QED
      BY <2>2, <2>3, <2>4
  <1>4. ASSUME NEW f \in heads', NEW g \in heads', f # g,
               NEW k \in 1 .. Len(new[f]), NEW l \in 1 .. Len(new[g])
        PROVE  new[f][k] # new[g][l]
    <2>1. CASE f = h
      BY <1>3, <1>4, <2>1
    <2>2. CASE g = h
      BY <1>3, <1>4, <2>2
    <2>3. CASE f # h /\ g # h
      BY <1>4, <2>3 DEF OneList, Chains
    <2> QED
      BY <2>1, <2>2, <2>3
  <1>5. ASSUME NEW r \in DOMAIN nodes'
        PROVE  \E g \in heads' : \E k \in 1 .. Len(new[g]) : new[g][k] = r
    <2>1. CASE /\ r \in DOMAIN nodes
               /\ h \in heads => ~ \E l \in 1 .. Len(ch[h]) : ch[h][l] = r
      <3>1. PICK g \in heads : \E k \in 1 .. Len(ch[g]) : ch[g][k] = r
        BY <2>1 DEF Chains
      <3>2. g # h
        BY <2>1, <3>1
      <3>3. g \in heads' /\ new[g] = ch[g]
        BY <3>2 DEF OneList
      <3> QED
        BY <3>1, <3>3
    <2>2. CASE h \in heads' /\ \E k \in 1 .. Len(new[h]) : new[h][k] = r
      BY <2>2
    <2> QED
      BY <2>1, <2>2, Zenon DEF OneList
  <1>6. DOMAIN new = heads'
    BY DEF OneList
  <1>7. Chains(new)'
    BY <1>2, <1>4, <1>5, <1>6 DEF Chains
  <1> QED
    BY <1>1, <1>7

LEMMA SingleChain ==
    ASSUME NEW r \in RIDs, NEW c, c = <<r>>
    PROVE  c \in Seq(RIDs) /\ Len(c) = 1 /\ c[1] = r /\ Distinct(c)
  BY DEF Distinct

\* createList: a list of a head alone.
LEMMA CreateStep ==
    ASSUME Shape, NEW ch, Chains(ch), CreateList
    PROVE  /\ Shape'
           /\ \E r \in RIDs : \E new : /\ heads' = heads \cup {r} /\ r \notin heads
                                       /\ OneList(ch, new, r)
                                       /\ Len(new[r]) = 1
  <1> PICK node : node = [dataRID |-> Null, nextRID |-> Null]
    OBVIOUS
  <1>1. PICK r \in RIDs \ DOMAIN nodes :
              nodes' = WithNode(nodes, r, node) /\ heads' = heads \cup {r}
    BY DEF CreateList
  <1>2. node \in Node /\ node.nextRID = Null
    BY DEF Node
  <1>3. /\ DOMAIN nodes' = DOMAIN nodes \cup {r}
        /\ nodes' = [s \in DOMAIN nodes' |-> nodes'[s]]
        /\ nodes'[r] = node
        /\ \A s \in DOMAIN nodes : nodes'[s] = nodes[s]
    BY <1>1, SMT DEF WithNode
  <1>4. r \notin heads
    BY <1>1 DEF Shape
  <1>5. Shape'
    <2>1. IsFiniteSet(DOMAIN nodes \cup {r})
      BY FS_AddElement DEF Shape
    <2> QED
      BY <1>1, <1>2, <1>3, <2>1 DEF Shape
  <1> PICK c : c = <<r>>
    OBVIOUS
  <1>6. c \in Seq(RIDs) /\ Len(c) = 1 /\ c[1] = r /\ Distinct(c)
    BY <1>1, SingleChain
  <1>7. IsChain(r, c)'
    <2>1. \A k \in 1 .. Len(c) : k = 1 /\ ~(k < Len(c))
      BY <1>6
    <2> QED
      BY <1>2, <1>3, <1>6, <2>1 DEF IsChain
  <1> PICK new : new = [g \in heads \cup {r} |-> IF g = r THEN c ELSE ch[g]]
    OBVIOUS
  <1>8. \A g \in heads : \A k \in 1 .. Len(ch[g]) : ch[g][k] \in DOMAIN nodes
    BY DEF Chains, IsChain
  <1>9. \A k \in 1 .. Len(c) : c[k] \notin DOMAIN nodes
    BY <1>1, <1>6
  <1>10. 1 \in 1 .. Len(c)
    BY <1>6
  <1>11. /\ DOMAIN new = heads' /\ new[r] = c
         /\ \A g \in heads : g \in heads' /\ new[g] = ch[g]
         /\ \A g \in heads' : g # r => g \in heads
    BY <1>1, <1>4
  <1>12. OneList(ch, new, r)
    BY <1>3, <1>4, <1>6, <1>7, <1>8, <1>9, <1>10, <1>11, <1>1 DEF OneList
  <1> QED
    BY <1>1, <1>4, <1>5, <1>6, <1>11, <1>12

\* deleteList: the head goes with every node behind it.
LEMMA DeleteStep ==
    ASSUME Shape, NEW ch, Chains(ch), NEW h \in heads, DeleteList(h)
    PROVE  Shape' /\ heads' = heads \ {h} /\ \E new : OneList(ch, new, h)
  <1> PICK R : R = ChainSet(h)
    OBVIOUS
  <1>1. \A r : r \in R <=> \E k \in 1 .. Len(ch[h]) : ch[h][k] = r
    BY ListedOf DEF ListsAreContents
  <1>2. nodes' = Without(nodes, R) /\ heads' = heads \ {h}
    BY DEF DeleteList
  <1>3. /\ DOMAIN nodes' = DOMAIN nodes \ R
        /\ nodes' = [s \in DOMAIN nodes' |-> nodes'[s]]
        /\ \A s \in DOMAIN nodes \ R : nodes'[s] = nodes[s]
    BY <1>2, SMT DEF Without
  <1>4. ASSUME NEW g \in heads, g # h, NEW k \in 1 .. Len(ch[g])
        PROVE  ch[g][k] \in DOMAIN nodes \ R
    <2>1. ch[g][k] \in DOMAIN nodes
      BY DEF Chains, IsChain
    <2>2. \A l \in 1 .. Len(ch[h]) : ch[h][l] # ch[g][k]
      BY <1>4 DEF Chains
    <2> QED
      BY <1>1, <2>1, <2>2
  <1>5. ASSUME NEW g \in heads, g # h PROVE g \in DOMAIN nodes \ R
    <2>1. 1 \in 1 .. Len(ch[g]) /\ ch[g][1] = g
      BY DEF Chains, IsChain
    <2> QED
      BY <1>4, <1>5, <2>1
  <1>6. Shape'
    <2>1. IsFiniteSet(DOMAIN nodes \ R)
      BY FS_Subset DEF Shape
    <2> QED
      BY <1>2, <1>3, <1>5, <2>1 DEF Shape
  <1> PICK new : new = [g \in heads \ {h} |-> ch[g]]
    OBVIOUS
  <1>7. OneList(ch, new, h)
    BY <1>1, <1>2, <1>3, <1>4 DEF OneList
  <1> QED
    BY <1>2, <1>6, <1>7

\* A chain with r behind its head.
WithSecond(c, r) ==
    [k \in 1 .. Len(c) + 1 |-> IF k = 1 THEN c[1] ELSE IF k = 2 THEN r ELSE c[k - 1]]

\* c is a chain with elements of S, and r could be put into it.
RoomFor(S, c, r) ==
    /\ c \in Seq(S) /\ Len(c) \in Nat \ {0} /\ Distinct(c)
    /\ r \in S /\ \A k \in 1 .. Len(c) : c[k] # r

\* d is c with r in the second place.
HasSecond(S, c, r, d) ==
    /\ d \in Seq(S) /\ Len(d) = Len(c) + 1 /\ Distinct(d)
    /\ d[1] = c[1] /\ d[2] = r
    /\ \A k \in 3 .. Len(d) : d[k] = c[k - 1]

LEMMA WithSecondFacts ==
    ASSUME NEW S, NEW c, NEW r, RoomFor(S, c, r)
    PROVE  HasSecond(S, c, r, WithSecond(c, r))
  <1> PICK d : d = WithSecond(c, r)
    OBVIOUS
  <1> PICK m : m = Len(c)
    OBVIOUS
  <1>1. m \in Nat \ {0} /\ \A k \in 1 .. m : c[k] \in S
    BY ElementOfSeq DEF RoomFor
  <1>2. d = [k \in 1 .. m + 1 |-> IF k = 1 THEN c[1] ELSE IF k = 2 THEN r ELSE c[k - 1]]
    BY DEF WithSecond
  <1>3. \A k \in 1 .. m + 1 : k = 1 \/ k = 2 \/ (k \in 3 .. m + 1 /\ k - 1 \in 2 .. m)
    BY <1>1
  <1>4. /\ d[1] = c[1] /\ d[2] = r
        /\ \A k \in 3 .. m + 1 : d[k] = c[k - 1]
    BY <1>1, <1>2
  <1>5. \A k \in 1 .. m + 1 : d[k] \in S
    <2>1. m \in Nat \ {0} /\ 1 \in 1 .. m /\ \A k \in 3 .. m + 1 : k - 1 \in 1 .. m
      BY <1>1
    <2>2. r \in S
      BY DEF RoomFor
    <2> QED
      BY <1>1, <1>3, <1>4, <2>1, <2>2, Zenon
  <1>6. d \in [1 .. m + 1 -> S] /\ m + 1 \in Nat
    BY <1>1, <1>2, <1>5
  <1>7. d \in Seq(S)
    BY <1>6, SeqDef
  <1>8. Len(d) = m + 1
    BY <1>6, <1>7, LenProperties
  <1>9. ASSUME NEW j \in 1 .. m + 1, NEW k \in 1 .. m + 1, d[j] = d[k]
        PROVE  j = k
    <2>1. \A x \in 1 .. m + 1 : x # 2 =>
             \E y \in 1 .. m : d[x] = c[y] /\ x = (IF y = 1 THEN 1 ELSE y + 1)
      <3>1. ASSUME NEW x \in 3 .. m + 1
            PROVE  \E y \in 1 .. m : d[x] = c[y] /\ x = (IF y = 1 THEN 1 ELSE y + 1)
        <4>1. x - 1 \in 1 .. m /\ x - 1 # 1 /\ x = (x - 1) + 1
          BY <1>1
        <4> QED
          BY <1>4, <4>1
      <3>2. 1 \in 1 .. m
        BY <1>1
      <3> QED
        BY <1>3, <1>4, <3>1, <3>2
    <2>2. CASE j = 2 /\ k = 2
      BY <2>2
    <2>3. CASE j = 2 /\ k # 2
      BY <1>4, <1>9, <2>1, <2>3 DEF RoomFor
    <2>4. CASE j # 2 /\ k = 2
      BY <1>4, <1>9, <2>1, <2>4 DEF RoomFor
    <2>5. CASE j # 2 /\ k # 2
      <3>1. PICK y \in 1 .. m : d[j] = c[y] /\ j = (IF y = 1 THEN 1 ELSE y + 1)
        BY <2>1, <2>5
      <3>2. PICK z \in 1 .. m : d[k] = c[z] /\ k = (IF z = 1 THEN 1 ELSE z + 1)
        BY <2>1, <2>5
      <3>3. y = z
        BY <1>9, <3>1, <3>2 DEF Distinct, RoomFor
      <3> QED
        BY <3>1, <3>2, <3>3
    <2> QED
      BY <2>2, <2>3, <2>4, <2>5
  <1> QED
    BY <1>4, <1>7, <1>8, <1>9 DEF Distinct, HasSecond

LEMMA ContentFacts ==
    ASSUME NEW c, Len(c) \in Nat \ {0}
    PROVE  /\ Content(c) \in Seq({Content(c)[i] : i \in 1 .. Len(c) - 1})
           /\ Len(Content(c)) = Len(c) - 1
           /\ \A i \in 1 .. Len(c) - 1 : Content(c)[i] = nodes[c[i + 1]].dataRID
  <1> DEFINE S == {Content(c)[i] : i \in 1 .. Len(c) - 1}
  <1>1. Content(c) \in [1 .. Len(c) - 1 -> S]
    BY DEF Content
  <1>2. Len(c) - 1 \in Nat
    OBVIOUS
  <1>3. \A i \in 1 .. Len(c) - 1 : Content(c)[i] = nodes[c[i + 1]].dataRID
    BY DEF Content
  <1> HIDE DEF S
  <1>4. Content(c) \in Seq(S)
    BY <1>1, <1>2, SeqDef
  <1>5. Len(Content(c)) = Len(c) - 1
    BY <1>1, <1>2, <1>4, LenProperties
  <1> QED
    BY <1>3, <1>4, <1>5 DEF S

\* Sequences are equal when their elements are.
LEMMA SameSequence ==
    ASSUME NEW S, NEW T, NEW s \in Seq(S), NEW t \in Seq(T), Len(s) = Len(t),
           \A k \in 1 .. Len(s) : s[k] = t[k]
    PROVE  s = t
  <1>1. s = [k \in 1 .. Len(s) |-> s[k]] /\ t = [k \in 1 .. Len(s) |-> t[k]]
    BY LenProperties
  <1> QED
    BY <1>1

LEMMA ContentFactsNext ==
    ASSUME NEW c, Len(c) \in Nat \ {0}
    PROVE  /\ Content(c)' \in Seq({Content(c)'[i] : i \in 1 .. Len(c) - 1})
           /\ Len(Content(c)') = Len(c) - 1
           /\ \A i \in 1 .. Len(c) - 1 : Content(c)'[i] = nodes'[c[i + 1]].dataRID
  <1> DEFINE S == {Content(c)'[i] : i \in 1 .. Len(c) - 1}
  <1>1. Content(c)' \in [1 .. Len(c) - 1 -> S]
    BY DEF Content
  <1>2. Len(c) - 1 \in Nat
    OBVIOUS
  <1>3. \A i \in 1 .. Len(c) - 1 : Content(c)'[i] = nodes'[c[i + 1]].dataRID
    BY DEF Content
  <1> HIDE DEF S
  <1>4. Content(c)' \in Seq(S)
    BY <1>1, <1>2, SeqDef
  <1>5. Len(Content(c)') = Len(c) - 1
    BY <1>1, <1>2, <1>4, LenProperties
  <1> QED
    BY <1>3, <1>4, <1>5 DEF S

\* s and t are sequences, and t has e first and then the elements of s.
NewInFront(e, m, s, t) ==
    /\ \E S : s \in Seq(S)
    /\ \E T : t \in Seq(T)
    /\ Len(s) = m - 1 /\ Len(t) = m
    /\ \A i \in 1 .. m : IF i = 1 THEN t[i] = e ELSE t[i] = s[i - 1]

LEMMA NewestFirst ==
    ASSUME NEW e, NEW m \in Nat \ {0}, NEW s, NEW t, NewInFront(e, m, s, t)
    PROVE  t = <<e>> \o s
  <1>len. /\ Len(s) = m - 1 /\ Len(t) = m
          /\ \A i \in 1 .. m : IF i = 1 THEN t[i] = e ELSE t[i] = s[i - 1]
    BY Zenon DEF NewInFront
  <1>1. PICK S, T : s \in Seq(S) /\ t \in Seq(T)
    BY Zenon DEF NewInFront
  <1>2. PICK u : u = <<e>> \o s
    OBVIOUS
  <1>3. PICK p : p = <<e>>
    OBVIOUS
  <1>4. PICK V : V = {e} \cup S
    OBVIOUS
  <1>5. p \in Seq(V) /\ Len(p) = 1 /\ p[1] = e
    BY <1>3, <1>4
  <1>6. s \in Seq(V)
    BY <1>1, <1>4, SeqMonotonic
  <1>7. /\ u \in Seq(V) /\ Len(u) = Len(p) + Len(s)
        /\ \A i \in 1 .. Len(p) + Len(s) :
              u[i] = IF i <= Len(p) THEN p[i] ELSE s[i - Len(p)]
    BY <1>2, <1>3, <1>5, <1>6, ConcatProperties
  <1>8. Len(u) = m
    BY <1>len, <1>5, <1>7
  <1>9. \A i \in 1 .. m : u[i] = t[i]
    <2>1. ASSUME NEW i \in 1 .. m
          PROVE  i \in 1 .. 1 + (m - 1) /\ (i <= 1 <=> i = 1)
      OBVIOUS
    <2>2. \A i \in 1 .. 1 + (m - 1) : u[i] = IF i <= 1 THEN p[i] ELSE s[i - 1]
      BY <1>len, <1>5, <1>7, Zenon
    <2> QED
      BY <1>len, <1>5, <2>1, <2>2, Zenon
  <1>10. Len(t) = Len(u) /\ \A k \in 1 .. Len(t) : t[k] = u[k]
    BY <1>len, <1>8, <1>9, Zenon
  <1>11. t = u
    BY <1>1, <1>7, <1>10, SameSequence
  <1> QED
    BY <1>2, <1>11

\* insertEntity: the new node behind the head.
LEMMA InsertStep ==
    ASSUME Shape, NEW ch, Chains(ch), NEW h \in heads, NEW e \in Entities,
           InsertEntity(e, h)
    PROVE  /\ Shape' /\ heads' = heads
           /\ \E new : /\ OneList(ch, new, h)
                       /\ Content(new[h])' = <<e>> \o Content(ch[h])
  <1>eold. PICK old : old = nodes[h]
    OBVIOUS
  <1>efresh. PICK fresh : fresh = [dataRID |-> e, nextRID |-> old.nextRID]
    OBVIOUS
  <1>1. PICK r \in RIDs \ DOMAIN nodes :
           /\ nodes' = WithNode(WithNode(nodes, r, fresh), h, [old EXCEPT !.nextRID = r])
           /\ heads' = heads
    BY <1>eold, <1>efresh DEF InsertEntity
  <1>ehead. PICK head : head = [old EXCEPT !.nextRID = r]
    OBVIOUS
  <1>2. old \in Node /\ h \in DOMAIN nodes /\ h # r
    BY <1>eold, <1>1 DEF Shape
  <1>3. /\ fresh \in Node /\ fresh.dataRID = e /\ fresh.nextRID = old.nextRID
        /\ head \in Node /\ head.nextRID = r
    BY <1>efresh, <1>ehead, <1>1, <1>2 DEF Node
  <1>4. /\ DOMAIN nodes' = DOMAIN nodes \cup {r}
        /\ nodes' = [s \in DOMAIN nodes' |-> nodes'[s]]
        /\ nodes'[r] = fresh /\ nodes'[h] = head
        /\ \A s \in DOMAIN nodes : s # h => nodes'[s] = nodes[s]
    BY <1>ehead, <1>1, <1>2, SMT DEF WithNode
  <1>5. Shape'
    <2>1. IsFiniteSet(DOMAIN nodes \cup {r})
      BY FS_AddElement DEF Shape
    <2>2. \A s \in DOMAIN nodes' : nodes'[s] \in Node
      BY <1>3, <1>4 DEF Shape
    <2> QED
      BY <1>1, <1>4, <2>1, <2>2 DEF Shape
  <1>ec. PICK c : c = ch[h]
    OBVIOUS
  <1>ed. PICK d : d = WithSecond(c, r)
    OBVIOUS
  <1>m. PICK m : m = Len(c)
    OBVIOUS
  <1>6. /\ c \in Seq(RIDs) /\ m \in Nat \ {0} /\ Distinct(c) /\ c[1] = h
        /\ \A k \in 1 .. m : /\ c[k] \in DOMAIN nodes
                             /\ nodes[c[k]].nextRID = IF k < m THEN c[k + 1] ELSE Null
    <2>1. IsChain(h, c)
      BY <1>ec DEF Chains
    <2> QED
      BY <1>m, <2>1, Zenon DEF IsChain
  <1>n. m \in Nat \ {0} /\ 1 \in 1 .. m
    BY <1>6
  <1>7. /\ d \in Seq(RIDs) /\ Len(d) = m + 1 /\ Distinct(d)
        /\ d[1] = h /\ d[2] = r
        /\ \A k \in 3 .. m + 1 : d[k] = c[k - 1]
    <2>1. \A k \in 1 .. m : c[k] # r
      BY <1>1, <1>6
    <2>2. /\ d \in Seq(RIDs) /\ Len(d) = Len(c) + 1 /\ Distinct(d)
          /\ d[1] = c[1] /\ d[2] = r
          /\ \A k \in 3 .. Len(d) : d[k] = c[k - 1]
      <3>1. RoomFor(RIDs, c, r)
        BY <1>1, <1>m, <1>6, <2>1, Zenon DEF RoomFor
      <3>2. HasSecond(RIDs, c, r, d)
        BY <1>ed, <3>1, WithSecondFacts, Zenon
      <3> QED
        BY <3>2, Zenon DEF HasSecond
    <2> QED
      BY <1>m, <1>6, <2>2, Zenon
  <1>8. \A k \in 2 .. m : c[k] # h /\ c[k] \in DOMAIN nodes /\ nodes'[c[k]] = nodes[c[k]]
    <2>1. \A k \in 2 .. m : k \in 1 .. m /\ 1 \in 1 .. m /\ k # 1
      BY <1>n
    <2>2. \A k \in 2 .. m : c[k] # h
      <3>1. \A j, k \in 1 .. m : c[j] = c[k] => j = k
        BY <1>m, <1>6, Zenon DEF Distinct
      <3>2. c[1] = h
        BY <1>6
      <3> QED
        BY <2>1, <3>1, <3>2, Zenon
    <2> QED
      BY <1>4, <1>6, <2>1, <2>2
  <1>9. \A k \in 1 .. m + 1 : k = 1 \/ k = 2 \/ (k \in 3 .. m + 1 /\ k - 1 \in 2 .. m)
    BY <1>6
  <1>10. \A k \in 3 .. m + 1 : d[k] \in DOMAIN nodes /\ nodes'[d[k]] = nodes[c[k - 1]]
    <2>1. \A k \in 3 .. m + 1 : k - 1 \in 2 .. m
      BY <1>6
    <2> QED
      BY <1>7, <1>8, <2>1
  <1>11. ASSUME NEW k \in 1 .. m + 1
         PROVE  /\ d[k] \in DOMAIN nodes'
                /\ nodes'[d[k]].nextRID = IF k < m + 1 THEN d[k + 1] ELSE Null
    <2>1. CASE k = 1
      <3>1. 1 < m + 1 /\ 1 + 1 = 2
        BY <1>n
      <3>2. d[1] = h /\ d[1 + 1] = r
        BY <1>7, <3>1, Zenon
      <3>3. h \in DOMAIN nodes' /\ nodes'[h].nextRID = r
        BY <1>2, <1>3, <1>4
      <3> QED
        BY <2>1, <3>1, <3>2, <3>3, Zenon
    <2>2. CASE k = 2
      <3>1. nodes'[r].nextRID = nodes[h].nextRID /\ r \in DOMAIN nodes'
        BY <1>eold, <1>3, <1>4
      <3>2. nodes[h].nextRID = IF 1 < m THEN c[2] ELSE Null
        BY <1>6
      <3>3. 1 < m => d[3] = c[2]
        BY <1>6, <1>7
      <3>4. 2 < m + 1 <=> 1 < m
        BY <1>6
      <3> QED
        BY <1>7, <2>2, <3>1, <3>2, <3>3, <3>4
    <2>3. CASE k \in 3 .. m + 1
      <3>1. k - 1 \in 1 .. m /\ (k - 1) + 1 = k /\ (k - 1 < m <=> k < m + 1)
            /\ (k < m + 1 => k + 1 \in 3 .. m + 1 /\ (k + 1) - 1 = k)
        BY <1>n, <2>3
      <3>2. nodes[c[k - 1]].nextRID = IF k < m + 1 THEN c[k] ELSE Null
        BY <1>6, <3>1
      <3>3. k < m + 1 => d[k + 1] = c[k]
        BY <1>7, <3>1
      <3> QED
        BY <1>4, <1>10, <2>3, <3>2, <3>3
    <2> QED
      BY <1>9, <2>1, <2>2, <2>3
  <1>12. IsChain(h, d)'
    <2>1. Len(d) \in Nat \ {0}
      BY <1>6, <1>7
    <2> QED
      BY <1>7, <1>11, <2>1, Zenon DEF IsChain
  <1>enew. PICK new : new = [ch EXCEPT ![h] = d]
    OBVIOUS
  <1>13. /\ DOMAIN new = heads /\ new[h] = d
         /\ \A g \in heads : g # h => new[g] = ch[g]
    BY <1>enew DEF Chains
  <1>14. OneList(ch, new, h)
    <2>1. ASSUME NEW g \in heads, g # h, NEW k \in 1 .. Len(ch[g])
          PROVE  ch[g][k] \in DOMAIN nodes' /\ nodes'[ch[g][k]] = nodes[ch[g][k]]
      <3>1. ch[g][k] \in DOMAIN nodes
        BY DEF Chains, IsChain
      <3>2. ch[g][k] # h
        <4>1. 1 \in 1 .. Len(ch[h]) /\ ch[h][1] = h
          BY <1>ec, <1>m, <1>n, <1>6, Zenon
        <4> QED
          BY <2>1, <4>1 DEF Chains
      <3> QED
        BY <1>4, <3>1, <3>2
    <2>2. \A k \in 1 .. Len(d) : d[k] \notin DOMAIN nodes \/ \E l \in 1 .. Len(c) : c[l] = d[k]
      <3>1. \A k \in 3 .. m + 1 : k - 1 \in 1 .. m
        BY <1>n
      <3>2. \A k \in 3 .. m + 1 : \E l \in 1 .. m : c[l] = d[k]
        BY <1>7, <3>1, Zenon
      <3>3. \E l \in 1 .. m : c[l] = d[1]
        BY <1>n, <1>6, <1>7, Zenon
      <3>4. d[2] \notin DOMAIN nodes
        BY <1>1, <1>7
      <3> QED
        BY <1>m, <1>7, <1>9, <3>2, <3>3, <3>4, Zenon
    <2>3. ASSUME NEW s \in DOMAIN nodes'
          PROVE  \/ s \in DOMAIN nodes /\ ~ \E l \in 1 .. Len(c) : c[l] = s
                 \/ \E k \in 1 .. Len(d) : d[k] = s
      <3>1. CASE s = r
        <4>1. 2 \in 1 .. Len(d)
          BY <1>6, <1>7
        <4> QED
          BY <1>7, <3>1, <4>1
      <3>2. ASSUME NEW l \in 1 .. Len(c), c[l] = s
            PROVE  \E k \in 1 .. Len(d) : d[k] = s
        <4>1. CASE l = 1
          <5>1. 1 \in 1 .. Len(d)
            BY <1>6, <1>7
          <5> QED
            BY <1>6, <1>7, <3>2, <4>1, <5>1
        <4>2. CASE l # 1
          <5>1. \A n \in 1 .. m : n # 1 => n + 1 \in 1 .. m + 1 /\ n + 1 \in 3 .. m + 1
                                           /\ (n + 1) - 1 = n
            BY <1>n
          <5>2. l \in 1 .. m
            BY <1>m, <3>2, Zenon
          <5>3. l + 1 \in 1 .. Len(d) /\ d[l + 1] = c[l]
            BY <1>7, <4>2, <5>1, <5>2, Zenon
          <5> QED
            BY <3>2, <5>3, Zenon
        <4> QED
          BY <4>1, <4>2
      <3> QED
        BY <1>4, <3>1, <3>2
    <2> QED
      BY <1>ec, <1>1, <1>12, <1>13, <2>1, <2>2, <2>3 DEF OneList
  <1>15. Content(d)' = <<e>> \o Content(c)
    <2>es. PICK s : s = Content(c)
      OBVIOUS
    <2>et. PICK t : t = Content(d)'
      OBVIOUS
    <2>1. \E S : /\ s \in Seq(S) /\ Len(s) = m - 1
                 /\ \A i \in 1 .. m - 1 : s[i] = nodes[c[i + 1]].dataRID
      BY <1>m, <1>n, <2>es, ContentFacts, Zenon
    <2>2. \E T : /\ t \in Seq(T) /\ Len(t) = m
                 /\ \A i \in 1 .. m : t[i] = nodes'[d[i + 1]].dataRID
      <3>1. Len(d) \in Nat \ {0} /\ Len(d) - 1 = m
        BY <1>n, <1>7
      <3> QED
        BY <2>et, <3>1, ContentFactsNext, Zenon
    <2>3. \A i \in 1 .. m : IF i = 1 THEN t[i] = e ELSE t[i] = s[i - 1]
      <3>1. \A i \in 1 .. m : IF i = 1 THEN TRUE
                             ELSE /\ i + 1 \in 3 .. m + 1 /\ (i + 1) - 1 = i
                                  /\ i - 1 \in 1 .. m - 1 /\ (i - 1) + 1 = i
        BY <1>n
      <3>2. t[1] = e
        <4>1. 1 + 1 = 2
          OBVIOUS
        <4>2. t[1] = nodes'[d[1 + 1]].dataRID
          BY <1>n, <2>2, Zenon
        <4> QED
          BY <1>3, <1>4, <1>7, <4>1, <4>2, Zenon
      <3>3. ASSUME NEW i \in 1 .. m, i # 1 PROVE t[i] = s[i - 1]
        <4>1. t[i] = nodes'[d[i + 1]].dataRID
          BY <2>2
        <4>2. nodes'[d[i + 1]] = nodes[c[i]]
          BY <1>10, <3>1, <3>3, Zenon
        <4>3. s[i - 1] = nodes[c[i]].dataRID
          BY <2>1, <3>1, <3>3, Zenon
        <4> QED
          BY <4>1, <4>2, <4>3, Zenon
      <3> QED
        BY <3>2, <3>3, Zenon
    <2>4. t = <<e>> \o s
      <3>1. NewInFront(e, m, s, t)
        BY <2>1, <2>2, <2>3, Zenon DEF NewInFront
      <3> QED
        BY <1>n, <3>1, NewestFirst, Zenon
    <2> QED
      BY <2>es, <2>et, <2>4
  <1> QED
    BY <1>ec, <1>1, <1>5, <1>13, <1>14, <1>15
-----------------------------------------------------------------------------
(* A sequence without one of its elements.                                    *)

\* d is c without the element of position i.
HasGap(S, c, i, d) ==
    /\ d \in Seq(S) /\ Len(d) = Len(c) - 1
    /\ \A k \in 1 .. Len(c) - 1 : d[k] = IF k < i THEN c[k] ELSE c[k + 1]

Gap(c, i) == [k \in 1 .. Len(c) - 1 |-> IF k < i THEN c[k] ELSE c[k + 1]]

LEMMA GapFacts ==
    ASSUME NEW S, NEW c \in Seq(S), Len(c) \in Nat \ {0}, NEW i \in 1 .. Len(c)
    PROVE  HasGap(S, c, i, Gap(c, i))
  <1>m. PICK m : m = Len(c)
    OBVIOUS
  <1>d. PICK d : d = Gap(c, i)
    OBVIOUS
  <1>1. m \in Nat \ {0} /\ m - 1 \in Nat /\ i \in 1 .. m
    BY <1>m
  <1>2. \A k \in 1 .. m : c[k] \in S
    BY <1>m, ElementOfSeq
  <1>3. d = [k \in 1 .. m - 1 |-> IF k < i THEN c[k] ELSE c[k + 1]]
    BY <1>m, <1>d DEF Gap
  <1>4. \A k \in 1 .. m - 1 : k \in 1 .. m /\ k + 1 \in 1 .. m
    BY <1>1
  <1>5. \A k \in 1 .. m - 1 : d[k] \in S
    BY <1>2, <1>3, <1>4, Zenon
  <1>6. d \in [1 .. m - 1 -> S]
    BY <1>3, <1>5
  <1>7. d \in Seq(S)
    BY <1>1, <1>6, SeqDef
  <1>8. Len(d) = m - 1
    BY <1>1, <1>6, <1>7, LenProperties
  <1> QED
    BY <1>m, <1>d, <1>3, <1>7, <1>8, Zenon DEF HasGap

LEMMA GapIsUnique ==
    ASSUME NEW S, NEW T, NEW c, Len(c) \in Nat \ {0}, NEW i, NEW d, NEW f,
           HasGap(S, c, i, d), HasGap(T, c, i, f)
    PROVE  d = f
  <1>1. d \in Seq(S) /\ f \in Seq(T) /\ Len(d) = Len(f)
    BY Zenon DEF HasGap
  <1>2. \A k \in 1 .. Len(d) : d[k] = f[k]
    BY Zenon DEF HasGap
  <1> QED
    BY <1>1, <1>2, SameSequence

\* The first m - 1 elements of d are those of c without position i, in order.
Moved(c, m, i, d) ==
    \A k \in 1 .. m - 1 : \E l \in 1 .. m : /\ l # i /\ d[k] = c[l]
                                          /\ k = IF l < i THEN l ELSE l - 1

\* r is one of the first n elements of d.
Found(d, n, r) == \E k \in 1 .. n : d[k] = r

\* The elements with a gap are elements of the sequence, and one goes.
LEMMA GapElements ==
    ASSUME NEW S, NEW c, NEW m \in Nat \ {0}, m = Len(c), NEW i \in 1 .. m, NEW d,
           HasGap(S, c, i, d)
    PROVE  /\ Moved(c, m, i, d)
           /\ \A l \in 1 .. m : l # i => Found(d, m - 1, c[l])
  <1>1. ASSUME NEW k \in 1 .. m - 1
        PROVE  \E l \in 1 .. m : l # i /\ d[k] = c[l] /\ k = IF l < i THEN l ELSE l - 1
    <2>1. d[k] = IF k < i THEN c[k] ELSE c[k + 1]
      BY Zenon DEF HasGap
    <2>2. CASE k < i
      <3>1. k \in 1 .. m /\ k # i
        BY <2>2
      <3> QED
        BY <2>1, <2>2, <3>1, Zenon
    <2>3. CASE ~(k < i)
      <3>1. k + 1 \in 1 .. m /\ k + 1 # i /\ ~(k + 1 < i) /\ (k + 1) - 1 = k
        BY <2>3
      <3> QED
        BY <2>1, <2>3, <3>1, Zenon
    <2> QED
      BY <2>2, <2>3
  <1>2. ASSUME NEW l \in 1 .. m, l # i PROVE \E k \in 1 .. m - 1 : d[k] = c[l]
    <2>1. CASE l < i
      <3>1. l \in 1 .. m - 1
        BY <2>1
      <3>2. d[l] = c[l]
        BY <2>1, <3>1, Zenon DEF HasGap
      <3> QED
        BY <3>1, <3>2, Zenon
    <2>2. CASE ~(l < i)
      <3>1. l - 1 \in 1 .. m - 1 /\ ~(l - 1 < i) /\ (l - 1) + 1 = l
        BY <1>2, <2>2
      <3>2. d[l - 1] = c[(l - 1) + 1]
        BY <3>1, Zenon DEF HasGap
      <3> QED
        BY <3>1, <3>2, Zenon
    <2> QED
      BY <2>1, <2>2
  <1> QED
    BY <1>1, <1>2, Zenon DEF Moved, Found

LEMMA GapDistinct ==
    ASSUME NEW S, NEW c, NEW m \in Nat \ {0}, m = Len(c), NEW i \in 1 .. m, NEW d,
           HasGap(S, c, i, d), Distinct(c)
    PROVE  Distinct(d) /\ ~Found(d, m - 1, c[i])
  <1>1. Len(d) = m - 1
    BY Zenon DEF HasGap
  <1>2. \A k \in 1 .. m - 1 : \E l \in 1 .. m : l # i /\ d[k] = c[l]
                                               /\ k = IF l < i THEN l ELSE l - 1
    <2>1. Moved(c, m, i, d)
      BY GapElements
    <2> QED
      BY <2>1, Zenon DEF Moved
  <1>3. \A j, k \in 1 .. m : c[j] = c[k] => j = k
    BY Zenon DEF Distinct
  <1>4. ASSUME NEW k \in 1 .. m - 1, d[k] = c[i] PROVE FALSE
    <2>1. PICK l \in 1 .. m : l # i /\ d[k] = c[l]
      BY <1>2, Zenon
    <2>2. c[l] = c[i]
      BY <1>4, <2>1, Zenon
    <2> QED
      BY <1>3, <2>1, <2>2, Zenon
  <1>5. ASSUME NEW j \in 1 .. m - 1, NEW k \in 1 .. m - 1, d[j] = d[k]
        PROVE  j = k
    <2>1. PICK a \in 1 .. m : a # i /\ d[j] = c[a] /\ j = IF a < i THEN a ELSE a - 1
      BY <1>2, Zenon
    <2>2. PICK b \in 1 .. m : b # i /\ d[k] = c[b] /\ k = IF b < i THEN b ELSE b - 1
      BY <1>2, Zenon
    <2>3. a = b
      BY <1>3, <1>5, <2>1, <2>2, Zenon
    <2> QED
      BY <2>1, <2>2, <2>3, Zenon
  <1>6. Distinct(d)
    BY <1>1, <1>5, Zenon DEF Distinct
  <1> QED
    BY <1>4, <1>6, Zenon DEF Found

\* RemoveFirst of the community modules leaves the gap of the first element e.
LEMMA RemoveFirstIsGap ==
    ASSUME NEW S, NEW s \in Seq(S), NEW e, NEW i \in 1 .. Len(s), s[i] = e,
           \A j \in 1 .. i - 1 : s[j] # e
    PROVE  HasGap(S, s, i, Abstract!RemoveFirst(s, e))
  <1>m. PICK m : m = Len(s)
    OBVIOUS
  <1>1. m \in Nat /\ i \in 1 .. m /\ \A k \in 1 .. m : s[k] \in S
    BY <1>m, LenProperties, ElementOfSeq
  <1>I. PICK I : I = {k \in 1 .. m : s[k] = e}
    OBVIOUS
  <1>2. i \in I /\ \A y \in I : i =< y
    BY <1>1, <1>I
  <1>3. Abstract!Min(I) = i
    <2>1. \A x \in I : (\A y \in I : x =< y) => x = i
      BY <1>1, <1>2, <1>I
    <2> QED
      BY <1>2, <2>1, Zenon DEF Abstract!Min
  <1>4. Abstract!SelectInSeq(s, LAMBDA v : v = e) = i
    BY <1>m, <1>I, <1>2, <1>3 DEF Abstract!SelectInSeq
  <1>5. Abstract!RemoveFirst(s, e) = Abstract!RemoveAt(s, i)
    BY <1>m, <1>1, <1>4 DEF Abstract!RemoveFirst
  <1>a. PICK a : a = SubSeq(s, 1, i - 1)
    OBVIOUS
  <1>b. PICK b : b = SubSeq(s, i + 1, m)
    OBVIOUS
  <1>6. a \in Seq(S) /\ Len(a) = i - 1 /\ \A k \in 1 .. i - 1 : a[k] = s[k]
    <2>1. \A k \in 1 .. i - 1 : s[k] \in S
      BY <1>1
    <2>2. /\ a \in Seq(S) /\ Len(a) = IF 1 <= i - 1 THEN (i - 1) - 1 + 1 ELSE 0
          /\ \A k \in 1 .. (i - 1) - 1 + 1 : a[k] = s[1 + k - 1]
      BY <1>a, <1>1, <2>1, SubSeqProperties
    <2> QED
      BY <1>1, <2>2
  <1>7. b \in Seq(S) /\ Len(b) = m - i /\ \A k \in 1 .. m - i : b[k] = s[i + k]
    <2>1. \A k \in i + 1 .. m : s[k] \in S
      BY <1>1
    <2>2. /\ b \in Seq(S) /\ Len(b) = IF i + 1 <= m THEN m - (i + 1) + 1 ELSE 0
          /\ \A k \in 1 .. m - (i + 1) + 1 : b[k] = s[(i + 1) + k - 1]
      BY <1>b, <1>1, <2>1, SubSeqProperties
    <2> QED
      BY <1>1, <2>2
  <1>d. PICK d : d = a \o b
    OBVIOUS
  <1>8. d = Abstract!RemoveFirst(s, e)
    BY <1>m, <1>5, <1>a, <1>b, <1>d DEF Abstract!RemoveAt
  <1>9. /\ d \in Seq(S) /\ Len(d) = Len(a) + Len(b)
        /\ \A k \in 1 .. Len(a) + Len(b) :
              d[k] = IF k <= Len(a) THEN a[k] ELSE b[k - Len(a)]
    BY <1>d, <1>6, <1>7, ConcatProperties
  <1>10. /\ Len(d) = m - 1
         /\ \A k \in 1 .. m - 1 : d[k] = IF k < i THEN s[k] ELSE s[k + 1]
    <2>1. (i - 1) + (m - i) = m - 1
      BY <1>1
    <2>2. \A k \in 1 .. m - 1 : d[k] = IF k <= i - 1 THEN a[k] ELSE b[k - (i - 1)]
      BY <1>6, <1>7, <1>9, <2>1
    <2>3. ASSUME NEW k \in 1 .. m - 1
          PROVE  /\ k <= i - 1 <=> k < i
                 /\ k < i => k \in 1 .. i - 1
                 /\ ~(k < i) => k - (i - 1) \in 1 .. m - i /\ i + (k - (i - 1)) = k + 1
      BY <1>1
    <2>4. \A k \in 1 .. m - 1 : d[k] = IF k < i THEN s[k] ELSE s[k + 1]
      BY <1>6, <1>7, <2>2, <2>3, Zenon
    <2> QED
      BY <1>6, <1>7, <1>9, <2>1, <2>4
  <1> QED
    BY <1>m, <1>8, <1>9, <1>10, Zenon DEF HasGap
-----------------------------------------------------------------------------
\* removeEntity: the first node of e goes; the one before it gets its next.
LEMMA RemoveStep ==
    ASSUME Shape, NEW ch, Chains(ch), NEW h \in heads, NEW e \in Entities,
           RemoveEntity(e, h)
    PROVE  /\ Shape' /\ heads' = heads
           /\ Abstract!Contains(Content(ch[h]), e)
           /\ \E new : /\ OneList(ch, new, h)
                       /\ Content(new[h])' = Abstract!RemoveFirst(Content(ch[h]), e)
  <1>c. PICK c : c = ch[h]
    OBVIOUS
  <1>m. PICK m : m = Len(c)
    OBVIOUS
  <1>1. /\ c \in Seq(RIDs) /\ m \in Nat \ {0} /\ Distinct(c) /\ c[1] = h
        /\ \A k \in 1 .. m : /\ c[k] \in DOMAIN nodes
                             /\ nodes[c[k]].nextRID = IF k < m THEN c[k + 1] ELSE Null
    <2>1. IsChain(h, c)
      BY <1>c DEF Chains
    <2> QED
      BY <1>m, <2>1, Zenon DEF IsChain
  <1>2. Chain(h) = c
    BY <1>c, ListedOf DEF ListsAreContents
  <1>3. PICK i \in 2 .. m :
           /\ nodes[c[i]].dataRID = e
           /\ \A j \in 2 .. i - 1 : nodes[c[j]].dataRID # e
           /\ nodes' = Without(WithNode(nodes, c[i - 1], [nodes[c[i - 1]] EXCEPT
                                           !.nextRID = nodes[c[i]].nextRID]), {c[i]})
           /\ heads' = heads
    BY <1>2, <1>m, Zenon DEF RemoveEntity
  <1>r. PICK r : r = c[i]
    OBVIOUS
  <1>l. PICK last : last = c[i - 1]
    OBVIOUS
  <1>o. PICK old : old = nodes[last]
    OBVIOUS
  <1>n. PICK next : next = nodes[r].nextRID
    OBVIOUS
  <1>u. PICK upd : upd = [old EXCEPT !.nextRID = next]
    OBVIOUS
  <1>4. /\ m \in Nat \ {0} /\ i \in 1 .. m /\ i # 1 /\ 1 < i
        /\ i - 1 \in 1 .. m /\ i - 1 # i /\ 1 \in 1 .. m /\ (i - 1) + 1 = i
    <2>1. \A n \in Nat \ {0} : \A j \in 2 .. n :
             /\ j \in 1 .. n /\ j # 1 /\ 1 < j
             /\ j - 1 \in 1 .. n /\ j - 1 # j /\ 1 \in 1 .. n /\ (j - 1) + 1 = j
      OBVIOUS
    <2> QED
      BY <1>1, <2>1, Zenon
  <1>others. \A g \in heads : g # h =>
                \A k \in 1 .. Len(ch[g]), l \in 1 .. m : ch[g][k] # c[l]
    <2>1. \A g \in heads : g # h =>
             \A k \in 1 .. Len(ch[g]), l \in 1 .. Len(ch[h]) : ch[g][k] # ch[h][l]
      BY DEF Chains
    <2> QED
      BY <1>c, <1>m, <2>1, Zenon
  <1>5. \A j, k \in 1 .. m : c[j] = c[k] => j = k
    BY <1>1, <1>m, Zenon DEF Distinct
  <1>6. /\ r \in DOMAIN nodes /\ last \in DOMAIN nodes /\ r # last /\ r # h
        /\ next = IF i < m THEN c[i + 1] ELSE Null
        /\ old \in Node /\ nodes[r] \in Node
    <2>1. r \in DOMAIN nodes /\ last \in DOMAIN nodes
      BY <1>r, <1>l, <1>1, <1>4, Zenon
    <2>2. r # last /\ r # h
      BY <1>r, <1>l, <1>1, <1>4, <1>5, Zenon
    <2>3. next = IF i < m THEN c[i + 1] ELSE Null
      BY <1>r, <1>n, <1>1, <1>4, Zenon
    <2> QED
      BY <1>o, <2>1, <2>2, <2>3, Zenon DEF Shape
  <1>7. upd \in Node /\ upd.dataRID = old.dataRID /\ upd.nextRID = next
    BY <1>n, <1>u, <1>6 DEF Node
  <1>8. /\ DOMAIN nodes' = DOMAIN nodes \ {r}
        /\ nodes' = [s \in DOMAIN nodes' |-> nodes'[s]]
        /\ nodes'[last] = upd
        /\ \A s \in DOMAIN nodes : s # r /\ s # last => nodes'[s] = nodes[s]
    <2>1. nodes' = Without(WithNode(nodes, last, upd), {r})
      BY <1>3, <1>r, <1>l, <1>o, <1>n, <1>u, Zenon
    <2>2. nodes' = [s \in DOMAIN nodes \ {r} |-> IF s = last THEN upd ELSE nodes[s]]
      BY <1>6, <2>1 DEF Without, WithNode
    <2> QED
      BY <1>6, <2>2
  <1>9. \A s \in DOMAIN nodes' : nodes'[s].dataRID = nodes[s].dataRID
    BY <1>o, <1>7, <1>8
  <1>10. Shape'
    <2>1. IsFiniteSet(DOMAIN nodes \ {r})
      BY FS_Subset DEF Shape
    <2>2. \A s \in DOMAIN nodes' : nodes'[s] \in Node
      BY <1>7, <1>8 DEF Shape
    <2>3. r \notin heads
      <3>1. CASE r \in heads
        <4>1. IsChain(r, ch[r])
          BY <3>1 DEF Chains
        <4>2. 1 \in 1 .. Len(ch[r]) /\ ch[r][1] = r
          BY <4>1 DEF IsChain
        <4> QED
          BY <1>others, <1>r, <1>4, <1>6, <3>1, <4>2, Zenon
      <3> QED
        BY <3>1
    <2> QED
      BY <1>3, <1>8, <2>1, <2>2, <2>3 DEF Shape
  <1>d. PICK d : d = Gap(c, i)
    OBVIOUS
  <1>11. HasGap(RIDs, c, i, d)
    BY <1>d, <1>1, <1>m, <1>4, GapFacts
  <1>12. Distinct(d) /\ \A k \in 1 .. m - 1 : d[k] # r
    <2>1. Distinct(d) /\ ~Found(d, m - 1, c[i])
      BY <1>1, <1>m, <1>4, <1>11, GapDistinct
    <2> QED
      BY <1>r, <2>1, Zenon DEF Found
  <1>13. /\ d \in Seq(RIDs) /\ Len(d) = m - 1
         /\ \A k \in 1 .. m - 1 : d[k] = IF k < i THEN c[k] ELSE c[k + 1]
    BY <1>m, <1>11, Zenon DEF HasGap
  <1>14. m - 1 \in Nat \ {0} /\ 1 \in 1 .. m - 1
    BY <1>4
  <1>15. d[1] = h
    BY <1>1, <1>4, <1>13, <1>14, Zenon
  <1>16. \A k \in 1 .. m - 1 : \E l \in 1 .. m : d[k] = c[l]
    <2>1. Moved(c, m, i, d)
      BY <1>m, <1>4, <1>11, GapElements
    <2> QED
      BY <2>1, Zenon DEF Moved
  <1>17. \A l \in 1 .. m : l # i => \E k \in 1 .. m - 1 : d[k] = c[l]
    <2>1. \A l \in 1 .. m : l # i => Found(d, m - 1, c[l])
      BY <1>m, <1>4, <1>11, GapElements
    <2> QED
      BY <2>1, Zenon DEF Found
  <1>18. ASSUME NEW k \in 1 .. m - 1
         PROVE  /\ d[k] \in DOMAIN nodes'
                /\ nodes'[d[k]].nextRID = IF k < m - 1 THEN d[k + 1] ELSE Null
    <2>1. d[k] \in DOMAIN nodes'
      BY <1>1, <1>8, <1>12, <1>16
    <2>2. CASE k < i - 1
      <3>1. k \in 1 .. m /\ k # i - 1 /\ k < m /\ k < m - 1 /\ k + 1 \in 1 .. m - 1
            /\ k < i /\ k + 1 < i /\ k # i
        BY <1>4, <2>2
      <3>2. d[k] = c[k] /\ d[k + 1] = c[k + 1]
        BY <1>13, <3>1, Zenon
      <3>3. c[k] \in DOMAIN nodes /\ c[k] # last /\ c[k] # r /\ nodes[c[k]].nextRID = c[k + 1]
        BY <1>1, <1>4, <1>5, <1>l, <1>r, <3>1, Zenon
      <3>4. nodes'[c[k]] = nodes[c[k]]
        BY <1>8, <3>3, Zenon
      <3> QED
        BY <2>1, <3>1, <3>2, <3>3, <3>4, Zenon
    <2>3. CASE k = i - 1
      <3>1. k < i /\ (k < m - 1 <=> i < m) /\ k + 1 = i
            /\ (i < m => i \in 1 .. m - 1 /\ ~(i < i))
        BY <1>4, <2>3
      <3>2. d[k] = last
        BY <1>13, <1>l, <2>3, <3>1, Zenon
      <3>3. i < m => d[i] = c[i + 1]
        BY <1>13, <3>1, Zenon
      <3> QED
        BY <1>6, <1>7, <1>8, <2>1, <3>1, <3>2, <3>3, Zenon
    <2>4. CASE k > i - 1
      <3>1. /\ ~(k < i) /\ k + 1 \in 1 .. m /\ k + 1 # i /\ k + 1 # i - 1
            /\ (k < m - 1 <=> k + 1 < m)
            /\ (k < m - 1 => k + 1 \in 1 .. m - 1 /\ ~(k + 1 < i))
        BY <1>4, <2>4
      <3>2. d[k] = c[k + 1] /\ (k < m - 1 => d[k + 1] = c[(k + 1) + 1])
        BY <1>13, <3>1, Zenon
      <3>3. /\ c[k + 1] \in DOMAIN nodes /\ c[k + 1] # last /\ c[k + 1] # r
            /\ nodes[c[k + 1]].nextRID = IF k + 1 < m THEN c[(k + 1) + 1] ELSE Null
        BY <1>1, <1>4, <1>5, <1>l, <1>r, <3>1, Zenon
      <3>4. nodes'[c[k + 1]] = nodes[c[k + 1]]
        BY <1>8, <3>3, Zenon
      <3> QED
        BY <2>1, <3>1, <3>2, <3>3, <3>4, Zenon
    <2>5. k < i - 1 \/ k = i - 1 \/ k > i - 1
      BY <1>4
    <2> QED
      BY <2>2, <2>3, <2>4, <2>5
  <1>19. IsChain(h, d)'
    BY <1>12, <1>13, <1>14, <1>15, <1>18, Zenon DEF IsChain
  <1>w. PICK new : new = [ch EXCEPT ![h] = d]
    OBVIOUS
  <1>20. /\ DOMAIN new = heads /\ new[h] = d
         /\ \A g \in heads : g # h => new[g] = ch[g]
    BY <1>w DEF Chains
  <1>21. OneList(ch, new, h)
    <2>1. ASSUME NEW g \in heads, g # h, NEW k \in 1 .. Len(ch[g])
          PROVE  ch[g][k] \in DOMAIN nodes' /\ nodes'[ch[g][k]] = nodes[ch[g][k]]
      <3>1. ch[g][k] \in DOMAIN nodes
        BY DEF Chains, IsChain
      <3>2. \A l \in 1 .. m : ch[g][k] # c[l]
        BY <1>others, <2>1, Zenon
      <3>3. ch[g][k] # last /\ ch[g][k] # r
        BY <1>l, <1>r, <1>4, <3>2, Zenon
      <3> QED
        BY <1>8, <3>1, <3>3
    <2>2. \A k \in 1 .. Len(d) : \E l \in 1 .. Len(c) : c[l] = d[k]
      BY <1>m, <1>13, <1>16, Zenon
    <2>3. ASSUME NEW s \in DOMAIN nodes'
          PROVE  \/ s \in DOMAIN nodes /\ ~ \E l \in 1 .. Len(c) : c[l] = s
                 \/ \E k \in 1 .. Len(d) : d[k] = s
      <3>1. s \in DOMAIN nodes /\ s # r
        BY <1>8
      <3>2. ASSUME NEW l \in 1 .. m, c[l] = s PROVE \E k \in 1 .. Len(d) : d[k] = s
        <4>1. l # i
          BY <1>r, <3>1, <3>2
        <4> QED
          BY <1>13, <1>17, <3>2, <4>1, Zenon
      <3> QED
        BY <1>m, <3>1, <3>2, Zenon
    <2> QED
      <3>1. IsChain(h, new[h])'
        BY <1>19, <1>20
      <3>2. \A k \in 1 .. Len(new[h]) : \E l \in 1 .. Len(ch[h]) : ch[h][l] = new[h][k]
        BY <1>c, <1>20, <2>2, Zenon
      <3>3. \A s \in DOMAIN nodes' :
               \/ s \in DOMAIN nodes /\ ~ \E l \in 1 .. Len(ch[h]) : ch[h][l] = s
               \/ \E k \in 1 .. Len(new[h]) : new[h][k] = s
        BY <1>c, <1>20, <2>3, Zenon
      <3>4. DOMAIN new = heads /\ \A g \in heads : g # h => new[g] = ch[g]
        BY <1>20
      <3> QED
        BY <1>3, <2>1, <3>1, <3>2, <3>3, <3>4, Zenon DEF OneList
  <1>s. PICK s : s = Content(c)
    OBVIOUS
  <1>t. PICK t : t = Content(d)'
    OBVIOUS
  <1>22. \E S : /\ s \in Seq(S) /\ Len(s) = m - 1
                /\ \A k \in 1 .. m - 1 : s[k] = nodes[c[k + 1]].dataRID
    BY <1>m, <1>4, <1>s, ContentFacts, Zenon
  <1>23. \E T : /\ t \in Seq(T) /\ Len(t) = (m - 1) - 1
                /\ \A k \in 1 .. (m - 1) - 1 : t[k] = nodes'[d[k + 1]].dataRID
    BY <1>13, <1>14, <1>t, ContentFactsNext, Zenon
  <1>24. \A k \in 1 .. (m - 1) - 1 : t[k] = IF k < i - 1 THEN s[k] ELSE s[k + 1]
    <2> SUFFICES ASSUME NEW k \in 1 .. (m - 1) - 1
                 PROVE  t[k] = IF k < i - 1 THEN s[k] ELSE s[k + 1]
      OBVIOUS
    <2>1. /\ k \in 1 .. m - 1 /\ k + 1 \in 1 .. m - 1
          /\ (k + 1 < i <=> k < i - 1)
      BY <1>4
    <2>2. /\ t[k] = nodes'[d[k + 1]].dataRID
          /\ s[k] = nodes[c[k + 1]].dataRID
          /\ s[k + 1] = nodes[c[(k + 1) + 1]].dataRID
      BY <1>22, <1>23, <2>1, Zenon
    <2>3. d[k + 1] = IF k < i - 1 THEN c[k + 1] ELSE c[(k + 1) + 1]
      BY <1>13, <2>1, Zenon
    <2>4. nodes'[d[k + 1]].dataRID = nodes[d[k + 1]].dataRID
      BY <1>9, <1>18, <2>1, Zenon
    <2> QED
      BY <2>2, <2>3, <2>4, Zenon
  <1>25. /\ i - 1 \in 1 .. m - 1 /\ s[i - 1] = e
         /\ \A j \in 1 .. (i - 1) - 1 : s[j] # e
    <2>1. i - 1 \in 1 .. m - 1
      BY <1>4
    <2>2. s[i - 1] = e
      BY <1>3, <1>4, <1>22, <2>1, Zenon
    <2>3. ASSUME NEW j \in 1 .. (i - 1) - 1 PROVE s[j] # e
      <3>1. j \in 1 .. m - 1 /\ j + 1 \in 2 .. i - 1
        BY <1>4
      <3> QED
        BY <1>3, <1>22, <3>1, Zenon
    <2> QED
      BY <2>1, <2>2, <2>3
  <1>26. t = Abstract!RemoveFirst(s, e)
    <2>1. PICK T : t \in Seq(T)
      BY <1>23
    <2>2. HasGap(T, s, i - 1, t)
      BY <1>22, <1>23, <1>24, <2>1, Zenon DEF HasGap
    <2>3. PICK S : s \in Seq(S)
      BY <1>22
    <2>4. Len(s) = m - 1
      BY <1>22
    <2>5. HasGap(S, s, i - 1, Abstract!RemoveFirst(s, e))
      BY <1>25, <2>3, <2>4, RemoveFirstIsGap
    <2> QED
      BY <1>14, <2>2, <2>4, <2>5, GapIsUnique
  <1>27. Abstract!Contains(s, e)
    BY <1>22, <1>25 DEF Abstract!Contains
  <1> QED
    BY <1>c, <1>s, <1>t, <1>3, <1>10, <1>20, <1>21, <1>26, <1>27, Zenon
-----------------------------------------------------------------------------
(* The invariant, and what the callers see of a step.                         *)
Lists == [h \in heads |-> Listed(h)]

\* Only the list of h comes, goes or changes.
Seen(h) ==
    /\ Lists = [g \in heads |-> Lists[g]] /\ Lists' = [g \in heads' |-> Lists'[g]]
    /\ \A g \in heads' : g # h => g \in heads /\ Lists'[g] = Lists[g]

SeenAs(ch, new, h) ==
    /\ Seen(h)
    /\ h \in heads => Lists[h] = Content(ch[h])
    /\ h \in heads' => Lists'[h] = Content(new[h])'

LEMMA SeenOf ==
    ASSUME Shape, Shape', NEW ch, Chains(ch), NEW new, NEW h, OneList(ch, new, h)
    PROVE  IInv' /\ SeenAs(ch, new, h)
  <1>1. Chains(new)' /\ \A g \in heads : g # h => Content(ch[g])' = Content(ch[g])
    BY OthersKept
  <1>2. IInv'
    BY <1>1 DEF IInv
  <1>3. \A g \in heads : Listed(g) = Content(ch[g])
    BY ListedOf, Zenon DEF ListsAreContents
  <1>4. ListsAreContents'
    BY ListedOf, PTL
  <1>5. \A g \in heads' : Listed(g)' = Content(new[g])'
    BY <1>1, <1>4 DEF ListsAreContents
  <1>6. \A g \in heads : Lists[g] = Content(ch[g])
    BY <1>3 DEF Lists
  <1>7. \A g \in heads' : Lists'[g] = Content(new[g])'
    BY <1>5 DEF Lists
  <1>8. \A g \in heads' : g # h => g \in heads /\ new[g] = ch[g]
    BY DEF OneList
  <1>9. ASSUME NEW g \in heads', g # h PROVE g \in heads /\ Lists'[g] = Lists[g]
    <2>1. g \in heads /\ new[g] = ch[g]
      BY <1>8, <1>9
    <2>2. Content(ch[g])' = Content(ch[g])
      BY <1>1, <1>9, <2>1
    <2>3. Content(new[g])' = Content(ch[g])'
      BY <2>1
    <2> QED
      BY <1>6, <1>7, <2>1, <2>2, <2>3
  <1>10. Lists = [g \in heads |-> Lists[g]] /\ Lists' = [g \in heads' |-> Lists'[g]]
    BY DEF Lists
  <1> QED
    BY <1>2, <1>6, <1>7, <1>9, <1>10 DEF Seen, SeenAs

LEMMA InitIInv == Init => IInv
  <1> SUFFICES ASSUME Init PROVE IInv
    OBVIOUS
  <1>1. heads = {} /\ nodes = [r \in {} |-> r] /\ DOMAIN nodes = {}
    BY DEF Init
  <1>2. Shape
    BY <1>1, FS_EmptySet DEF Shape
  <1> PICK ch : ch = [h \in {} |-> <<>>]
    OBVIOUS
  <1>3. Chains(ch)
    BY <1>1 DEF Chains
  <1> QED
    BY <1>2, <1>3 DEF IInv

LEMMA CreateMaps ==
    ASSUME IInv, CreateList
    PROVE  IInv' /\ \E r \in RIDs : Abstract!Create(r)
  <1>1. PICK ch : Shape /\ Chains(ch)
    BY DEF IInv
  <1>2. PICK r \in RIDs : \E new : /\ Shape' /\ heads' = heads \cup {r} /\ r \notin heads
                                   /\ OneList(ch, new, r)
                                   /\ Len(new[r]) = 1
    BY <1>1, CreateStep, Zenon
  <1>3. PICK new : /\ Shape' /\ heads' = heads \cup {r} /\ r \notin heads
                   /\ OneList(ch, new, r)
                   /\ Len(new[r]) = 1
    BY <1>2
  <1>4. IInv' /\ Seen(r) /\ (r \in heads' => Lists'[r] = Content(new[r])')
    <2>1. IInv' /\ SeenAs(ch, new, r)
      BY <1>1, <1>3, SeenOf
    <2> QED
      BY <2>1, Zenon DEF SeenAs
  <1>5. Content(new[r])' = <<>>
    <2> PICK c : c = new[r]
      OBVIOUS
    <2>1. Content(c)' = [i \in 1 .. 0 |-> nodes'[c[i + 1]].dataRID]
      BY <1>3 DEF Content
    <2>2. Content(c)' = <<>>
      BY <2>1
    <2> QED
      BY <2>2
  <1>6. Lists' = [g \in heads \cup {r} |-> IF g = r THEN <<>> ELSE Lists[g]]
    BY <1>3, <1>4, <1>5 DEF Seen
  <1>7. Abstract!Create(r)
    BY <1>3, <1>6 DEF Abstract!Create, Lists
  <1> QED
    BY <1>4, <1>7

LEMMA DeleteMaps ==
    ASSUME IInv, NEW h \in heads, DeleteList(h)
    PROVE  IInv' /\ Abstract!Delete(h)
  <1>1. PICK ch : Shape /\ Chains(ch)
    BY DEF IInv
  <1>2. Shape' /\ heads' = heads \ {h} /\ \E new : OneList(ch, new, h)
    BY <1>1, DeleteStep, Zenon
  <1>3. IInv' /\ Seen(h)
    BY <1>1, <1>2, SeenOf, Zenon DEF SeenAs
  <1>4. Lists' = [g \in heads \ {h} |-> Lists[g]]
    BY <1>2, <1>3 DEF Seen
  <1>5. DOMAIN Lists = heads
    BY DEF Lists
  <1>6. Lists' = Abstract!Restrict(Lists, DOMAIN Lists \ {h})
    BY <1>4, <1>5 DEF Abstract!Restrict
  <1> QED
    BY <1>3, <1>6 DEF Abstract!Delete, Lists

LEMMA InsertMaps ==
    ASSUME IInv, NEW h \in heads, NEW e \in Entities, InsertEntity(e, h)
    PROVE  IInv' /\ Abstract!Insert(e, h)
  <1>1. PICK ch : Shape /\ Chains(ch)
    BY DEF IInv
  <1>2. /\ Shape' /\ heads' = heads
        /\ \E new : /\ OneList(ch, new, h)
                    /\ Content(new[h])' = <<e>> \o Content(ch[h])
    BY <1>1, InsertStep, Zenon
  <1>3. PICK new : /\ OneList(ch, new, h)
                   /\ Content(new[h])' = <<e>> \o Content(ch[h])
    BY <1>2
  <1>4. IInv' /\ Seen(h) /\ Lists[h] = Content(ch[h]) /\ Lists'[h] = Content(new[h])'
    <2>1. IInv' /\ SeenAs(ch, new, h)
      BY <1>1, <1>2, <1>3, SeenOf
    <2> QED
      BY <1>2, <2>1, Zenon DEF SeenAs
  <1>5. Lists' = [Lists EXCEPT ![h] = <<e>> \o Lists[h]]
    BY <1>2, <1>3, <1>4 DEF Seen
  <1> QED
    BY <1>4, <1>5 DEF Abstract!Insert, Lists

LEMMA RemoveMaps ==
    ASSUME IInv, NEW h \in heads, NEW e \in Entities, RemoveEntity(e, h)
    PROVE  IInv' /\ Abstract!RemoveNewest(e, h)
  <1>1. PICK ch : Shape /\ Chains(ch)
    BY DEF IInv
  <1>2. /\ Shape' /\ heads' = heads
        /\ Abstract!Contains(Content(ch[h]), e)
        /\ \E new : /\ OneList(ch, new, h)
                    /\ Content(new[h])' = Abstract!RemoveFirst(Content(ch[h]), e)
    BY <1>1, RemoveStep, Zenon
  <1>3. PICK new : /\ OneList(ch, new, h)
                   /\ Content(new[h])' = Abstract!RemoveFirst(Content(ch[h]), e)
    BY <1>2
  <1>4. IInv' /\ Seen(h) /\ Lists[h] = Content(ch[h]) /\ Lists'[h] = Content(new[h])'
    <2>1. IInv' /\ SeenAs(ch, new, h)
      BY <1>1, <1>2, <1>3, SeenOf
    <2> QED
      BY <1>2, <2>1, Zenon DEF SeenAs
  <1>5. Lists' = [Lists EXCEPT ![h] = Abstract!RemoveFirst(Lists[h], e)]
    BY <1>2, <1>3, <1>4 DEF Seen
  <1>6. Abstract!Contains(Lists[h], e)
    BY <1>2, <1>4
  <1> QED
    BY <1>4, <1>5, <1>6 DEF Abstract!RemoveNewest, Lists

LEMMA StepMaps ==
    ASSUME IInv, [Next]_vars
    PROVE  IInv' /\ [Abstract!Next]_Lists
  <1>1. CASE CreateList
    BY <1>1, CreateMaps DEF Abstract!Next
  <1>2. ASSUME NEW h \in heads,
               \/ DeleteList(h)
               \/ \E e \in Entities : InsertEntity(e, h) \/ RemoveEntity(e, h)
        PROVE  IInv' /\ Abstract!Next
    <2>1. DOMAIN Lists = heads
      BY DEF Lists
    <2> QED
      BY <1>2, <2>1, DeleteMaps, InsertMaps, RemoveMaps DEF Abstract!Next, Lists
  <1>3. CASE UNCHANGED vars
    <2>1. IInv' = IInv
      BY <1>3 DEF vars, IInv, Shape, Chains, IsChain
    <2>2. Lists' = Lists
      BY <1>3 DEF vars, Lists, Listed, Chain
    <2> QED
      BY <2>1, <2>2
  <1> QED
    BY <1>1, <1>2, <1>3 DEF Next
-----------------------------------------------------------------------------
(* The theorems.                                                              *)

\* The nodes are the lists of the heads in every reachable state.
THEOREM Invariance == Spec => []IInv
  <1>1. IInv /\ [Next]_vars => IInv'
    BY StepMaps
  <1> QED
    BY <1>1, InitIInv, PTL DEF Spec

\* Nodes and heads have their types in every reachable state.
THEOREM TypeCorrect == Spec => []TypeOK
  <1>1. IInv => TypeOK
    BY DEF IInv, Shape, TypeOK
  <1> QED
    BY <1>1, Invariance, PTL

\* No node leaks, is in two lists or in a circle, and isEmpty and containsEntity
\* answer for what is listed, in every reachable state.
THEOREM ListsAlwaysSound == Spec => []ListsSound
  <1>1. IInv => ListsSound
    BY PartitionFromIInv, QueriesFromIInv DEF ListsSound
  <1> QED
    BY <1>1, Invariance, PTL

\* createList, deleteList, insertEntity and removeEntity do to the list of their
\* head what EntityLists does to a sequence, and nothing to another list.
THEOREM Implements == Spec => ImplementsEntityLists
  <1>1. Init => Abstract!Init
    BY DEF Init, Abstract!Init
  <1>2. IInv /\ [Next]_vars => [Abstract!Next]_Lists
    BY StepMaps
  <1>3. Lists = [h \in heads |-> Listed(h)]
    BY DEF Lists
  <1> QED
    BY <1>1, <1>2, Invariance, PTL DEF Spec, ImplementsEntityLists, Abstract!Spec, Lists
=============================================================================

------------------------- MODULE QueryManager_proofs -------------------------
(* A legal SELECT is answered, and with the rows it means: what each of the   *)
(* ways through QueryManager leaves in its result, part by part, against the  *)
(* product of the tables restricted by the conditions.                        *)
EXTENDS QueryManager, NumberFacts, FiniteSetTheorems, FunctionTheorems, SequenceTheorems
-----------------------------------------------------------------------------
(* Sequences.                                                                 *)
IsSeq(s) == s \in Seq(Range(s))

LEMMA SeqFacts ==
    ASSUME NEW s, IsSeq(s)
    PROVE  Len(s) \in Nat /\ DOMAIN s = 1 .. Len(s) /\ s = [i \in 1 .. Len(s) |-> s[i]]
  BY LenProperties DEF IsSeq

LEMMA MakeSeq ==
    ASSUME NEW n \in Nat, NEW s, DOMAIN s = 1 .. n, s = [i \in 1 .. n |-> s[i]]
    PROVE  IsSeq(s) /\ Len(s) = n
  <1>1. s \in [1 .. n -> Range(s)]
    BY DEF Range
  <1>2. s \in Seq(Range(s))
    BY <1>1, SeqDef
  <1> QED
    BY <1>1, <1>2, LenProperties DEF IsSeq

\* Positions in an order: each has one place, and each place is taken.
LEMMA Places ==
    ASSUME NEW I, IsFiniteSet(I), NEW R,
           \A i \in I : <<i, i>> \notin R,
           \A i, j \in I : i # j => <<i, j>> \in R \/ <<j, i>> \in R,
           \A i, j, k \in I : <<i, j>> \in R /\ <<j, k>> \in R => <<i, k>> \in R
    PROVE  /\ Cardinality(I) \in Nat
           /\ \A k \in 1 .. Cardinality(I) :
                 \E i \in I : Cardinality({j \in I : <<j, i>> \in R}) = k - 1
           /\ \A i \in I : Cardinality({j \in I : <<j, i>> \in R}) + 1 \in 1 .. Cardinality(I)
           /\ \A i, h \in I : Cardinality({j \in I : <<j, i>> \in R})
                                = Cardinality({j \in I : <<j, h>> \in R}) => i = h
  <1> DEFINE n == Cardinality(I)
             Below(i) == {j \in I : <<j, i>> \in R}
             place == [i \in I |-> Cardinality(Below(i)) + 1]
  <1>1. n \in Nat
    BY FS_CardinalityType
  <1>2. \A i \in I : Below(i) \in SUBSET (I \ {i})
    OBVIOUS
  <1>3. \A i \in I : IsFiniteSet(Below(i)) /\ Cardinality(Below(i)) \in 0 .. n - 1
    <2> TAKE i \in I
    <2>1. IsFiniteSet(I \ {i}) /\ Cardinality(I \ {i}) = n - 1
      BY FS_RemoveElement
    <2>2. IsFiniteSet(Below(i)) /\ Cardinality(Below(i)) <= n - 1
      <3> HIDE DEF Below, n
      <3> QED
        BY <2>1, <1>2, FS_Subset
    <2> QED
      BY <2>2, <1>1, FS_CardinalityType
  <1>4. \A i, h \in I : <<i, h>> \in R => Cardinality(Below(i)) < Cardinality(Below(h))
    <2> SUFFICES ASSUME NEW i \in I, NEW h \in I, <<i, h>> \in R
                 PROVE  Cardinality(Below(i)) < Cardinality(Below(h))
      OBVIOUS
    <2>1. Below(i) \in SUBSET Below(h) /\ i \in Below(h) /\ i \notin Below(i)
      OBVIOUS
    <2> HIDE DEF Below
    <2>2. Cardinality(Below(i)) <= Cardinality(Below(h))
          /\ Cardinality(Below(i)) # Cardinality(Below(h))
      BY <2>1, <1>3, FS_Subset
    <2> QED
      BY <2>2, <1>3
  <1>5. \A i, h \in I : Cardinality(Below(i)) = Cardinality(Below(h)) => i = h
    <2> SUFFICES ASSUME NEW i \in I, NEW h \in I, i # h
                 PROVE  Cardinality(Below(i)) # Cardinality(Below(h))
      OBVIOUS
    <2>1. <<i, h>> \in R \/ <<h, i>> \in R
      OBVIOUS
    <2> HIDE DEF Below
    <2> QED
      BY <2>1, <1>3, <1>4
  <1>6. place \in [I -> 1 .. n]
    <2> HIDE DEF Below
    <2> QED
      BY <1>1, <1>3
  <1>7. place \in Injection(I, 1 .. n)
    <2> HIDE DEF Below
    <2>1. \A i, h \in I : place[i] = place[h] => i = h
      BY <1>1, <1>3, <1>5
    <2> QED
      BY <2>1, <1>6 DEF Injection, IsInjective
  <1>8. IsFiniteSet(1 .. n) /\ Cardinality(1 .. n) = n
    BY <1>1, FS_Interval
  <1>9. place \in Surjection(I, 1 .. n)
    <2> HIDE DEF place
    <2> QED
      BY <1>7, <1>8, FS_Injection
  <1>10. \A k \in 1 .. n : \E i \in I : place[i] = k
    BY <1>9 DEF Surjection
  <1>11. \A k \in 1 .. n : \E i \in I : Cardinality(Below(i)) = k - 1
    <2> HIDE DEF Below
    <2> TAKE k \in 1 .. n
    <2> PICK i \in I : place[i] = k
      BY <1>10
    <2> QED
      BY <1>1, <1>3
  <1>12. \A i \in I : Cardinality(Below(i)) + 1 \in 1 .. n
    <2> HIDE DEF Below
    <2> QED
      BY <1>1, <1>3
  <1> QED
    BY <1>1, <1>5, <1>11, <1>12

\* What Chosen takes, in whichever order: each of the positions once.
LEMMA ChosenFacts ==
    ASSUME NEW s, IsSeq(s), NEW I \in SUBSET DOMAIN s
    PROVE  \E p \in [1 .. Cardinality(I) -> I] :
              /\ Cardinality(I) \in Nat
              /\ \A k, l \in 1 .. Cardinality(I) : p[k] = p[l] => k = l
              /\ \A i \in I : \E k \in 1 .. Cardinality(I) : p[k] = i
              /\ Chosen(s, I) = [k \in 1 .. Cardinality(I) |-> s[p[k]]]
              /\ IsSeq(Chosen(s, I)) /\ Len(Chosen(s, I)) = Cardinality(I)
  <1> DEFINE n == Cardinality(I)
             Below(i) == {j \in I : j < i}
             p == [k \in 1 .. n |-> CHOOSE i \in I : Cardinality(Below(i)) = k - 1]
             R == {x \in I \X I : x[1] < x[2]}
  <1>1. I \in SUBSET (1 .. Len(s)) /\ Len(s) \in Nat
    BY SeqFacts
  <1>2. IsFiniteSet(I)
    BY <1>1, FS_Interval, FS_Subset
  <1>3. \A i, j \in I : i \in Nat /\ (<<i, j>> \in R <=> i < j)
    BY <1>1
  <1>4. \A i \in I : Below(i) = {j \in I : <<j, i>> \in R}
    BY <1>3
  <1>5. /\ \A i \in I : <<i, i>> \notin R
        /\ \A i, j \in I : i # j => <<i, j>> \in R \/ <<j, i>> \in R
        /\ \A i, j, k \in I : <<i, j>> \in R /\ <<j, k>> \in R => <<i, k>> \in R
    <2> HIDE DEF R
    <2>1. \A i \in I : <<i, i>> \notin R
      BY <1>3
    <2>2. \A i, j \in I : i # j => <<i, j>> \in R \/ <<j, i>> \in R
      BY <1>3
    <2>3. ASSUME NEW i \in I, NEW j \in I, NEW k \in I, <<i, j>> \in R, <<j, k>> \in R
          PROVE  <<i, k>> \in R
      <3>1. i < j /\ j < k /\ i \in Nat /\ j \in Nat /\ k \in Nat
        BY <2>3, <1>3
      <3> QED
        BY <3>1, <1>3
    <2> QED
      BY <2>1, <2>2, <2>3
  <1>6. /\ n \in Nat
        /\ \A k \in 1 .. n : \E i \in I : Cardinality({j \in I : <<j, i>> \in R}) = k - 1
        /\ \A i \in I : Cardinality({j \in I : <<j, i>> \in R}) + 1 \in 1 .. n
        /\ \A i, h \in I : Cardinality({j \in I : <<j, i>> \in R})
                             = Cardinality({j \in I : <<j, h>> \in R}) => i = h
    <2> HIDE DEF R
    <2> QED
      BY <1>2, <1>5, Places
  <1>7. /\ \A k \in 1 .. n : \E i \in I : Cardinality(Below(i)) = k - 1
        /\ \A i \in I : Cardinality(Below(i)) + 1 \in 1 .. n
        /\ \A i, h \in I : Cardinality(Below(i)) = Cardinality(Below(h)) => i = h
    <2> HIDE DEF Below, R
    <2> QED
      BY <1>4, <1>6
  <1> HIDE DEF Below, R
  <1>8. \A k \in 1 .. n : p[k] \in I /\ Cardinality(Below(p[k])) = k - 1
    BY <1>7
  <1>9. p \in [1 .. n -> I]
    BY <1>8
  <1>10. \A k, l \in 1 .. n : p[k] = p[l] => k = l
    <2> TAKE k, l \in 1 .. n
    <2> HAVE p[k] = p[l]
    <2>1. k - 1 = l - 1
      BY <1>8
    <2> QED
      BY <2>1
  <1>11. \A i \in I : \E k \in 1 .. n : p[k] = i
    <2> TAKE i \in I
    <2> DEFINE k == Cardinality(Below(i)) + 1
    <2>1. k \in 1 .. n
      BY <1>7
    <2>2. Cardinality(Below(i)) = k - 1
      BY <1>2, FS_Subset, FS_CardinalityType DEF Below
    <2>3. p[k] = i
      BY <2>1, <2>2, <1>7, <1>8
    <2> QED
      BY <2>1, <2>3
  <1>12. Chosen(s, I) = [k \in 1 .. n |-> s[p[k]]]
    BY DEF Chosen, Below
  <1>13. IsSeq(Chosen(s, I)) /\ Len(Chosen(s, I)) = n
    <2> HIDE DEF p
    <2> QED
      BY <1>6, <1>12, MakeSeq
  <1> HIDE DEF p
  <1> QED
    BY <1>6, <1>9, <1>10, <1>11, <1>12, <1>13
-----------------------------------------------------------------------------
(* A sequence that shows each element of a set once, by its value.            *)
Shows(s, S, val) ==
    \E b \in [DOMAIN s -> S] :
        /\ \A i, j \in DOMAIN s : b[i] = b[j] => i = j
        /\ \A x \in S : \E i \in DOMAIN s : b[i] = x
        /\ \A i \in DOMAIN s : s[i] = val[b[i]]

\* A sequence shows its own positions.
LEMMA ShowsItself ==
    ASSUME NEW s
    PROVE  Shows(s, DOMAIN s, s)
  <1> DEFINE b == [i \in DOMAIN s |-> i]
  <1>1. b \in [DOMAIN s -> DOMAIN s]
    OBVIOUS
  <1> QED
    BY <1>1 DEF Shows

\* The same elements under other names and with other values.
Renames(c, s, S, val, t, T, new) ==
    /\ c \in [S -> T] /\ DOMAIN t = DOMAIN s
    /\ \A x, y \in S : c[x] = c[y] => x = y
    /\ \A y \in T : \E x \in S : c[x] = y
    /\ \A i \in DOMAIN s, x \in S : s[i] = val[x] => t[i] = new[c[x]]

LEMMA ShowsRenamed ==
    ASSUME NEW s, NEW S, NEW val, Shows(s, S, val),
           NEW t, NEW T, NEW new, NEW c, Renames(c, s, S, val, t, T, new)
    PROVE  Shows(t, T, new)
  <1>1. PICK b \in [DOMAIN s -> S] :
            /\ \A i, j \in DOMAIN s : b[i] = b[j] => i = j
            /\ \A x \in S : \E i \in DOMAIN s : b[i] = x
            /\ \A i \in DOMAIN s : s[i] = val[b[i]]
    BY DEF Shows
  <1> DEFINE d == [i \in DOMAIN t |-> c[b[i]]]
  <1>0. /\ c \in [S -> T] /\ DOMAIN t = DOMAIN s
        /\ \A x, y \in S : c[x] = c[y] => x = y
        /\ \A y \in T : \E x \in S : c[x] = y
        /\ \A i \in DOMAIN s, x \in S : s[i] = val[x] => t[i] = new[c[x]]
    BY DEF Renames
  <1>2. d \in [DOMAIN t -> T]
    BY <1>0
  <1>3. \A i, j \in DOMAIN t : d[i] = d[j] => i = j
    BY <1>0, <1>1
  <1>4. \A y \in T : \E i \in DOMAIN t : d[i] = y
    <2> TAKE y \in T
    <2> PICK x \in S : c[x] = y
      BY <1>0
    <2> PICK i \in DOMAIN s : b[i] = x
      BY <1>1
    <2> QED
      BY <1>0
  <1>5. \A i \in DOMAIN t : t[i] = new[d[i]]
    BY <1>0, <1>1
  <1> HIDE DEF d
  <1> QED
    BY <1>2, <1>3, <1>4, <1>5 DEF Shows

\* The elements with a value in P.
LEMMA ShowsChosen ==
    ASSUME NEW s, IsSeq(s), NEW S, NEW val, Shows(s, S, val), NEW T \in SUBSET S,
           NEW I \in SUBSET DOMAIN s,
           \A i \in DOMAIN s, x \in S : s[i] = val[x] => (i \in I <=> x \in T)
    PROVE  IsSeq(Chosen(s, I)) /\ Shows(Chosen(s, I), T, val)
  <1>1. PICK b \in [DOMAIN s -> S] :
            /\ \A i, j \in DOMAIN s : b[i] = b[j] => i = j
            /\ \A x \in S : \E i \in DOMAIN s : b[i] = x
            /\ \A i \in DOMAIN s : s[i] = val[b[i]]
    BY DEF Shows
  <1> DEFINE n == Cardinality(I)
  <1>2. PICK p \in [1 .. n -> I] :
            /\ n \in Nat
            /\ \A k, l \in 1 .. n : p[k] = p[l] => k = l
            /\ \A i \in I : \E k \in 1 .. n : p[k] = i
            /\ Chosen(s, I) = [k \in 1 .. n |-> s[p[k]]]
            /\ IsSeq(Chosen(s, I)) /\ Len(Chosen(s, I)) = n
    BY ChosenFacts
  <1> HIDE DEF n
  <1> DEFINE d == [k \in 1 .. n |-> b[p[k]]]
             t == Chosen(s, I)
  <1>3. DOMAIN t = 1 .. n /\ \A k \in 1 .. n : t[k] = s[p[k]]
    BY <1>2
  <1> HIDE DEF t
  <1>4. \A k \in 1 .. n : p[k] \in I /\ p[k] \in DOMAIN s
    BY <1>2
  <1>5. \A i \in DOMAIN s : i \in I <=> b[i] \in T
    BY <1>1
  <1>6. d \in [DOMAIN t -> T]
    BY <1>3, <1>4, <1>5
  <1>7. \A k, l \in DOMAIN t : d[k] = d[l] => k = l
    BY <1>1, <1>2, <1>3, <1>4
  <1>8. \A x \in T : \E k \in DOMAIN t : d[k] = x
    <2> TAKE x \in T
    <2> PICK i \in DOMAIN s : b[i] = x
      BY <1>1
    <2> PICK k \in 1 .. n : p[k] = i
      BY <1>2, <1>5
    <2> QED
      BY <1>3
  <1>9. \A k \in DOMAIN t : t[k] = val[d[k]]
    BY <1>1, <1>3, <1>4
  <1> HIDE DEF d
  <1>10. Shows(t, T, val)
    BY <1>6, <1>7, <1>8, <1>9 DEF Shows
  <1> QED
    BY <1>2, <1>10 DEF t

\* Where a value stands, and what has it.
Standing(s, v)   == {i \in DOMAIN s : s[i] = v}
Having(S, val, v) == {x \in S : val[x] = v}

\* Each element shown once: as many positions as elements, for every value.
LEMMA ShowsCount ==
    ASSUME NEW s, IsSeq(s), NEW S, NEW val, Shows(s, S, val)
    PROVE  /\ IsFiniteSet(S) /\ Cardinality(S) = Len(s)
           /\ \A v : Cardinality(Standing(s, v)) = Cardinality(Having(S, val, v))
  <1>1. PICK b \in [DOMAIN s -> S] :
            /\ \A i, j \in DOMAIN s : b[i] = b[j] => i = j
            /\ \A x \in S : \E i \in DOMAIN s : b[i] = x
            /\ \A i \in DOMAIN s : s[i] = val[b[i]]
    BY DEF Shows
  <1>2. Len(s) \in Nat /\ DOMAIN s = 1 .. Len(s)
    BY SeqFacts
  <1>3. IsFiniteSet(DOMAIN s) /\ Cardinality(DOMAIN s) = Len(s)
    <2>1. /\ IsFiniteSet(1 .. Len(s))
          /\ Cardinality(1 .. Len(s)) = IF 1 > Len(s) THEN 0 ELSE Len(s) - 1 + 1
      BY <1>2, FS_Interval
    <2> QED
      BY <1>2, <2>1
  <1>4. b \in Bijection(DOMAIN s, S)
    BY <1>1 DEF Bijection, Injection, Surjection, IsInjective
  <1>5. IsFiniteSet(S) /\ Cardinality(S) = Len(s)
    BY <1>3, <1>4, FS_Bijection DEF ExistsBijection
  <1>6. ASSUME NEW v
        PROVE  Cardinality(Standing(s, v)) = Cardinality(Having(S, val, v))
    <2> DEFINE A == {i \in DOMAIN s : s[i] = v}
               B == {x \in S : val[x] = v}
               d == [i \in A |-> b[i]]
    <2>1. IsFiniteSet(A)
      BY <1>3, FS_Subset
    <2>2. d \in [A -> B]
      BY <1>1
    <2>3. \A i, j \in A : d[i] = d[j] => i = j
      BY <1>1
    <2>4. \A x \in B : \E i \in A : d[i] = x
      <3> TAKE x \in B
      <3> PICK i \in DOMAIN s : b[i] = x
        BY <1>1
      <3>1. i \in A
        BY <1>1
      <3> QED
        BY <3>1
    <2> HIDE DEF A, B, d
    <2>5. d \in Bijection(A, B)
      BY <2>2, <2>3, <2>4 DEF Bijection, Injection, Surjection, IsInjective
    <2>6. Cardinality(B) = Cardinality(A)
      BY <2>1, <2>5, FS_Bijection DEF ExistsBijection
    <2> QED
      BY <2>6 DEF A, B, Standing, Having
  <1> QED
    BY <1>5, <1>6

LEMMA ShowsConcat ==
    ASSUME NEW s, IsSeq(s), NEW t, IsSeq(t), NEW S, NEW T, S \cap T = {}, NEW val,
           Shows(s, S, val), Shows(t, T, val)
    PROVE  IsSeq(s \o t) /\ Shows(s \o t, S \cup T, val)
  <1>1. PICK b \in [DOMAIN s -> S] :
            /\ \A i, j \in DOMAIN s : b[i] = b[j] => i = j
            /\ \A x \in S : \E i \in DOMAIN s : b[i] = x
            /\ \A i \in DOMAIN s : s[i] = val[b[i]]
    BY DEF Shows
  <1>2. PICK c \in [DOMAIN t -> T] :
            /\ \A i, j \in DOMAIN t : c[i] = c[j] => i = j
            /\ \A x \in T : \E i \in DOMAIN t : c[i] = x
            /\ \A i \in DOMAIN t : t[i] = val[c[i]]
    BY DEF Shows
  <1> DEFINE m == Len(s)
             n == Len(t)
             U == Range(s) \cup Range(t)
             u == s \o t
  <1>3. m \in Nat /\ DOMAIN s = 1 .. m /\ n \in Nat /\ DOMAIN t = 1 .. n
    BY SeqFacts
  <1>4. s \in Seq(U) /\ t \in Seq(U)
    BY SeqMonotonic DEF IsSeq
  <1>5. /\ u \in Seq(U) /\ Len(u) = m + n
        /\ \A i \in 1 .. m + n : u[i] = IF i <= m THEN s[i] ELSE t[i - m]
    BY <1>4, ConcatProperties
  <1>6. DOMAIN u = 1 .. m + n
    BY <1>5, LenProperties
  <1>7. IsSeq(u)
    BY <1>5, SeqOfRange DEF IsSeq
  <1> HIDE DEF m, n, U, u
  <1> DEFINE d == [i \in 1 .. m + n |-> IF i <= m THEN b[i] ELSE c[i - m]]
  <1>8. \A i \in 1 .. m + n : IF i <= m THEN i \in DOMAIN s ELSE i - m \in DOMAIN t
    BY <1>3
  <1>9. d \in [DOMAIN u -> S \cup T]
    BY <1>6, <1>8
  <1>10. ASSUME NEW i \in DOMAIN u, NEW j \in DOMAIN u, d[i] = d[j]
         PROVE  i = j
    <2>1. /\ i \in Nat /\ j \in Nat
          /\ d[i] = IF i <= m THEN b[i] ELSE c[i - m]
          /\ d[j] = IF j <= m THEN b[j] ELSE c[j - m]
      BY <1>3, <1>6
    <2>2. i <= m => d[i] \in S
      BY <2>1, <1>6, <1>8
    <2>3. ~(i <= m) => d[i] \in T
      BY <2>1, <1>6, <1>8
    <2>4. j <= m => d[j] \in S
      BY <2>1, <1>6, <1>8
    <2>5. ~(j <= m) => d[j] \in T
      BY <2>1, <1>6, <1>8
    <2>6. i <= m <=> j <= m
      BY <1>10, <2>2, <2>3, <2>4, <2>5
    <2>7. CASE i <= m
      BY <2>7, <2>6, <2>1, <1>10, <1>1, <1>6, <1>8
    <2>8. CASE ~(i <= m)
      <3>1. c[i - m] = c[j - m] /\ i - m \in DOMAIN t /\ j - m \in DOMAIN t
        BY <2>8, <2>6, <2>1, <1>10, <1>6, <1>8
      <3>2. i - m = j - m
        BY <3>1, <1>2
      <3> QED
        BY <3>2, <2>1, <1>3
    <2> QED
      BY <2>7, <2>8
  <1>11. ASSUME NEW x \in S \cup T
         PROVE  \E i \in DOMAIN u : d[i] = x
    <2>1. CASE x \in S
      <3> PICK i \in DOMAIN s : b[i] = x
        BY <2>1, <1>1
      <3>1. i \in 1 .. m + n /\ i <= m
        BY <1>3
      <3> QED
        BY <3>1, <1>6
    <2>2. CASE x \in T
      <3> PICK i \in DOMAIN t : c[i] = x
        BY <2>2, <1>2
      <3>1. i + m \in 1 .. m + n /\ ~(i + m <= m) /\ (i + m) - m = i
        BY <1>3
      <3>2. d[i + m] = c[i]
        BY <3>1
      <3> QED
        BY <3>1, <3>2, <1>6
    <2> QED
      BY <2>1, <2>2
  <1>12. \A i \in DOMAIN u : u[i] = val[d[i]]
    <2> TAKE i \in DOMAIN u
    <2>1. CASE i <= m
      BY <2>1, <1>5, <1>6, <1>8, <1>1
    <2>2. CASE ~(i <= m)
      BY <2>2, <1>5, <1>6, <1>8, <1>2
    <2> QED
      BY <2>1, <2>2
  <1> HIDE DEF d
  <1>13. Shows(u, S \cup T, val)
    BY <1>9, <1>10, <1>11, <1>12 DEF Shows
  <1> QED
    BY <1>7, <1>13 DEF u

\* FlattenSeq is what its recursion says.
LEMMA FlattenDefined ==
    ASSUME NEW ss, IsSeq(ss), Len(ss) # 0
    PROVE  \E f : /\ FlattenSeq(ss) = f[Len(ss)]
                  /\ f = [i \in 1 .. Len(ss) |-> IF i = 1 THEN ss[i] ELSE f[i - 1] \o ss[i]]
  <1> DEFINE n == Len(ss)
             Sums(f, k) == f = [i \in 1 .. k |-> IF i = 1 THEN ss[i] ELSE f[i - 1] \o ss[i]]
             G == {k \in 1 .. n : \E f : Sums(f, k)}
  <1>1. n \in Nat /\ 1 \in 1 .. n
    BY SeqFacts
  <1>2. 1 \in G
    <2> DEFINE f == [i \in 1 .. 1 |-> ss[1]]
    <2>1. f = [i \in 1 .. 1 |-> IF i = 1 THEN ss[i] ELSE f[i - 1] \o ss[i]]
      OBVIOUS
    <2> QED
      BY <2>1, <1>1
  <1>3. ASSUME NEW k \in 1 .. n - 1, k \in G PROVE k + 1 \in G
    <2>1. k \in Nat /\ k + 1 \in 1 .. n
      BY <1>1
    <2>2. PICK f : Sums(f, k)
      BY <1>3
    <2> DEFINE g == [i \in 1 .. k + 1 |-> IF i = k + 1 THEN f[k] \o ss[k + 1] ELSE f[i]]
    <2>3. ASSUME NEW i \in 1 .. k + 1
          PROVE  g[i] = IF i = 1 THEN ss[i] ELSE g[i - 1] \o ss[i]
      <3>1. CASE i = k + 1
        <4>1. i # 1 /\ i - 1 = k /\ k \in 1 .. k + 1 /\ k # k + 1
          BY <3>1, <2>1, <1>3
        <4>2. g[i] = f[k] \o ss[k + 1] /\ g[k] = f[k]
          BY <3>1, <4>1
        <4> QED
          BY <3>1, <4>1, <4>2
      <3>2. CASE i # k + 1
        <4>1. i \in 1 .. k /\ g[i] = f[i] /\ (i # 1 => i - 1 \in 1 .. k + 1 /\ i - 1 # k + 1)
          BY <3>2, <2>1
        <4>2. i # 1 => g[i - 1] = f[i - 1]
          BY <4>1
        <4>3. f[i] = IF i = 1 THEN ss[i] ELSE f[i - 1] \o ss[i]
          BY <2>2, <4>1
        <4> QED
          BY <4>1, <4>2, <4>3
      <3> QED
        BY <3>1, <3>2
    <2>4. Sums(g, k + 1)
      <3>1. g = [i \in 1 .. k + 1 |-> g[i]]
        OBVIOUS
      <3> HIDE DEF g
      <3> QED
        BY <3>1, <2>3
    <2> HIDE DEF g, Sums
    <2> QED
      BY <2>1, <2>4
  <1> HIDE DEF G
  <1>4. 1 .. n \subseteq G
    BY <1>1, <1>2, <1>3, InductionTo
  <1>5. \E f : Sums(f, n)
    <2>1. n \in 1 .. n
      BY <1>1
    <2> QED
      BY <1>4, <2>1 DEF G
  <1> DEFINE h == CHOOSE f : Sums(f, n)
  <1>6. Sums(h, n)
    <2> HIDE DEF Sums
    <2> QED
      BY <1>5
  <1>7. FlattenSeq(ss) = h[n]
    BY <1>1 DEF FlattenSeq
  <1> HIDE DEF h
  <1> QED
    BY <1>6, <1>7

\* Parts that show disjoint sets, one after the other.
LEMMA FlattenShows ==
    ASSUME NEW ss, IsSeq(ss), NEW T, NEW val,
           \A i \in DOMAIN ss : IsSeq(ss[i]) /\ Shows(ss[i], T[i], val),
           \A i, j \in DOMAIN ss : i # j => T[i] \cap T[j] = {}
    PROVE  /\ IsSeq(FlattenSeq(ss))
           /\ Shows(FlattenSeq(ss), UNION {T[i] : i \in DOMAIN ss}, val)
  <1> DEFINE n == Len(ss)
             To(k) == UNION {T[i] : i \in 1 .. k}
  <1>1. n \in Nat /\ DOMAIN ss = 1 .. n
    BY SeqFacts
  <1>2. CASE n = 0
    <2>1. FlattenSeq(ss) = ss /\ DOMAIN ss = {}
      BY <1>1, <1>2 DEF FlattenSeq
    <2>2. UNION {T[i] : i \in DOMAIN ss} = {}
      BY <2>1
    <2>3. Shows(ss, {}, val)
      <3>1. [i \in {} |-> 0] \in [DOMAIN ss -> {}]
        BY <2>1
      <3> QED
        BY <2>1, <3>1 DEF Shows
    <2> QED
      BY <2>1, <2>2, <2>3
  <1>3. CASE n # 0
    <2>1. PICK f : /\ FlattenSeq(ss) = f[n]
                   /\ f = [i \in 1 .. n |-> IF i = 1 THEN ss[i] ELSE f[i - 1] \o ss[i]]
      BY <1>3, FlattenDefined
    <2> DEFINE G == {k \in 1 .. n : IsSeq(f[k]) /\ Shows(f[k], To(k), val)}
    <2>2. 1 \in G
      <3>1. 1 \in 1 .. n
        BY <1>1, <1>3
      <3>2. f[1] = ss[1]
        BY <2>1, <3>1
      <3>3. To(1) = T[1]
        BY 1 .. 1 = {1}
      <3> QED
        BY <3>1, <3>2, <3>3, <1>1
    <2>3. ASSUME NEW k \in 1 .. n - 1, k \in G PROVE k + 1 \in G
      <3>1. k \in Nat /\ k + 1 \in 1 .. n /\ k + 1 # 1 /\ (k + 1) - 1 = k
        BY <1>1
      <3>2. f[k + 1] = f[k] \o ss[k + 1]
        BY <2>1, <3>1
      <3>3. To(k + 1) = To(k) \cup T[k + 1]
        <4>1. 1 .. k + 1 = (1 .. k) \cup {k + 1}
          BY <3>1
        <4> QED
          BY <4>1
      <3>4. To(k) \cap T[k + 1] = {}
        <4> SUFFICES ASSUME NEW i \in 1 .. k, NEW x \in T[i], x \in T[k + 1] PROVE FALSE
          OBVIOUS
        <4>1. i \in 1 .. n /\ i # k + 1
          BY <3>1
        <4> QED
          BY <4>1, <3>1, <1>1
      <3>5. IsSeq(f[k]) /\ Shows(f[k], To(k), val)
        BY <2>3
      <3>6. IsSeq(ss[k + 1]) /\ Shows(ss[k + 1], T[k + 1], val)
        BY <3>1, <1>1
      <3>7. IsSeq(f[k + 1]) /\ Shows(f[k + 1], To(k + 1), val)
        <4> HIDE DEF To
        <4>1. /\ IsSeq(f[k] \o ss[k + 1])
              /\ Shows(f[k] \o ss[k + 1], To(k) \cup T[k + 1], val)
          BY <3>4, <3>5, <3>6, ShowsConcat, Zenon
        <4> QED
          BY <3>2, <3>3, <4>1, Zenon
      <3> QED
        BY <3>1, <3>7
    <2> HIDE DEF G
    <2>4. n \in G
      <3>1. 1 .. n \subseteq G
        BY <1>1, <2>2, <2>3, InductionTo
      <3> QED
        BY <3>1, <1>1, <1>3
    <2> QED
      BY <1>1, <2>1, <2>4 DEF G
  <1> QED
    BY <1>2, <1>3
-----------------------------------------------------------------------------
(* Combinations of rows.  A combination chooses a row of each table of W; an  *)
(* intermediate result over W shows a set of them by the columns N.           *)
Combos(W)   == {g \in [W -> Nat] : \A t \in W : g[t] \in DOMAIN rows[t]}
Value(g, n) == rows[n[1]][g[n[1]]][n[2]]
Tuples(W, N) == [g \in Combos(W) |-> [n \in N |-> Value(g, n)]]

Over(N, W) == \A n \in N : n[1] \in W

\* The tables of X and the columns of Y are those of both sides.
Sides(W, N, V, M, X, Y) ==
    /\ X = W \cup V /\ W \cap V = {}
    /\ Y = N \cup M /\ Over(N, W) /\ Over(M, V)

IsPart(r, W, N, S) ==
    /\ IsResult(r) /\ r.names = N /\ IsSeq(r.records)
    /\ S \subseteq Combos(W) /\ Over(N, W)
    /\ Shows(r.records, S, Tuples(W, N))

LEMMA WithCombo ==
    ASSUME NEW W, NEW V, W \cap V = {}, NEW g \in Combos(W), NEW h \in Combos(V)
    PROVE  With(g, h) \in Combos(W \cup V)
  BY DEF With, Combos

LEMMA WithLeft ==
    ASSUME NEW W, NEW V, W \cap V = {}, NEW g \in Combos(W), NEW h \in Combos(V)
    PROVE  Restrict(With(g, h), W) = g
  BY DEF With, Combos, Restrict

LEMMA WithRight ==
    ASSUME NEW W, NEW V, W \cap V = {}, NEW g \in Combos(W), NEW h \in Combos(V)
    PROVE  Restrict(With(g, h), V) = h
  BY DEF With, Combos, Restrict

LEMMA WithParts ==
    ASSUME NEW W, NEW V, NEW k \in Combos(W \cup V)
    PROVE  With(Restrict(k, W), Restrict(k, V)) = k
  BY DEF With, Combos, Restrict

LEMMA TupleWith ==
    ASSUME NEW W, NEW N, NEW V, NEW M, NEW X, NEW Y, Sides(W, N, V, M, X, Y),
           NEW g \in Combos(W), NEW h \in Combos(V)
    PROVE  With(Tuples(W, N)[g], Tuples(V, M)[h]) = Tuples(X, Y)[With(g, h)]
  <1> DEFINE k == With(g, h)
  <1>1. /\ k \in Combos(X)
        /\ \A t \in W : k[t] = g[t]
        /\ \A t \in V : k[t] = h[t]
    BY WithCombo DEF With, Combos, Sides
  <1> HIDE DEF k
  <1>2. Tuples(W, N)[g] = [n \in N |-> Value(g, n)]
    BY DEF Tuples
  <1>3. Tuples(V, M)[h] = [n \in M |-> Value(h, n)]
    BY DEF Tuples
  <1>4. Tuples(X, Y)[k] = [n \in Y |-> Value(k, n)]
    BY <1>1 DEF Tuples
  <1>5. \A n \in N : Value(k, n) = Value(g, n)
    BY <1>1 DEF Value, Over, Sides
  <1>6. \A n \in M : Value(k, n) = Value(h, n)
    BY <1>1 DEF Value, Over, Sides
  <1>7. With([n \in N |-> Value(g, n)], [n \in M |-> Value(h, n)])
          = [n \in Y |-> IF n \in N THEN Value(g, n) ELSE Value(h, n)]
    BY DEF With, Sides
  <1>8. \A n \in Y : (IF n \in N THEN Value(g, n) ELSE Value(h, n)) = Value(k, n)
    BY <1>5, <1>6 DEF Sides
  <1>9. [n \in Y |-> IF n \in N THEN Value(g, n) ELSE Value(h, n)]
          = [n \in Y |-> Value(k, n)]
    BY <1>8
  <1> QED
    BY <1>2, <1>3, <1>4, <1>7, <1>9 DEF k

\* The combinations over both sides: one of S with one of T.
Both(X, W, S, V, T) == {k \in Combos(X) : Restrict(k, W) \in S /\ Restrict(k, V) \in T}

WithAll(record, records) == [j \in DOMAIN records |-> With(record, records[j])]

\* One record with all of a part.
LEMMA JoinOne ==
    ASSUME NEW W, NEW N, NEW V, NEW M, NEW X, NEW Y, Sides(W, N, V, M, X, Y),
           NEW g \in Combos(W), NEW b, NEW T, IsPart(b, V, M, T)
    PROVE  /\ IsSeq(WithAll(Tuples(W, N)[g], b.records))
           /\ Shows(WithAll(Tuples(W, N)[g], b.records), Both(X, W, {g}, V, T), Tuples(X, Y))
  <1> DEFINE s == WithAll(Tuples(W, N)[g], b.records)
             K == Both(X, W, {g}, V, T)
             c == [h \in T |-> With(g, h)]
             from == Tuples(V, M)
             to == Tuples(X, Y)
  <1>1. /\ IsSeq(b.records) /\ T \subseteq Combos(V)
        /\ Shows(b.records, T, from)
    BY DEF IsPart
  <1>2. IsSeq(s)
    <2>1. Len(b.records) \in Nat /\ DOMAIN b.records = 1 .. Len(b.records)
      BY <1>1, SeqFacts
    <2>2. DOMAIN s = 1 .. Len(b.records) /\ s = [i \in 1 .. Len(b.records) |-> s[i]]
      BY <2>1 DEF WithAll
    <2> HIDE DEF s
    <2> QED
      BY <2>1, <2>2, MakeSeq
  <1>0. X = W \cup V /\ W \cap V = {}
    BY DEF Sides
  <1>3. c \in [T -> K]
    <2> SUFFICES ASSUME NEW h \in T PROVE With(g, h) \in K
      OBVIOUS
    <2>1. With(g, h) \in Combos(X)
      BY <1>1, <1>0, WithCombo
    <2>2. Restrict(With(g, h), W) = g
      BY <1>1, <1>0, WithLeft
    <2>3. Restrict(With(g, h), V) = h
      BY <1>1, <1>0, WithRight
    <2> QED
      BY <2>1, <2>2, <2>3 DEF Both
  <1>4. \A x, y \in T : c[x] = c[y] => x = y
    <2> SUFFICES ASSUME NEW x \in T, NEW y \in T, With(g, x) = With(g, y) PROVE x = y
      OBVIOUS
    <2> QED
      BY <1>1, <1>0, WithRight
  <1>5. \A k \in K : \E h \in T : c[h] = k
    <2> SUFFICES ASSUME NEW k \in K PROVE \E h \in T : c[h] = k
      OBVIOUS
    <2>1. k \in Combos(W \cup V) /\ Restrict(k, W) = g /\ Restrict(k, V) \in T
      BY <1>0 DEF Both
    <2>2. c[Restrict(k, V)] = k
      BY <2>1, WithParts
    <2> QED
      BY <2>1, <2>2
  <1>6. \A j \in DOMAIN b.records, h \in T : b.records[j] = from[h] => s[j] = to[c[h]]
    <2> SUFFICES ASSUME NEW j \in DOMAIN b.records, NEW h \in T, b.records[j] = from[h]
                 PROVE  s[j] = to[With(g, h)]
      OBVIOUS
    <2>1. h \in Combos(V)
      BY <1>1
    <2>2. With(Tuples(W, N)[g], Tuples(V, M)[h]) = Tuples(X, Y)[With(g, h)]
      BY <2>1, TupleWith
    <2>3. s[j] = With(Tuples(W, N)[g], b.records[j])
      BY DEF WithAll
    <2> QED
      BY <2>2, <2>3
  <1>7. DOMAIN s = DOMAIN b.records
    BY DEF WithAll
  <1> HIDE DEF s, K, c, from, to
  <1>8. Renames(c, b.records, T, from, s, K, to)
    BY <1>3, <1>4, <1>5, <1>6, <1>7 DEF Renames
  <1>9. Shows(s, K, to)
    BY <1>1, <1>8, ShowsRenamed
  <1> QED
    BY <1>2, <1>9 DEF s, K, to

LEMMA JoinPart ==
    ASSUME NEW W, NEW N, NEW V, NEW M, NEW X, NEW Y, Sides(W, N, V, M, X, Y),
           NEW a, NEW S, IsPart(a, W, N, S), NEW b, NEW T, IsPart(b, V, M, T)
    PROVE  IsPart(Join(a, b), X, Y, Both(X, W, S, V, T))
  <1> DEFINE K == Both(X, W, S, V, T)
             ss == [i \in DOMAIN a.records |-> WithAll(a.records[i], b.records)]
             from == Tuples(W, N)
             to == Tuples(X, Y)
  <1>1. IsSeq(a.records) /\ S \subseteq Combos(W) /\ Shows(a.records, S, from)
    BY DEF IsPart
  <1>3. PICK p \in [DOMAIN a.records -> S] :
            /\ \A i, j \in DOMAIN a.records : p[i] = p[j] => i = j
            /\ \A x \in S : \E i \in DOMAIN a.records : p[i] = x
            /\ \A i \in DOMAIN a.records : a.records[i] = from[p[i]]
    BY <1>1 DEF Shows
  <1> DEFINE Q == [i \in DOMAIN a.records |-> Both(X, W, {p[i]}, V, T)]
  <1>4. IsSeq(ss) /\ DOMAIN ss = DOMAIN a.records
    <2>1. Len(a.records) \in Nat /\ DOMAIN a.records = 1 .. Len(a.records)
      BY <1>1, SeqFacts
    <2>2. DOMAIN ss = 1 .. Len(a.records) /\ ss = [i \in 1 .. Len(a.records) |-> ss[i]]
      BY <2>1
    <2> HIDE DEF ss
    <2> QED
      BY <2>1, <2>2, MakeSeq
  <1>5. ASSUME NEW i \in DOMAIN a.records
        PROVE  IsSeq(ss[i]) /\ Shows(ss[i], Q[i], to)
    <2>1. p[i] \in Combos(W) /\ a.records[i] = from[p[i]]
      BY <1>1, <1>3
    <2>2. /\ IsSeq(WithAll(from[p[i]], b.records))
          /\ Shows(WithAll(from[p[i]], b.records), Both(X, W, {p[i]}, V, T), to)
      BY <2>1, JoinOne
    <2>3. ss[i] = WithAll(from[p[i]], b.records) /\ Q[i] = Both(X, W, {p[i]}, V, T)
      BY <2>1
    <2> HIDE DEF Q, ss, to, from
    <2> QED
      BY <2>2, <2>3
  <1>6. \A i, j \in DOMAIN a.records : i # j => Q[i] \cap Q[j] = {}
    BY <1>3 DEF Both
  <1>7. UNION {Q[i] : i \in DOMAIN a.records} = K
    <2>1. ASSUME NEW k \in K PROVE \E i \in DOMAIN a.records : k \in Q[i]
      <3>1. Restrict(k, W) \in S /\ k \in Combos(X) /\ Restrict(k, V) \in T
        BY <2>1 DEF Both
      <3> PICK i \in DOMAIN a.records : p[i] = Restrict(k, W)
        BY <3>1, <1>3
      <3> QED
        BY <3>1 DEF Both
    <2>2. \A i \in DOMAIN a.records : Q[i] \subseteq K
      BY <1>3 DEF Both
    <2> HIDE DEF K, Q
    <2> QED
      BY <2>1, <2>2
  <1> HIDE DEF Q
  <1>8. IsSeq(FlattenSeq(ss)) /\ Shows(FlattenSeq(ss), K, to)
    <2> HIDE DEF ss, K, to, from
    <2>1. /\ IsSeq(FlattenSeq(ss))
          /\ Shows(FlattenSeq(ss), UNION {Q[i] : i \in DOMAIN ss}, to)
      BY <1>4, <1>5, <1>6, FlattenShows
    <2> QED
      BY <2>1, <1>4, <1>7
  <1>9. /\ IsResult(Join(a, b)) /\ Join(a, b).names = Y /\ Join(a, b).records = FlattenSeq(ss)
    BY DEF Join, Result, IsResult, IsPart, WithAll, Sides
  <1>10. K \subseteq Combos(X) /\ Over(Y, X)
    BY DEF Both, Sides, Over
  <1> HIDE DEF ss, K
  <1>11. IsPart(Join(a, b), X, Y, K)
    BY <1>8, <1>9, <1>10 DEF IsPart
  <1> QED
    BY <1>11 DEF K
-----------------------------------------------------------------------------
(* Outcomes of calls.                                                         *)
LEMMA FirstGood ==
    ASSUME NEW outcomes, NEW good, \A i \in DOMAIN outcomes : IsResult(outcomes[i]),
           IsSeq(outcomes)
    PROVE  FirstFailure(outcomes, good) = good
  <1>1. {i \in 1 .. Len(outcomes) : ~IsResult(outcomes[i])} = {}
    BY SeqFacts
  <1> QED
    BY <1>1 DEF FirstFailure, SelectInSeq

LEMMA FirstBad ==
    ASSUME NEW outcomes, NEW good, IsSeq(outcomes),
           NEW i \in DOMAIN outcomes, ~IsResult(outcomes[i])
    PROVE  ~IsResult(FirstFailure(outcomes, good))
  <1> DEFINE I == {j \in 1 .. Len(outcomes) : ~IsResult(outcomes[j])}
  <1>1. I \in SUBSET Nat /\ I # {} /\ 0 \notin I
    BY SeqFacts
  <1>2. Min(I) \in I
    BY <1>1, MinNumber
  <1>3. FirstFailure(outcomes, good) = outcomes[Min(I)]
    <2> DEFINE m == SelectInSeq(outcomes, LAMBDA o : ~IsResult(o))
    <2>1. m = Min(I)
      BY <1>1 DEF SelectInSeq
    <2>2. m # 0
      BY <2>1, <1>1, <1>2
    <2> QED
      BY <2>1, <2>2 DEF FirstFailure
  <1> QED
    BY <1>2, <1>3
-----------------------------------------------------------------------------
(* The rows of one table.                                                     *)
Met(t, ands) ==
    {g \in Combos({t}) : \A i \in DOMAIN ands :
                            Matches(ands[i], Value(g, <<t, ands[i].name[2]>>))}

\* Table::select finds the rows that meet the conditions.
LEMMA TablePart ==
    ASSUME NEW t, IsSeq(rows[t]), NEW columns, columns \subseteq Columns(t),
           NEW ands, IsSeq(ands), \A i \in DOMAIN ands : IsResult(Predict(t, ands[i]))
    PROVE  IsPart(TableSelect(t, columns, ands), {t}, {t} \X columns, Met(t, ands))
  <1> DEFINE all == rows[t]
             P == {k \in DOMAIN all : \A i \in DOMAIN ands :
                      Matches(ands[i], all[k][ands[i].name[2]])}
             found == Chosen(all, P)
             names == {t} \X columns
             records == [i \in DOMAIN found |-> [n \in names |-> found[i][n[2]]]]
             only == [k \in P |-> [x \in {t} |-> k]]
             to == Tuples({t}, names)
  <1>1. TableSelect(t, columns, ands) = Result(names, records)
    <2> DEFINE outcomes == [i \in DOMAIN ands |-> Predict(t, ands[i])]
    <2>1. IsSeq(outcomes)
      <3>1. Len(ands) \in Nat /\ DOMAIN ands = 1 .. Len(ands)
        BY SeqFacts
      <3>2. DOMAIN outcomes = 1 .. Len(ands) /\ outcomes = [i \in 1 .. Len(ands) |-> outcomes[i]]
        BY <3>1
      <3> HIDE DEF outcomes
      <3> QED
        BY <3>1, <3>2, MakeSeq
    <2>2. \A i \in DOMAIN outcomes : IsResult(outcomes[i])
      OBVIOUS
    <2> HIDE DEF outcomes, records
    <2>3. FirstFailure(outcomes, Result(names, records)) = Result(names, records)
      BY <2>1, <2>2, FirstGood
    <2> QED
      BY <2>3 DEF TableSelect, outcomes, records
  <1>2. Shows(all, DOMAIN all, all)
    BY ShowsItself
  <1>3. IsSeq(found) /\ Shows(found, P, all)
    <2> DEFINE D == DOMAIN all
    <2>1. Shows(all, D, all) /\ P \in SUBSET D /\ IsSeq(all)
      BY <1>2
    <2>2. \A i \in D, x \in D : all[i] = all[x] => (i \in P <=> x \in P)
      OBVIOUS
    <2> HIDE DEF P, all
    <2> QED
      BY <2>1, <2>2, ShowsChosen
  <1>4. only \in [P -> Met(t, ands)]
    <2> SUFFICES ASSUME NEW k \in P PROVE [x \in {t} |-> k] \in Met(t, ands)
      OBVIOUS
    <2>1. k \in Nat
      BY SeqFacts
    <2>2. [x \in {t} |-> k] \in Combos({t})
      BY <2>1 DEF Combos
    <2> QED
      BY <2>2 DEF Met, Value
  <1>5. \A x, y \in P : only[x] = only[y] => x = y
    <2> SUFFICES ASSUME NEW x \in P, NEW y \in P, only[x] = only[y] PROVE x = y
      OBVIOUS
    <2>1. only[x][t] = x /\ only[y][t] = y
      OBVIOUS
    <2> QED
      BY <2>1
  <1>6. \A g \in Met(t, ands) : \E k \in P : only[k] = g
    <2> SUFFICES ASSUME NEW g \in Met(t, ands) PROVE g[t] \in P /\ only[g[t]] = g
      BY Zenon
    <2>1. g \in [{t} -> Nat] /\ g[t] \in DOMAIN all
      BY DEF Met, Combos
    <2>2. g[t] \in P
      BY <2>1 DEF Met, Value
    <2> QED
      BY <2>1, <2>2
  <1>7. DOMAIN records = DOMAIN found
    OBVIOUS
  <1>8. \A i \in DOMAIN found, k \in P : found[i] = all[k] => records[i] = to[only[k]]
    <2> SUFFICES ASSUME NEW i \in DOMAIN found, NEW k \in P, found[i] = all[k]
                 PROVE  records[i] = to[only[k]]
      OBVIOUS
    <2>1. to[only[k]] = [n \in names |-> Value(only[k], n)]
      BY <1>4 DEF Tuples, Met
    <2>2. \A n \in names : n[1] = t /\ Value(only[k], n) = all[k][n[2]]
      BY DEF Value
    <2>3. records[i] = [n \in names |-> found[i][n[2]]]
      OBVIOUS
    <2> HIDE DEF only, to, names, records, found, all, P
    <2>4. records[i] = [n \in names |-> all[k][n[2]]]
      BY <2>3
    <2> QED
      BY <2>1, <2>2, <2>4
  <1>9. IsSeq(records)
    <2>1. Len(found) \in Nat /\ DOMAIN found = 1 .. Len(found)
      BY <1>3, SeqFacts
    <2>2. DOMAIN records = 1 .. Len(found) /\ records = [i \in 1 .. Len(found) |-> records[i]]
      BY <2>1
    <2> HIDE DEF records
    <2> QED
      BY <2>1, <2>2, MakeSeq
  <1>10. Over(names, {t}) /\ Met(t, ands) \subseteq Combos({t})
    BY DEF Over, Met
  <1> HIDE DEF records, found, only, to, all, P, names
  <1>11. Renames(only, found, P, all, records, Met(t, ands), to)
    BY <1>4, <1>5, <1>6, <1>7, <1>8 DEF Renames
  <1>12. Shows(records, Met(t, ands), to)
    BY <1>3, <1>11, ShowsRenamed
  <1>13. /\ IsResult(Result(names, records)) /\ Result(names, records).names = names
         /\ Result(names, records).records = records
    BY DEF Result, IsResult
  <1> QED
    BY <1>1, <1>9, <1>10, <1>12, <1>13 DEF IsPart, names, to
-----------------------------------------------------------------------------
(* Conditions.  A condition needs one table, or two; a combination over W is  *)
(* within q if it meets every condition that needs tables of W only.          *)
Needs(e) == {e.name[1]} \cup {n[1] : n \in {e.rhsAttr} \ {NoAttr}}

Holds(g, e) ==
    LET v == Value(g, e.name) IN
    IF e.rhsAttr = NoAttr THEN Matches(e, v)
    ELSE LET w == Value(g, e.rhsAttr) IN v # Null /\ w # Null /\ Compare(e.op, v, w)

Within(q, W) ==
    {g \in Combos(W) : \A i \in DOMAIN q.ands : Needs(q.ands[i]) \subseteq W => Holds(g, q.ands[i])}

Names(q, W) == UNION {{t} \X ColumnsFor(q, t) : t \in W}

\* A legal statement about more than one table, or none.
Proper(q, n) ==
    n # NoAttr /\ n = <<n[1], n[2]>> /\ n[1] \in Range(q.froms) /\ n[2] \in Columns(n[1])

Sound(q, e) ==
    /\ Proper(q, e.name)
    /\ e.rhsAttr = NoAttr => IsResult(Predict(e.name[1], e))
    /\ e.rhsAttr # NoAttr => /\ Proper(q, e.rhsAttr) /\ e.name[1] # e.rhsAttr[1]
                             /\ Type(e.name) = Type(e.rhsAttr) /\ e.op \in Comparisons

Clear(q) ==
    /\ IsSeq(q.froms) /\ IsSeq(q.selects) /\ IsSeq(q.ands)
    /\ IsInjective(q.froms) /\ Range(q.froms) \subseteq Tables
    /\ \A i \in DOMAIN q.selects : Proper(q, q.selects[i])
    /\ \A i \in DOMAIN q.ands : Sound(q, q.ands[i])

LEMMA ChosenRange ==
    ASSUME NEW s, IsSeq(s), NEW I \in SUBSET DOMAIN s
    PROVE  /\ IsSeq(Chosen(s, I))
           /\ \A k \in DOMAIN Chosen(s, I) : \E i \in I : Chosen(s, I)[k] = s[i]
           /\ \A i \in I : \E k \in DOMAIN Chosen(s, I) : Chosen(s, I)[k] = s[i]
  <1>1. PICK p \in [1 .. Cardinality(I) -> I] :
              /\ Cardinality(I) \in Nat
              /\ \A k, l \in 1 .. Cardinality(I) : p[k] = p[l] => k = l
              /\ \A i \in I : \E k \in 1 .. Cardinality(I) : p[k] = i
              /\ Chosen(s, I) = [k \in 1 .. Cardinality(I) |-> s[p[k]]]
              /\ IsSeq(Chosen(s, I)) /\ Len(Chosen(s, I)) = Cardinality(I)
    BY ChosenFacts
  <1> QED
    BY <1>1

\* What the conditions read of a combination is there in its parts.
LEMMA HoldsRestrict ==
    ASSUME NEW X, NEW W, W \subseteq X, NEW g \in Combos(X),
           NEW e, Needs(e) \subseteq W
    PROVE  Holds(Restrict(g, W), e) <=> Holds(g, e)
  <1>1. e.name[1] \in W /\ (e.rhsAttr # NoAttr => e.rhsAttr[1] \in W)
    BY DEF Needs
  <1>2. \A t \in W : Restrict(g, W)[t] = g[t]
    BY DEF Restrict
  <1>3. Value(Restrict(g, W), e.name) = Value(g, e.name)
    BY <1>1, <1>2 DEF Value
  <1>4. e.rhsAttr # NoAttr => Value(Restrict(g, W), e.rhsAttr) = Value(g, e.rhsAttr)
    BY <1>1, <1>2 DEF Value
  <1> QED
    BY <1>3, <1>4 DEF Holds

LEMMA RestrictWithin ==
    ASSUME NEW q, NEW X, NEW W, W \subseteq X, NEW g \in Within(q, X)
    PROVE  Restrict(g, W) \in Within(q, W)
  <1>1. g \in Combos(X)
    BY DEF Within
  <1>2. Restrict(g, W) \in Combos(W)
    BY <1>1 DEF Combos, Restrict
  <1>3. ASSUME NEW i \in DOMAIN q.ands, Needs(q.ands[i]) \subseteq W
        PROVE  Holds(Restrict(g, W), q.ands[i])
    <2>1. Holds(g, q.ands[i])
      BY <1>3 DEF Within
    <2> QED
      BY <1>1, <1>3, <2>1, HoldsRestrict
  <1> QED
    BY <1>2, <1>3 DEF Within

\* A condition of the statement needs the tables that its columns are there for.
LEMMA NamesKnown ==
    ASSUME NEW q, Clear(q), NEW W, NEW i \in DOMAIN q.ands
    PROVE  /\ q.ands[i].name \in Names(q, W) <=> q.ands[i].name[1] \in W
           /\ q.ands[i].rhsAttr # NoAttr =>
                 (q.ands[i].rhsAttr \in Names(q, W) <=> q.ands[i].rhsAttr[1] \in W)
  <1> DEFINE e == q.ands[i]
             names == {q.ands[j].name : j \in DOMAIN q.ands}
                      \cup {q.ands[j].rhsAttr : j \in DOMAIN q.ands} \cup Range(q.selects)
  <1>1. ASSUME NEW n, n \in names, n # NoAttr, n = <<n[1], n[2]>>
        PROVE  n \in Names(q, W) <=> n[1] \in W
    <2>1. n[2] \in ColumnsFor(q, n[1])
      BY <1>1 DEF ColumnsFor
    <2>2. ASSUME n[1] \in W PROVE n \in Names(q, W)
      <3>1. <<n[1], n[2]>> \in {n[1]} \X ColumnsFor(q, n[1])
        BY <2>1
      <3> QED
        BY <3>1, <2>2, <1>1 DEF Names
    <2>3. ASSUME n \in Names(q, W) PROVE n[1] \in W
      <3>1. PICK t \in W : n \in {t} \X ColumnsFor(q, t)
        BY <2>3 DEF Names
      <3> QED
        BY <3>1
    <2> QED
      BY <2>2, <2>3
  <1>2. e.name \in names /\ e.rhsAttr \in names
    OBVIOUS
  <1>3. e.name # NoAttr /\ e.name = <<e.name[1], e.name[2]>>
    BY DEF Clear, Sound, Proper
  <1>4. e.rhsAttr # NoAttr => e.rhsAttr = <<e.rhsAttr[1], e.rhsAttr[2]>>
    BY DEF Clear, Sound, Proper
  <1> HIDE DEF names
  <1> QED
    BY <1>1, <1>2, <1>3, <1>4

LEMMA NamesOver ==
    ASSUME NEW q, NEW W
    PROVE  Over(Names(q, W), W)
  BY DEF Over, Names

LEMMA NamesOne ==
    ASSUME NEW q, NEW t
    PROVE  Names(q, {t}) = {t} \X ColumnsFor(q, t)
  <1>1. {{x} \X ColumnsFor(q, x) : x \in {t}} = {{t} \X ColumnsFor(q, t)}
    OBVIOUS
  <1> QED
    BY <1>1 DEF Names

LEMMA NamesSides ==
    ASSUME NEW q, NEW W, NEW V, W \cap V = {}
    PROVE  Sides(W, Names(q, W), V, Names(q, V), W \cup V, Names(q, W \cup V))
  <1>1. Over(Names(q, W), W) /\ Over(Names(q, V), V)
    BY NamesOver
  <1>2. Names(q, W \cup V) = Names(q, W) \cup Names(q, V)
    BY DEF Names
  <1> QED
    BY <1>1, <1>2 DEF Sides

LEMMA ColumnsKnown ==
    ASSUME NEW q, Clear(q), NEW t
    PROVE  ColumnsFor(q, t) \subseteq Columns(t)
  BY DEF ColumnsFor, Clear, Sound, Proper, Range

\* The conditions on one table, for Table::select.
LEMMA OwnMet ==
    ASSUME NEW q, Clear(q), NEW t
    PROVE  /\ IsSeq(OwnConditions(q, t))
           /\ \A k \in DOMAIN OwnConditions(q, t) : IsResult(Predict(t, OwnConditions(q, t)[k]))
           /\ Met(t, OwnConditions(q, t)) = Within(q, {t})
  <1> DEFINE I == {i \in DOMAIN q.ands : q.ands[i].rhsAttr = NoAttr /\ q.ands[i].name[1] = t}
             own == Chosen(q.ands, I)
  <1>1. IsSeq(q.ands) /\ \A i \in DOMAIN q.ands : Sound(q, q.ands[i])
    BY DEF Clear
  <1>2. /\ IsSeq(own)
        /\ \A k \in DOMAIN own : \E i \in I : own[k] = q.ands[i]
        /\ \A i \in I : \E k \in DOMAIN own : own[k] = q.ands[i]
    <2>1. I \in SUBSET DOMAIN q.ands
      OBVIOUS
    <2> HIDE DEF I
    <2> QED
      BY <1>1, <2>1, ChosenRange
  <1>3. OwnConditions(q, t) = own
    BY DEF OwnConditions
  <1> HIDE DEF own
  <1>4. \A k \in DOMAIN own : IsResult(Predict(t, own[k]))
    BY <1>1, <1>2 DEF Sound
  <1>5. Met(t, own) = Within(q, {t})
    <2>1. \A i \in DOMAIN q.ands : Needs(q.ands[i]) \subseteq {t} <=> i \in I
      BY <1>1 DEF Needs, Sound
    <2>2. \A g : \A i \in I : Holds(g, q.ands[i])
                              <=> Matches(q.ands[i], Value(g, <<t, q.ands[i].name[2]>>))
      BY <1>1 DEF Holds, Sound, Proper
    <2> HIDE DEF I
    <2>3. ASSUME NEW g \in Combos({t})
          PROVE  g \in Met(t, own) <=> g \in Within(q, {t})
      <3>1. g \in Met(t, own) <=> \A i \in I : Holds(g, q.ands[i])
        BY <1>2, <2>2 DEF Met
      <3>2. g \in Within(q, {t}) <=> \A i \in I : Holds(g, q.ands[i])
        BY <2>1 DEF Within, I
      <3> QED
        BY <3>1, <3>2
    <2> QED
      BY <2>3 DEF Met, Within
  <1> QED
    BY <1>2, <1>3, <1>4, <1>5

\* A table alone, with the conditions on it.
LEMMA OnePart ==
    ASSUME NEW q, Clear(q), NEW t \in Range(q.froms), IsSeq(rows[t])
    PROVE  IsPart(SelectOne(q, t), {t}, Names(q, {t}), Within(q, {t}))
  <1> DEFINE own == OwnConditions(q, t)
             columns == ColumnsFor(q, t)
  <1>1. columns \subseteq Columns(t) /\ t \in Tables
    BY ColumnsKnown DEF Clear
  <1>2. /\ IsSeq(own) /\ \A k \in DOMAIN own : IsResult(Predict(t, own[k]))
        /\ Met(t, own) = Within(q, {t})
    BY OwnMet
  <1>3. SelectOne(q, t) = TableSelect(t, columns, own)
    BY <1>1 DEF SelectOne
  <1>4. Names(q, {t}) = {t} \X columns
    BY NamesOne
  <1> HIDE DEF own, columns
  <1>5. IsPart(TableSelect(t, columns, own), {t}, {t} \X columns, Met(t, own))
    BY <1>1, <1>2, TablePart
  <1> QED
    BY <1>2, <1>3, <1>4, <1>5
-----------------------------------------------------------------------------
(* Joining and filtering.                                                     *)
\* Conditions of two columns that a result over N has.
Joining(N, ands) ==
    /\ IsSeq(ands)
    /\ \A i \in DOMAIN ands :
          LET e == ands[i] IN
          /\ e.rhsAttr # NoAttr /\ e.name \in N /\ e.rhsAttr \in N
          /\ Type(e.name) = Type(e.rhsAttr) /\ e.op \in Comparisons

LEMMA PartEmpty ==
    ASSUME NEW r, NEW W, NEW N, NEW S, IsPart(r, W, N, S)
    PROVE  r.records = << >> <=> S = {}
  <1>1. IsSeq(r.records) /\ Shows(r.records, S, Tuples(W, N))
    BY DEF IsPart
  <1>2. DOMAIN r.records = {} <=> S = {}
    BY <1>1 DEF Shows
  <1>3. Len(r.records) \in Nat /\ DOMAIN r.records = 1 .. Len(r.records) /\ r.records \in Seq(Range(r.records))
    BY <1>1, SeqFacts DEF IsSeq
  <1>4. r.records = << >> <=> Len(r.records) = 0
    BY <1>3, EmptySeq
  <1>5. Len(r.records) = 0 <=> DOMAIN r.records = {}
    <2>1. \A n \in Nat : n = 0 <=> 1 .. n = {}
      OBVIOUS
    <2> QED
      BY <1>3, <2>1
  <1> QED
    BY <1>2, <1>4, <1>5, Zenon

\* The predicate on a tuple of values says what it says of the rows.
LEMMA PassesHolds ==
    ASSUME NEW W, NEW N, NEW g \in Combos(W), NEW e, e.rhsAttr # NoAttr, e.name \in N, e.rhsAttr \in N
    PROVE  Passes(e, Tuples(W, N)[g]) <=> Holds(g, e)
  <1>1. /\ Tuples(W, N)[g][e.name] = Value(g, e.name)
        /\ Tuples(W, N)[g][e.rhsAttr] = Value(g, e.rhsAttr)
    BY DEF Tuples
  <1> QED
    BY <1>1 DEF Passes, Holds

\* QueryManager::filter leaves the combinations that meet the conditions.
LEMMA FilterPart ==
    ASSUME NEW r, NEW W, NEW N, NEW S, IsPart(r, W, N, S),
           NEW ands, Joining(N, ands), ands = << >> \/ S # {}
    PROVE  IsPart(Filter(r, ands), W, N, {g \in S : \A i \in DOMAIN ands : Holds(g, ands[i])})
  <1> DEFINE s == r.records
             val == Tuples(W, N)
             T == {g \in S : \A i \in DOMAIN ands : Holds(g, ands[i])}
             I == {k \in DOMAIN s : \A i \in DOMAIN ands : Passes(ands[i], s[k])}
             outcomes == [i \in DOMAIN ands |-> CrossPredict(r, ands[i])]
  <1>1. /\ IsResult(r) /\ r.names = N /\ IsSeq(s) /\ S \subseteq Combos(W) /\ Over(N, W)
        /\ Shows(s, S, val)
    BY DEF IsPart
  <1>2. IsSeq(outcomes) /\ \A i \in DOMAIN outcomes : IsResult(outcomes[i])
    <2>1. Len(ands) \in Nat /\ DOMAIN ands = 1 .. Len(ands)
      BY SeqFacts DEF Joining
    <2>2. DOMAIN outcomes = 1 .. Len(ands) /\ outcomes = [i \in 1 .. Len(ands) |-> outcomes[i]]
      BY <2>1
    <2>3. ASSUME NEW i \in DOMAIN ands
          PROVE  IsResult(CrossPredict(r, ands[i]))
      <3>1. ands # << >>
        OBVIOUS
      <3>2. r.records # << >>
        BY <3>1, PartEmpty
      <3> QED
        BY <3>2, <1>1 DEF CrossPredict, Joining
    <2> HIDE DEF outcomes
    <2>4. IsSeq(outcomes)
      BY <2>1, <2>2, MakeSeq
    <2> QED
      BY <2>3, <2>4 DEF outcomes
  <1>3. Filter(r, ands) = Result(N, Chosen(s, I))
    <2> HIDE DEF outcomes, I
    <2>1. FirstFailure(outcomes, Result(N, Chosen(s, I))) = Result(N, Chosen(s, I))
      BY <1>2, FirstGood
    <2> QED
      BY <2>1, <1>1 DEF Filter, outcomes, I
  <1>4. \A k \in DOMAIN s, g \in S : s[k] = val[g] => (k \in I <=> g \in T)
    <2> SUFFICES ASSUME NEW k \in DOMAIN s, NEW g \in S, s[k] = val[g]
                 PROVE  k \in I <=> g \in T
      OBVIOUS
    <2>1. \A i \in DOMAIN ands : Passes(ands[i], s[k]) <=> Holds(g, ands[i])
      <3> TAKE i \in DOMAIN ands
      <3> DEFINE e == ands[i]
      <3>1. e.rhsAttr # NoAttr /\ e.name \in N /\ e.rhsAttr \in N /\ g \in Combos(W)
        BY <1>1 DEF Joining
      <3> HIDE DEF e
      <3>2. Passes(e, Tuples(W, N)[g]) <=> Holds(g, e)
        BY <3>1, PassesHolds
      <3> QED
        BY <3>2 DEF e
    <2> QED
      BY <2>1
  <1>5. I \in SUBSET DOMAIN s /\ T \in SUBSET S
    OBVIOUS
  <1> HIDE DEF I, T, s, val
  <1>6. IsSeq(Chosen(s, I)) /\ Shows(Chosen(s, I), T, val)
    BY <1>1, <1>4, <1>5, ShowsChosen
  <1>7. T \subseteq Combos(W)
    BY <1>1, <1>5
  <1>8. /\ IsResult(Result(N, Chosen(s, I))) /\ Result(N, Chosen(s, I)).names = N
        /\ Result(N, Chosen(s, I)).records = Chosen(s, I)
    BY DEF Result, IsResult
  <1>9. IsPart(Filter(r, ands), W, N, T)
    BY <1>1, <1>3, <1>6, <1>7, <1>8 DEF IsPart, val
  <1> QED
    BY <1>9 DEF T

\* It ends at a condition on a result without records.
LEMMA FilterEmpty ==
    ASSUME NEW r, NEW W, NEW N, IsPart(r, W, N, {}), NEW ands, Joining(N, ands), ands # << >>
    PROVE  ~IsResult(Filter(r, ands))
  <1> DEFINE outcomes == [i \in DOMAIN ands |-> CrossPredict(r, ands[i])]
  <1>1. Len(ands) \in Nat /\ DOMAIN ands = 1 .. Len(ands) /\ ands \in Seq(Range(ands))
    BY SeqFacts DEF Joining, IsSeq
  <1>2. 1 \in DOMAIN ands
    BY <1>1, EmptySeq
  <1>3. r.records = << >>
    BY PartEmpty
  <1>4. ~IsResult(CrossPredict(r, ands[1]))
    BY <1>3 DEF CrossPredict, Error, Dies, IsResult
  <1>5. IsSeq(outcomes)
    <2>1. DOMAIN outcomes = 1 .. Len(ands) /\ outcomes = [i \in 1 .. Len(ands) |-> outcomes[i]]
      BY <1>1
    <2> HIDE DEF outcomes
    <2> QED
      BY <1>1, <2>1, MakeSeq
  <1>6. 1 \in DOMAIN outcomes /\ ~IsResult(outcomes[1])
    BY <1>2, <1>4
  <1> HIDE DEF outcomes
  <1>7. \A good : ~IsResult(FirstFailure(outcomes, good))
    BY <1>5, <1>6, FirstBad
  <1> QED
    BY <1>7 DEF Filter, outcomes

\* The conditions that the join with V of a result over W makes applicable.
NewConditions(q, W, V, ands) ==
    /\ IsSeq(ands)
    /\ \A k \in DOMAIN ands : \E i \in DOMAIN q.ands :
          /\ ands[k] = q.ands[i] /\ q.ands[i].rhsAttr # NoAttr
          /\ Needs(q.ands[i]) \subseteq W \cup V
    /\ \A i \in DOMAIN q.ands :
          Needs(q.ands[i]) \subseteq W \cup V =>
             \/ Needs(q.ands[i]) \subseteq W \/ Needs(q.ands[i]) \subseteq V
             \/ \E k \in DOMAIN ands : ands[k] = q.ands[i]

LEMMA NewJoining ==
    ASSUME NEW q, Clear(q), NEW W, NEW V, NEW ands, NewConditions(q, W, V, ands)
    PROVE  Joining(Names(q, W \cup V), ands)
  <1> SUFFICES ASSUME NEW k \in DOMAIN ands
               PROVE  LET e == ands[k] IN
                      /\ e.rhsAttr # NoAttr
                      /\ e.name \in Names(q, W \cup V) /\ e.rhsAttr \in Names(q, W \cup V)
                      /\ Type(e.name) = Type(e.rhsAttr) /\ e.op \in Comparisons
    BY DEF Joining, NewConditions
  <1> PICK i \in DOMAIN q.ands : /\ ands[k] = q.ands[i] /\ q.ands[i].rhsAttr # NoAttr
                                 /\ Needs(q.ands[i]) \subseteq W \cup V
    BY DEF NewConditions
  <1> DEFINE X == W \cup V
  <1>1. q.ands[i].name[1] \in X /\ q.ands[i].rhsAttr[1] \in X
    BY DEF Needs
  <1> HIDE DEF X
  <1>2. q.ands[i].name \in Names(q, X) /\ q.ands[i].rhsAttr \in Names(q, X)
    BY <1>1, NamesKnown
  <1> QED
    BY <1>2 DEF X, Clear, Sound

LEMMA BothWithin ==
    ASSUME NEW q, NEW W, NEW V, NEW ands, NewConditions(q, W, V, ands)
    PROVE  {g \in Both(W \cup V, W, Within(q, W), V, Within(q, V)) :
                \A k \in DOMAIN ands : Holds(g, ands[k])} = Within(q, W \cup V)
  <1> DEFINE X == W \cup V
  <1>1. W \subseteq X /\ V \subseteq X
    OBVIOUS
  <1>2. \A k \in DOMAIN ands : \E i \in DOMAIN q.ands :
          ands[k] = q.ands[i] /\ Needs(q.ands[i]) \subseteq X
    BY DEF NewConditions
  <1>3. \A i \in DOMAIN q.ands :
          Needs(q.ands[i]) \subseteq X =>
             \/ Needs(q.ands[i]) \subseteq W \/ Needs(q.ands[i]) \subseteq V
             \/ \E k \in DOMAIN ands : ands[k] = q.ands[i]
    BY DEF NewConditions
  <1> HIDE DEF X
  <1>4. ASSUME NEW g \in Within(q, X)
        PROVE  /\ g \in Both(X, W, Within(q, W), V, Within(q, V))
               /\ \A k \in DOMAIN ands : Holds(g, ands[k])
    <2>1. Restrict(g, W) \in Within(q, W) /\ Restrict(g, V) \in Within(q, V)
      BY <1>1, <1>4, RestrictWithin
    <2>2. g \in Combos(X)
      BY <1>4 DEF Within
    <2> QED
      BY <2>1, <2>2, <1>2, <1>4 DEF Both, Within
  <1>5. ASSUME NEW g \in Both(X, W, Within(q, W), V, Within(q, V)),
               \A k \in DOMAIN ands : Holds(g, ands[k]),
               NEW i \in DOMAIN q.ands, Needs(q.ands[i]) \subseteq X
        PROVE  Holds(g, q.ands[i])
    <2>1. g \in Combos(X) /\ Restrict(g, W) \in Within(q, W) /\ Restrict(g, V) \in Within(q, V)
      BY <1>5 DEF Both
    <2>2. CASE Needs(q.ands[i]) \subseteq W
      <3>1. Holds(Restrict(g, W), q.ands[i])
        BY <2>1, <2>2 DEF Within
      <3> QED
        BY <3>1, <2>1, <2>2, <1>1, HoldsRestrict
    <2>3. CASE Needs(q.ands[i]) \subseteq V
      <3>1. Holds(Restrict(g, V), q.ands[i])
        BY <2>1, <2>3 DEF Within
      <3> QED
        BY <3>1, <2>1, <2>3, <1>1, HoldsRestrict
    <2>4. CASE \E k \in DOMAIN ands : ands[k] = q.ands[i]
      BY <2>4, <1>5
    <2> QED
      BY <2>2, <2>3, <2>4, <1>3, <1>5
  <1>6. \A g \in Both(X, W, Within(q, W), V, Within(q, V)) : g \in Combos(X)
    BY DEF Both
  <1>7. {g \in Both(X, W, Within(q, W), V, Within(q, V)) :
             \A k \in DOMAIN ands : Holds(g, ands[k])} \subseteq Within(q, X)
    BY <1>5, <1>6 DEF Within
  <1>8. Within(q, X) \subseteq {g \in Both(X, W, Within(q, W), V, Within(q, V)) :
                                    \A k \in DOMAIN ands : Holds(g, ands[k])}
    BY <1>4
  <1>9. {g \in Both(X, W, Within(q, W), V, Within(q, V)) :
             \A k \in DOMAIN ands : Holds(g, ands[k])} = Within(q, X)
    BY <1>7, <1>8
  <1> QED
    BY <1>9 DEF X

\* One turn of the loop of selectFromMany, and the end of a join by a key.
LEMMA JoinWithin ==
    ASSUME NEW q, Clear(q), NEW W, NEW V, W \cap V = {},
           NEW a, IsPart(a, W, Names(q, W), Within(q, W)),
           NEW b, IsPart(b, V, Names(q, V), Within(q, V)),
           NEW ands, NewConditions(q, W, V, ands)
    PROVE  IF IsResult(Filter(Join(a, b), ands))
           THEN IsPart(Filter(Join(a, b), ands), W \cup V, Names(q, W \cup V), Within(q, W \cup V))
           ELSE Within(q, W \cup V) = {}
  <1> DEFINE X == W \cup V
             N == Names(q, X)
             K == Both(X, W, Within(q, W), V, Within(q, V))
             T == {g \in K : \A k \in DOMAIN ands : Holds(g, ands[k])}
             r == Join(a, b)
  <1>1. Sides(W, Names(q, W), V, Names(q, V), X, N)
    BY NamesSides
  <1>2. IsPart(r, X, N, K)
    <2> HIDE DEF X, N
    <2> QED
      BY <1>1, JoinPart
  <1>3. T = Within(q, X)
    BY BothWithin
  <1>4. Joining(N, ands)
    BY NewJoining
  <1> HIDE DEF X, N, K, r
  <1>5. CASE ands = << >> \/ K # {}
    <2>1. IsPart(Filter(r, ands), X, N, T)
      BY <1>2, <1>4, <1>5, FilterPart
    <2>2. IsPart(Filter(r, ands), X, N, Within(q, X)) /\ IsResult(Filter(r, ands))
      BY <2>1, <1>3 DEF IsPart
    <2> QED
      BY <2>2 DEF X, N, r
  <1>6. CASE ands # << >> /\ K = {}
    <2>1. ~IsResult(Filter(r, ands))
      BY <1>2, <1>4, <1>6, FilterEmpty
    <2>2. Within(q, X) = {}
      BY <1>3, <1>6
    <2> QED
      BY <2>1, <2>2 DEF X, r
  <1> QED
    BY <1>5, <1>6
-----------------------------------------------------------------------------
(* selectFromMany.                                                            *)
Picks(W, selects) == [g \in Combos(W) |-> [j \in DOMAIN selects |-> Value(g, selects[j])]]

\* The outcome r of a join is what q means; without one, q means nothing.
Answers(q, r) ==
    IF IsResult(r)
    THEN IsInjective(q.selects) =>
            /\ IsSeq(r.records)
            /\ Shows(r.records, Within(q, Range(q.froms)), Picks(Range(q.froms), q.selects))
    ELSE Within(q, Range(q.froms)) = {}

LEMMA SelectsNamed ==
    ASSUME NEW q, Clear(q), NEW j \in DOMAIN q.selects
    PROVE  q.selects[j] \in Names(q, Range(q.froms))
  <1> DEFINE n == q.selects[j]
  <1>1. n # NoAttr /\ n = <<n[1], n[2]>> /\ n[1] \in Range(q.froms)
    BY DEF Clear, Proper
  <1>2. n[2] \in ColumnsFor(q, n[1])
    BY <1>1 DEF ColumnsFor, Range
  <1>3. <<n[1], n[2]>> \in {n[1]} \X ColumnsFor(q, n[1])
    BY <1>2
  <1> QED
    BY <1>1, <1>3 DEF Names

LEMMA ProjectAnswers ==
    ASSUME NEW q, Clear(q), NEW r,
           IsPart(r, Range(q.froms), Names(q, Range(q.froms)), Within(q, Range(q.froms)))
    PROVE  IsResult(Project(r, q.selects)) /\ Answers(q, Project(r, q.selects))
  <1> DEFINE W == Range(q.froms)
             N == Names(q, W)
             S == Within(q, W)
             selects == q.selects
             from == Tuples(W, N)
             to == Picks(W, selects)
             s == r.records
             t == [i \in DOMAIN s |-> Moved(s[i], selects)]
             same == [g \in S |-> g]
  <1>1. r.names = N /\ IsSeq(s) /\ S \subseteq Combos(W) /\ Shows(s, S, from)
    BY DEF IsPart
  <1>2. \A j \in DOMAIN selects : selects[j] \in N
    BY SelectsNamed
  <1>3. Project(r, selects) = Result(Range(selects), t)
    BY <1>1, <1>2 DEF Project, Range
  <1>4. /\ IsResult(Project(r, selects))
        /\ Project(r, selects).records = t
    BY <1>3 DEF Result, IsResult
  <1>5. ASSUME IsInjective(selects)
        PROVE  IsSeq(t) /\ Shows(t, S, to)
    <2>1. Len(s) \in Nat /\ DOMAIN s = 1 .. Len(s)
      BY <1>1, SeqFacts
    <2>2. IsSeq(t)
      <3>1. DOMAIN t = 1 .. Len(s) /\ t = [i \in 1 .. Len(s) |-> t[i]]
        BY <2>1
      <3> HIDE DEF t
      <3> QED
        BY <2>1, <3>1, MakeSeq
    <2>3. IsSeq(selects)
      BY DEF Clear
    <2>4. Len(selects) \in Nat /\ DOMAIN selects = 1 .. Len(selects)
      BY <2>3, SeqFacts
    <2>5. \A record : Moved(record, selects) = [j \in DOMAIN selects |-> record[selects[j]]]
      <3>1. \A j \in DOMAIN selects : ~ \E k \in 1 .. j - 1 : selects[k] = selects[j]
        <4> SUFFICES ASSUME NEW j \in DOMAIN selects, NEW k \in 1 .. j - 1, selects[k] = selects[j]
                     PROVE  FALSE
          OBVIOUS
        <4>1. j \in 1 .. Len(selects) /\ k \in 1 .. Len(selects) /\ k # j
          BY <2>4
        <4> QED
          BY <4>1, <2>4, <1>5 DEF IsInjective
      <3> QED
        BY <3>1 DEF Moved
    <2>6. \A i \in DOMAIN s, g \in S : s[i] = from[g] => t[i] = to[same[g]]
      <3> SUFFICES ASSUME NEW i \in DOMAIN s, NEW g \in S, s[i] = from[g]
                   PROVE  t[i] = to[g]
        OBVIOUS
      <3>1. g \in Combos(W)
        BY <1>1
      <3>2. from[g] = [n \in N |-> Value(g, n)]
        BY <3>1 DEF Tuples
      <3>3. to[g] = [j \in DOMAIN selects |-> Value(g, selects[j])]
        BY <3>1 DEF Picks
      <3>4. t[i] = [j \in DOMAIN selects |-> from[g][selects[j]]]
        BY <2>5
      <3> HIDE DEF selects, from, to, t, s, N
      <3>5. \A j \in DOMAIN selects : from[g][selects[j]] = Value(g, selects[j])
        BY <1>2, <3>2
      <3> QED
        BY <3>3, <3>4, <3>5
    <2>7. /\ same \in [S -> S] /\ DOMAIN t = DOMAIN s
          /\ \A x, y \in S : same[x] = same[y] => x = y
          /\ \A y \in S : \E x \in S : same[x] = y
      OBVIOUS
    <2> HIDE DEF t, s, from, to, same, S
    <2>8. Renames(same, s, S, from, t, S, to)
      BY <2>6, <2>7 DEF Renames
    <2> QED
      BY <1>1, <2>2, <2>8, ShowsRenamed
  <1> QED
    BY <1>4, <1>5 DEF Answers

\* The conditions of two columns that wait for a table.
RestOf(q, W, rest) ==
    /\ IsSeq(rest)
    /\ \A k \in DOMAIN rest : \E i \in DOMAIN q.ands :
          /\ rest[k] = q.ands[i] /\ q.ands[i].rhsAttr # NoAttr
          /\ ~(Needs(q.ands[i]) \subseteq W)
    /\ \A i \in DOMAIN q.ands :
          /\ q.ands[i].rhsAttr # NoAttr /\ ~(Needs(q.ands[i]) \subseteq W)
          => \E k \in DOMAIN rest : rest[k] = q.ands[i]

Joined(q, W, r) ==
    IF IsResult(r.part)
    THEN IsPart(r.part, W, Names(q, W), Within(q, W)) /\ RestOf(q, W, r.rest)
    ELSE Within(q, W) = {}

LEMMA JoinedNext ==
    ASSUME NEW q, Clear(q), NEW W, NEW V, W \cap V = {}, \E t : V = {t},
           NEW r, Joined(q, W, r), NEW b, IsPart(b, V, Names(q, V), Within(q, V))
    PROVE  Joined(q, W \cup V, JoinNext(r, b))
  <1> DEFINE X == W \cup V
  <1>0. W \subseteq X
    OBVIOUS
  <1>1. CASE ~IsResult(r.part)
    <2>1. Within(q, W) = {}
      BY <1>1 DEF Joined
    <2>2. Within(q, X) = {}
      <3> HIDE DEF X
      <3> QED
        BY <1>0, <2>1, RestrictWithin
    <2>3. JoinNext(r, b) = r
      BY <1>1 DEF JoinNext
    <2> QED
      BY <1>1, <2>2, <2>3 DEF Joined
  <1>2. CASE IsResult(r.part)
    <2> DEFINE a == r.part
               rest == r.rest
               both == Join(a, b)
               now == {i \in DOMAIN rest : Applies(both, rest[i])}
               ands == Chosen(rest, now)
               left == Chosen(rest, DOMAIN rest \ now)
    <2>1. IsPart(a, W, Names(q, W), Within(q, W)) /\ RestOf(q, W, rest)
      BY <1>2 DEF Joined
    <2>2. JoinNext(r, b) = [part |-> Filter(both, ands), rest |-> left]
      BY <1>2 DEF JoinNext
    <2>3. both.names = Names(q, X)
      <3>1. Sides(W, Names(q, W), V, Names(q, V), X, Names(q, X))
        BY NamesSides
      <3>2. a.names = Names(q, W) /\ b.names = Names(q, V)
        BY <2>1 DEF IsPart
      <3> QED
        BY <3>1, <3>2 DEF Sides, Join, Result
    <2> HIDE DEF a, rest, both, X
    <2>4. \A i \in DOMAIN q.ands :
             q.ands[i].rhsAttr # NoAttr =>
                (Applies(both, q.ands[i]) <=> Needs(q.ands[i]) \subseteq X)
      BY <2>3, NamesKnown DEF Applies, Needs
    <2>5. /\ IsSeq(ands)
          /\ \A k \in DOMAIN ands : \E i \in now : ands[k] = rest[i]
          /\ \A i \in now : \E k \in DOMAIN ands : ands[k] = rest[i]
      <3>1. IsSeq(rest) /\ now \in SUBSET DOMAIN rest
        BY <2>1 DEF RestOf
      <3> HIDE DEF now
      <3> QED
        BY <3>1, ChosenRange
    <2>6. /\ IsSeq(left)
          /\ \A k \in DOMAIN left : \E i \in DOMAIN rest \ now : left[k] = rest[i]
          /\ \A i \in DOMAIN rest \ now : \E k \in DOMAIN left : left[k] = rest[i]
      <3> DEFINE later == DOMAIN rest \ now
      <3>1. IsSeq(rest) /\ later \in SUBSET DOMAIN rest
        BY <2>1 DEF RestOf
      <3> HIDE DEF later
      <3>2. /\ IsSeq(Chosen(rest, later))
            /\ \A k \in DOMAIN Chosen(rest, later) : \E i \in later : Chosen(rest, later)[k] = rest[i]
            /\ \A i \in later : \E k \in DOMAIN Chosen(rest, later) : Chosen(rest, later)[k] = rest[i]
        BY <3>1, ChosenRange
      <3> QED
        BY <3>2 DEF later
    <2> HIDE DEF ands, left
    <2>7. \A k \in now : \E i \in DOMAIN q.ands :
             /\ rest[k] = q.ands[i] /\ q.ands[i].rhsAttr # NoAttr
             /\ Needs(q.ands[i]) \subseteq X
      BY <2>1, <2>4 DEF RestOf
    <2>8. \A k \in DOMAIN rest \ now : \E i \in DOMAIN q.ands :
             /\ rest[k] = q.ands[i] /\ q.ands[i].rhsAttr # NoAttr
             /\ ~(Needs(q.ands[i]) \subseteq X)
      BY <2>1, <2>4 DEF RestOf
    <2>9. ASSUME NEW i \in DOMAIN q.ands, q.ands[i].rhsAttr # NoAttr,
                 ~(Needs(q.ands[i]) \subseteq W)
          PROVE  IF Needs(q.ands[i]) \subseteq X
                 THEN \E k \in now : rest[k] = q.ands[i]
                 ELSE \E k \in DOMAIN rest \ now : rest[k] = q.ands[i]
      <3>1. PICK k \in DOMAIN rest : rest[k] = q.ands[i]
        BY <2>1, <2>9 DEF RestOf
      <3>2. k \in now <=> Needs(q.ands[i]) \subseteq X
        BY <2>4, <2>9, <3>1
      <3> HIDE DEF now
      <3> QED
        BY <3>1, <3>2
    <2> HIDE DEF now
    <2>10. \A i \in DOMAIN q.ands : q.ands[i].rhsAttr = NoAttr =>
              (Needs(q.ands[i]) \subseteq X =>
                  Needs(q.ands[i]) \subseteq W \/ Needs(q.ands[i]) \subseteq V)
      BY DEF Needs, X
    <2>11. NewConditions(q, W, V, ands)
      <3>1. \A k \in DOMAIN ands : \E i \in DOMAIN q.ands :
               /\ ands[k] = q.ands[i] /\ q.ands[i].rhsAttr # NoAttr
               /\ Needs(q.ands[i]) \subseteq X
        BY <2>5, <2>7
      <3>2. \A i \in DOMAIN q.ands :
               Needs(q.ands[i]) \subseteq X =>
                  \/ Needs(q.ands[i]) \subseteq W \/ Needs(q.ands[i]) \subseteq V
                  \/ \E k \in DOMAIN ands : ands[k] = q.ands[i]
        BY <2>5, <2>9, <2>10
      <3> QED
        BY <2>5, <3>1, <3>2 DEF NewConditions, X
    <2>12. RestOf(q, X, left)
      <3>1. \A k \in DOMAIN left : \E i \in DOMAIN q.ands :
               /\ left[k] = q.ands[i] /\ q.ands[i].rhsAttr # NoAttr
               /\ ~(Needs(q.ands[i]) \subseteq X)
        BY <2>6, <2>8
      <3>2. \A i \in DOMAIN q.ands :
               /\ q.ands[i].rhsAttr # NoAttr /\ ~(Needs(q.ands[i]) \subseteq X)
               => \E k \in DOMAIN left : left[k] = q.ands[i]
        BY <1>0, <2>6, <2>9
      <3> QED
        BY <2>6, <3>1, <3>2 DEF RestOf
    <2>13. IF IsResult(Filter(both, ands))
           THEN IsPart(Filter(both, ands), X, Names(q, X), Within(q, X))
           ELSE Within(q, X) = {}
      <3>1. IF IsResult(Filter(Join(a, b), ands))
            THEN IsPart(Filter(Join(a, b), ands), W \cup V, Names(q, W \cup V), Within(q, W \cup V))
            ELSE Within(q, W \cup V) = {}
        BY <2>1, <2>11, JoinWithin
      <3> QED
        BY <3>1 DEF both, X
    <2>14. Joined(q, X, JoinNext(r, b))
      BY <2>2, <2>12, <2>13 DEF Joined
    <2> QED
      BY <2>14 DEF X
  <1> QED
    BY <1>1, <1>2
\* The parts in the order of their sizes: each has one place.
LEMMA SortedParts ==
    ASSUME NEW parts, IsSeq(parts), \A i \in DOMAIN parts : Len(parts[i].records) \in Nat
    PROVE  \E p \in [DOMAIN parts -> DOMAIN parts] :
              /\ \A k, l \in DOMAIN parts : p[k] = p[l] => k = l
              /\ \A i \in DOMAIN parts : \E k \in DOMAIN parts : p[k] = i
              /\ \A k \in DOMAIN parts :
                    p[k] = CHOOSE i \in DOMAIN parts :
                              Cardinality({j \in DOMAIN parts :
                                 \/ Len(parts[j].records) < Len(parts[i].records)
                                 \/ Len(parts[j].records) = Len(parts[i].records) /\ j < i}) = k - 1
  <1> DEFINE n == Len(parts)
             I == DOMAIN parts
             Size(i) == Len(parts[i].records)
             Before(j, i) == Size(j) < Size(i) \/ (Size(j) = Size(i) /\ j < i)
             Below(i) == {j \in I : Before(j, i)}
             p == [k \in I |-> CHOOSE i \in I : Cardinality(Below(i)) = k - 1]
             R == {x \in I \X I : Before(x[1], x[2])}
  <1>1. n \in Nat /\ I = 1 .. n
    BY SeqFacts
  <1>2. IsFiniteSet(I) /\ Cardinality(I) = n
    <2>1. /\ IsFiniteSet(1 .. n)
          /\ Cardinality(1 .. n) = IF 1 > n THEN 0 ELSE n - 1 + 1
      BY <1>1, FS_Interval
    <2> QED
      BY <1>1, <2>1
  <1>3. \A i \in I : Size(i) \in Nat /\ i \in Nat
    BY <1>1
  <1>4. \A i, j \in I : <<j, i>> \in R <=> Before(j, i)
    OBVIOUS
  <1> HIDE DEF Size, R
  <1>5. \A i \in I : Below(i) = {j \in I : <<j, i>> \in R}
    BY <1>4
  <1>6. /\ \A i \in I : <<i, i>> \notin R
        /\ \A i, j \in I : i # j => <<i, j>> \in R \/ <<j, i>> \in R
    BY <1>3, <1>4
  <1>7. \A i, j, k \in I : <<i, j>> \in R /\ <<j, k>> \in R => <<i, k>> \in R
    <2> SUFFICES ASSUME NEW i \in I, NEW j \in I, NEW k \in I, Before(i, j), Before(j, k)
                 PROVE  Before(i, k)
      BY <1>4
    <2>1. /\ Size(i) \in Nat /\ Size(j) \in Nat /\ Size(k) \in Nat
          /\ i \in Nat /\ j \in Nat /\ k \in Nat
      BY <1>3
    <2> QED
      BY <2>1
  <1>0. /\ \A i \in I : <<i, i>> \notin R
        /\ \A i, j \in I : i # j => <<i, j>> \in R \/ <<j, i>> \in R
        /\ \A i, j, k \in I : <<i, j>> \in R /\ <<j, k>> \in R => <<i, k>> \in R
    BY <1>6, <1>7
  <1>8. /\ Cardinality(I) \in Nat
        /\ \A k \in 1 .. Cardinality(I) :
             \E i \in I : Cardinality({j \in I : <<j, i>> \in R}) = k - 1
        /\ \A i \in I : Cardinality({j \in I : <<j, i>> \in R}) + 1 \in 1 .. Cardinality(I)
        /\ \A i, h \in I : Cardinality({j \in I : <<j, i>> \in R})
                             = Cardinality({j \in I : <<j, h>> \in R}) => i = h
    <2> HIDE DEF I
    <2> QED
      BY <1>2, <1>0, Places
  <1>9. /\ \A k \in I : \E i \in I : Cardinality(Below(i)) = k - 1
        /\ \A i \in I : Cardinality(Below(i)) + 1 \in I
        /\ \A i, h \in I : Cardinality(Below(i)) = Cardinality(Below(h)) => i = h
    <2>1. Cardinality(I) = n
      BY <1>2
    <2> HIDE DEF Below
    <2> QED
      BY <1>1, <1>5, <1>8, <2>1
  <1> HIDE DEF Below
  <1>10. \A k \in I : p[k] \in I /\ Cardinality(Below(p[k])) = k - 1
    BY <1>9
  <1>11. p \in [I -> I]
    BY <1>10
  <1>12. \A k, l \in I : p[k] = p[l] => k = l
    <2> TAKE k, l \in I
    <2> HAVE p[k] = p[l]
    <2>1. k - 1 = l - 1
      BY <1>10
    <2> QED
      BY <2>1, <1>1
  <1>13. \A i \in I : \E k \in I : p[k] = i
    <2> TAKE i \in I
    <2> DEFINE k == Cardinality(Below(i)) + 1
    <2>1. k \in I
      BY <1>9
    <2>2. IsFiniteSet(Below(i)) /\ Cardinality(Below(i)) \in Nat
      BY <1>2, FS_Subset, FS_CardinalityType DEF Below
    <2>3. Cardinality(Below(i)) = k - 1
      BY <2>2
    <2>4. p[k] = i
      BY <2>1, <2>3, <1>9, <1>10
    <2> QED
      BY <2>1, <2>4
  <1> QED
    BY <1>11, <1>12, <1>13, Zenon DEF Below, Size

\* The loop is what its recursion says.
IsLoop(f, D, s, c) ==
    f = [k \in D |-> IF k = 1 THEN [part |-> s[1], rest |-> c] ELSE JoinNext(f[k - 1], s[k])]

LEMMA LoopDefined ==
    ASSUME NEW n \in Nat, NEW s, NEW c
    PROVE  \E f : IsLoop(f, 1 .. n, s, c)
  <1> DEFINE First == [part |-> s[1], rest |-> c]
             Turns(f, k) == f = [i \in 1 .. k |-> IF i = 1 THEN First
                                                  ELSE JoinNext(f[i - 1], s[i])]
             G == {k \in 1 .. n : \E f : Turns(f, k)}
  <1> HIDE DEF First
  <1>1. CASE n = 0
    <2>1. Turns([i \in 1 .. 0 |-> First], 0)
      BY 1 .. 0 = {}
    <2> QED
      BY <1>1, <2>1 DEF First, IsLoop
  <1>2. CASE n # 0
    <2>1. 1 \in G
      <3> DEFINE f == [i \in 1 .. 1 |-> First]
      <3>1. f = [i \in 1 .. 1 |-> IF i = 1 THEN First ELSE JoinNext(f[i - 1], s[i])]
        OBVIOUS
      <3>2. 1 \in 1 .. n
        BY <1>2
      <3> QED
        BY <3>1, <3>2
    <2>2. ASSUME NEW k \in 1 .. n - 1, k \in G PROVE k + 1 \in G
      <3>1. k \in Nat /\ k + 1 \in 1 .. n
        OBVIOUS
      <3>2. PICK f : Turns(f, k)
        BY <2>2
      <3> DEFINE g == [i \in 1 .. k + 1 |-> IF i = k + 1 THEN JoinNext(f[k], s[k + 1]) ELSE f[i]]
      <3>3. ASSUME NEW i \in 1 .. k + 1
            PROVE  g[i] = IF i = 1 THEN First ELSE JoinNext(g[i - 1], s[i])
        <4>1. CASE i = k + 1
          <5>1. i # 1 /\ i - 1 = k /\ k \in 1 .. k + 1 /\ k # k + 1
            BY <4>1, <3>1, <2>2
          <5>2. g[i] = JoinNext(f[k], s[k + 1]) /\ g[k] = f[k]
            BY <4>1, <5>1
          <5> QED
            BY <4>1, <5>1, <5>2
        <4>2. CASE i # k + 1
          <5>1. i \in 1 .. k /\ g[i] = f[i] /\ (i # 1 => i - 1 \in 1 .. k + 1 /\ i - 1 # k + 1)
            BY <4>2, <3>1
          <5>2. i # 1 => g[i - 1] = f[i - 1]
            BY <5>1
          <5>3. f[i] = IF i = 1 THEN First ELSE JoinNext(f[i - 1], s[i])
            BY <3>2, <5>1
          <5> QED
            BY <5>1, <5>2, <5>3
        <4> QED
          BY <4>1, <4>2
      <3>4. Turns(g, k + 1)
        <4>1. g = [i \in 1 .. k + 1 |-> g[i]]
          OBVIOUS
        <4> HIDE DEF g
        <4> QED
          BY <4>1, <3>3
      <3> HIDE DEF g, Turns
      <3> QED
        BY <3>1, <3>4
    <2> HIDE DEF G
    <2>3. 1 .. n \subseteq G
      BY <2>1, <2>2, InductionTo
    <2>4. n \in 1 .. n
      BY <1>2
    <2>5. \E f : Turns(f, n)
      BY <2>3, <2>4 DEF G
    <2> QED
      BY <2>5 DEF First, IsLoop
  <1> QED
    BY <1>1, <1>2
LEMMA ManyAnswers ==
    ASSUME NEW q, Clear(q), Len(q.froms) # 0, \A t \in Tables : IsSeq(rows[t])
    PROVE  Answers(q, SelectFromMany(q))
  <1> DEFINE n == Len(q.froms)
             All == Range(q.froms)
             parts == [i \in DOMAIN q.froms |-> SelectOne(q, q.froms[i])]
             One(i) == {q.froms[i]}
             cross == CrossConditions(q)
  <1>1. n \in Nat /\ DOMAIN q.froms = 1 .. n /\ 1 \in 1 .. n /\ n \in 1 .. n
    BY SeqFacts DEF Clear
  <1>2. \A i \in 1 .. n : q.froms[i] \in All /\ IsSeq(rows[q.froms[i]])
    BY <1>1 DEF Clear, Range
  <1>3. \A i \in 1 .. n : IsPart(parts[i], One(i), Names(q, One(i)), Within(q, One(i)))
    <2> TAKE i \in 1 .. n
    <2> DEFINE t == q.froms[i]
    <2>1. t \in Range(q.froms) /\ IsSeq(rows[t])
      BY <1>2
    <2>2. parts[i] = SelectOne(q, t)
      BY <1>1
    <2> HIDE DEF t, parts
    <2>3. IsPart(SelectOne(q, t), {t}, Names(q, {t}), Within(q, {t}))
      BY <2>1, OnePart
    <2> QED
      BY <2>2, <2>3 DEF t
  <1>4. IsSeq(parts) /\ Len(parts) = n /\ DOMAIN parts = 1 .. n
    <2>1. DOMAIN parts = 1 .. n /\ parts = [i \in 1 .. n |-> parts[i]]
      BY <1>1
    <2> HIDE DEF parts
    <2> QED
      BY <1>1, <2>1, MakeSeq
  <1> HIDE DEF parts, n, One
  <1>5. \A i \in 1 .. n : IsResult(parts[i]) /\ Len(parts[i].records) \in Nat
    <2> TAKE i \in 1 .. n
    <2>1. IsResult(parts[i]) /\ IsSeq(parts[i].records)
      BY <1>3 DEF IsPart
    <2> QED
      BY <2>1, SeqFacts
  <1>6. PICK p \in [DOMAIN parts -> DOMAIN parts] :
              /\ \A k, l \in DOMAIN parts : p[k] = p[l] => k = l
              /\ \A i \in DOMAIN parts : \E k \in DOMAIN parts : p[k] = i
              /\ \A k \in DOMAIN parts :
                    p[k] = CHOOSE i \in DOMAIN parts :
                              Cardinality({j \in DOMAIN parts :
                                 \/ Len(parts[j].records) < Len(parts[i].records)
                                 \/ Len(parts[j].records) = Len(parts[i].records) /\ j < i}) = k - 1
    <2>1. \A i \in DOMAIN parts : Len(parts[i].records) \in Nat
      BY <1>4, <1>5
    <2> QED
      BY <1>4, <2>1, SortedParts
  <1> DEFINE D == DOMAIN parts
             sorted == [k \in D |->
                          parts[CHOOSE i \in D :
                              Cardinality({j \in D :
                                 \/ Len(parts[j].records) < Len(parts[i].records)
                                 \/ Len(parts[j].records) = Len(parts[i].records) /\ j < i}) = k - 1]]
             joined == CHOOSE f : f = [k \in D |-> IF k = 1 THEN [part |-> sorted[1], rest |-> cross]
                                                  ELSE JoinNext(f[k - 1], sorted[k])]
             last == joined[Len(parts)]
  <1>7. IsLoop(joined, 1 .. n, sorted, cross)
    <2>1. \E f : IsLoop(f, 1 .. n, sorted, cross)
      <3> HIDE DEF sorted, cross
      <3> QED
        BY <1>1, LoopDefined
    <2>2. D = 1 .. n
      BY <1>4
    <2> HIDE DEF sorted, cross, D
    <2>3. IsLoop(joined, D, sorted, cross)
      BY <2>1, <2>2 DEF IsLoop
    <2> QED
      BY <2>2, <2>3
  <1>8. SelectFromMany(q) = IF ~IsResult(last.part) THEN last.part
                            ELSE IF last.rest # << >> THEN Error
                            ELSE Project(last.part, q.selects)
    <2>1. ~ \E i \in DOMAIN parts : ~IsResult(parts[i])
      BY <1>4, <1>5
    <2> QED
      BY <2>1 DEF SelectFromMany, parts
  <1> HIDE DEF joined, last
  <1>9. joined[1] = [part |-> sorted[1], rest |-> cross]
    BY <1>1, <1>7 DEF IsLoop
  <1>10. \A k \in 1 .. n - 1 : joined[k + 1] = JoinNext(joined[k], sorted[k + 1])
    <2> TAKE k \in 1 .. n - 1
    <2>1. k + 1 \in 1 .. n /\ k + 1 # 1 /\ (k + 1) - 1 = k
      BY <1>1
    <2> QED
      BY <2>1, <1>7 DEF IsLoop
  <1>11. \A k \in 1 .. n : p[k] \in 1 .. n /\ sorted[k] = parts[p[k]]
    BY <1>4, <1>6
  <1> HIDE DEF sorted, D
  <1> DEFINE W(k) == {q.froms[p[j]] : j \in 1 .. k}
             G == {k \in 1 .. n : Joined(q, W(k), joined[k])}
  <1>12. 1 \in G
    <2>1. W(1) = One(p[1])
      BY 1 .. 1 = {1} DEF One
    <2>2. IsPart(sorted[1], W(1), Names(q, W(1)), Within(q, W(1))) /\ IsResult(sorted[1])
      <3> HIDE DEF W
      <3> QED
        BY <1>1, <1>3, <1>5, <1>11, <2>1
    <2>3. RestOf(q, W(1), cross)
      <3> DEFINE I == {i \in DOMAIN q.ands : q.ands[i].rhsAttr # NoAttr}
      <3>1. cross = Chosen(q.ands, I)
        BY DEF CrossConditions
      <3>2. IsSeq(q.ands) /\ I \in SUBSET DOMAIN q.ands
        BY DEF Clear
      <3> HIDE DEF I
      <3>3. /\ IsSeq(Chosen(q.ands, I))
            /\ \A k \in DOMAIN Chosen(q.ands, I) : \E i \in I : Chosen(q.ands, I)[k] = q.ands[i]
            /\ \A i \in I : \E k \in DOMAIN Chosen(q.ands, I) : Chosen(q.ands, I)[k] = q.ands[i]
        BY <3>2, ChosenRange
      <3>4. \A i \in I : ~(Needs(q.ands[i]) \subseteq W(1))
        <4> SUFFICES ASSUME NEW i \in I, Needs(q.ands[i]) \subseteq One(p[1]) PROVE FALSE
          BY <2>1
        <4>1. i \in DOMAIN q.ands /\ q.ands[i].rhsAttr # NoAttr
          BY DEF I
        <4>2. q.ands[i].name[1] # q.ands[i].rhsAttr[1]
          BY <4>1 DEF Clear, Sound
        <4> QED
          BY <4>1, <4>2 DEF Needs, One
      <3> HIDE DEF W, cross
      <3>5. \A k \in DOMAIN cross : \E i \in DOMAIN q.ands :
               /\ cross[k] = q.ands[i] /\ q.ands[i].rhsAttr # NoAttr
               /\ ~(Needs(q.ands[i]) \subseteq W(1))
        BY <3>1, <3>3, <3>4 DEF I
      <3>6. \A i \in DOMAIN q.ands : q.ands[i].rhsAttr # NoAttr =>
               \E k \in DOMAIN cross : cross[k] = q.ands[i]
        BY <3>1, <3>3 DEF I
      <3> QED
        BY <3>1, <3>3, <3>5, <3>6 DEF RestOf
    <2> HIDE DEF W
    <2>4. Joined(q, W(1), joined[1])
      BY <1>9, <2>2, <2>3 DEF Joined
    <2> QED
      BY <1>1, <2>4
  <1>13. ASSUME NEW k \in 1 .. n - 1, k \in G PROVE k + 1 \in G
    <2>1. k \in Nat /\ k + 1 \in 1 .. n /\ k \in 1 .. n
      BY <1>1
    <2> DEFINE V == One(p[k + 1])
    <2>2. W(k + 1) = W(k) \cup V
      <3>1. 1 .. k + 1 = (1 .. k) \cup {k + 1}
        BY <2>1
      <3> QED
        BY <3>1 DEF One
    <2>3. W(k) \cap V = {}
      <3> SUFFICES ASSUME NEW j \in 1 .. k, q.froms[p[j]] = q.froms[p[k + 1]] PROVE FALSE
        BY DEF One
      <3>1. j \in 1 .. n /\ j # k + 1
        BY <2>1, <1>1
      <3>2. p[j] = p[k + 1]
        BY <3>1, <2>1, <1>1, <1>11 DEF Clear, IsInjective
      <3> QED
        BY <3>1, <3>2, <2>1, <1>4, <1>6
    <2>4. \E t : V = {t}
      BY DEF One
    <2>5. IsPart(sorted[k + 1], V, Names(q, V), Within(q, V))
      BY <2>1, <1>3, <1>11
    <2>6. Joined(q, W(k), joined[k])
      BY <1>13
    <2> HIDE DEF W, V
    <2>7. Joined(q, W(k) \cup V, JoinNext(joined[k], sorted[k + 1]))
      BY <2>3, <2>4, <2>5, <2>6, JoinedNext
    <2>8. Joined(q, W(k + 1), joined[k + 1])
      BY <2>2, <2>7, <1>10
    <2> QED
      BY <2>1, <2>8
  <1> HIDE DEF G
  <1>14. 1 .. n \subseteq G
    BY <1>1, <1>12, <1>13, InductionTo
  <1>15. W(n) = All
    <2>1. \A i \in 1 .. n : \E k \in 1 .. n : p[k] = i
      BY <1>4, <1>6
    <2>2. \A k \in 1 .. n : p[k] \in 1 .. n
      BY <1>11
    <2> QED
      BY <1>1, <2>1, <2>2 DEF Range
  <1>16. Joined(q, All, last)
    BY <1>1, <1>4, <1>14, <1>15 DEF G, last
  <1> HIDE DEF W, All
  <1>17. CASE ~IsResult(last.part)
    <2>1. Within(q, All) = {}
      BY <1>16, <1>17 DEF Joined
    <2> QED
      BY <1>8, <1>17, <2>1 DEF Answers, All
  <1>18. CASE IsResult(last.part)
    <2>1. IsPart(last.part, All, Names(q, All), Within(q, All)) /\ RestOf(q, All, last.rest)
      BY <1>16, <1>18 DEF Joined
    <2>2. \A i \in DOMAIN q.ands : Needs(q.ands[i]) \subseteq All
      BY DEF Clear, Sound, Proper, Needs, All
    <2>3. last.rest = << >>
      <3>1. IsSeq(last.rest) /\ DOMAIN last.rest = {}
        BY <2>1, <2>2 DEF RestOf
      <3>2. Len(last.rest) \in Nat /\ DOMAIN last.rest = 1 .. Len(last.rest)
            /\ last.rest \in Seq(Range(last.rest))
        BY <3>1, SeqFacts DEF IsSeq
      <3>3. \A m \in Nat : 1 .. m = {} => m = 0
        OBVIOUS
      <3>4. Len(last.rest) = 0
        BY <3>1, <3>2, <3>3
      <3> QED
        BY <3>2, <3>4, EmptySeq
    <2>4. SelectFromMany(q) = Project(last.part, q.selects)
      BY <1>8, <1>18, <2>3
    <2>5. Answers(q, Project(last.part, q.selects))
      BY <2>1, ProjectAnswers DEF All
    <2> QED
      BY <2>4, <2>5
  <1> QED
    BY <1>17, <1>18
-----------------------------------------------------------------------------
(* selectFromTwo.                                                             *)
\* The rows of the tables: their keys are there, and ascend.
RowsSound ==
    \A t \in Tables :
        /\ IsSeq(rows[t]) /\ Len(rows[t]) <= MaxRows
        /\ \A k \in DOMAIN rows[t], c \in Columns(t) :
              /\ rows[t][k][c] \in Data[c]
              /\ c \in Schema[t].key =>
                    /\ rows[t][k][c] # Null
                    /\ \A j \in DOMAIN rows[t] : j < k => rows[t][j][c] < rows[t][k][c]

\* The rows of the table of the key that have the value v there.
KeyMet(q, e, v) == {h \in Within(q, {e.name[1]}) : Value(h, e.name) = v}

LEMMA KeyPart ==
    ASSUME NEW q, Clear(q), NEW e, Proper(q, e.name), IsSeq(rows[e.name[1]]), IsCondition(e),
           e.op = "=", Type(e.name) = "INT",
           NEW v \in Int, v # Null, v < FirstText
    PROVE  IsPart(TableSelect(e.name[1], ColumnsFor(q, e.name[1]), KeyConditions(q, e, v)),
                  {e.name[1]}, Names(q, {e.name[1]}), KeyMet(q, e, v))
  <1> DEFINE t == e.name[1]
             own == OwnConditions(q, t)
             key == [e EXCEPT !.rhsAttr = NoAttr, !.rhsValue = v]
             ands == <<key>> \o own
             columns == ColumnsFor(q, t)
  <1>1. columns \subseteq Columns(t)
    BY ColumnsKnown
  <1>2. /\ IsSeq(own) /\ \A k \in DOMAIN own : IsResult(Predict(t, own[k]))
        /\ Met(t, own) = Within(q, {t})
    BY OwnMet
  <1>3. KeyConditions(q, e, v) = ands
    BY DEF KeyConditions
  <1>4. Names(q, {t}) = {t} \X columns
    BY NamesOne
  <1>5. key.name = e.name /\ key.op = "=" /\ key.rhsAttr = NoAttr /\ key.rhsValue = v
    BY DEF IsCondition
  <1>6. e.name = <<t, e.name[2]>> /\ e.name[2] \in Columns(t)
    BY DEF Proper
  <1>7. IsResult(Predict(t, key))
    <2>1. FirstText \in Int
      BY BoundAssumption
    <2> HIDE DEF key
    <2> QED
      BY <1>5, <1>6, <2>1 DEF Predict, IsResult, Result, NullTests
  <1>8. \A x : Matches(key, x) <=> x = v
    <2> HIDE DEF key
    <2> QED
      BY <1>5 DEF Matches, Compare
  <1> HIDE DEF own, columns, key, t
  <1>9. /\ IsSeq(ands)
        /\ \A k \in DOMAIN ands : ands[k] = key \/ \E j \in DOMAIN own : ands[k] = own[j]
        /\ \E k \in DOMAIN ands : ands[k] = key
        /\ \A j \in DOMAIN own : \E k \in DOMAIN ands : ands[k] = own[j]
    <2> DEFINE U == {key} \cup Range(own)
               m == Len(own)
    <2>1. m \in Nat /\ DOMAIN own = 1 .. m
      BY <1>2, SeqFacts
    <2>2. own \in Seq(U) /\ <<key>> \in Seq(U) /\ Len(<<key>>) = 1 /\ <<key>>[1] = key
      <3>1. own \in Seq(U)
        BY <1>2, SeqMonotonic DEF IsSeq
      <3> QED
        BY <3>1
    <2>3. /\ ands \in Seq(U) /\ Len(ands) = 1 + m
          /\ \A i \in 1 .. 1 + m : ands[i] = IF i <= 1 THEN <<key>>[i] ELSE own[i - 1]
      BY <2>2, ConcatProperties
    <2>4. DOMAIN ands = 1 .. 1 + m
      BY <2>3, LenProperties
    <2>5. IsSeq(ands)
      BY <2>3, SeqOfRange DEF IsSeq
    <2> HIDE DEF m, U, ands
    <2>6. 1 \in 1 .. 1 + m /\ ands[1] = key
      BY <2>1, <2>2, <2>3
    <2>7. ASSUME NEW j \in DOMAIN own
          PROVE  j + 1 \in DOMAIN ands /\ ands[j + 1] = own[j]
      <3>1. j \in Nat /\ j # 0 /\ j + 1 \in 1 .. 1 + m /\ ~(j + 1 <= 1) /\ (j + 1) - 1 = j
        BY <2>1
      <3> QED
        BY <3>1, <2>3, <2>4
    <2>8. ASSUME NEW k \in DOMAIN ands
          PROVE  ands[k] = key \/ \E j \in DOMAIN own : ands[k] = own[j]
      <3>1. k = 1 \/ (~(k <= 1) /\ k - 1 \in DOMAIN own)
        BY <2>1, <2>4
      <3> QED
        BY <3>1, <2>3, <2>4, <2>6
    <2> QED
      BY <2>4, <2>5, <2>6, <2>7, <2>8
  <1> HIDE DEF ands
  <1>10. \A k \in DOMAIN ands : IsResult(Predict(t, ands[k]))
    BY <1>2, <1>7, <1>9
  <1>11. IsPart(TableSelect(t, columns, ands), {t}, {t} \X columns, Met(t, ands))
    <2>1. IsSeq(rows[t])
      BY DEF t
    <2> QED
      BY <1>1, <1>9, <1>10, <2>1, TablePart
  <1>12. Met(t, ands) = {h \in Met(t, own) : Value(h, e.name) = v}
    <2>1. ASSUME NEW h \in Combos({t})
          PROVE  (\A k \in DOMAIN ands : Matches(ands[k], Value(h, <<t, ands[k].name[2]>>)))
                 <=> /\ \A j \in DOMAIN own : Matches(own[j], Value(h, <<t, own[j].name[2]>>))
                     /\ Value(h, e.name) = v
      <3> DEFINE M(x) == Matches(x, Value(h, <<t, x.name[2]>>))
      <3>1. M(key) <=> Value(h, e.name) = v
        BY <1>5, <1>6, <1>8
      <3> HIDE DEF M
      <3>2. (\A k \in DOMAIN ands : M(ands[k])) <=> M(key) /\ \A j \in DOMAIN own : M(own[j])
        BY <1>9
      <3> QED
        BY <3>1, <3>2 DEF M
    <2> QED
      BY <2>1 DEF Met
  <1>13. Met(t, ands) = KeyMet(q, e, v)
    BY <1>2, <1>12 DEF KeyMet, t
  <1>14. IsPart(TableSelect(t, columns, ands), {t}, Names(q, {t}), KeyMet(q, e, v))
    BY <1>4, <1>11, <1>13
  <1> QED
    BY <1>3, <1>14 DEF t, columns

\* A key has one row.
LEMMA KeySingle ==
    ASSUME NEW q, RowsSound, NEW e, e.name[1] \in Tables, e.name[2] \in Schema[e.name[1]].key,
           e.name[2] \in Columns(e.name[1]), NEW v \in Int,
           NEW g \in KeyMet(q, e, v), NEW h \in KeyMet(q, e, v)
    PROVE  g = h
  <1> DEFINE t == e.name[1]
             c == e.name[2]
             all == rows[t]
  <1>1. /\ g \in [{t} -> Nat] /\ h \in [{t} -> Nat] /\ g[t] \in DOMAIN all /\ h[t] \in DOMAIN all
        /\ all[g[t]][c] = v /\ all[h[t]][c] = v
    BY DEF KeyMet, Within, Combos, Value
  <1>2. \A k, j \in DOMAIN all : j < k => all[j][c] < all[k][c]
    BY DEF RowsSound
  <1>3. g[t] \in Nat /\ h[t] \in Nat
    BY <1>1
  <1>4. ~(g[t] < h[t]) /\ ~(h[t] < g[t])
    BY <1>1, <1>2
  <1>5. g[t] = h[t]
    BY <1>3, <1>4
  <1> HIDE DEF t
  <1> QED
    BY <1>1, <1>5
\* One record as a result of its own.
LEMMA SinglePart ==
    ASSUME NEW W, NEW N, Over(N, W), NEW g \in Combos(W)
    PROVE  IsPart(Result(N, <<Tuples(W, N)[g]>>), W, N, {g})
  <1> DEFINE val == Tuples(W, N)
             s == <<val[g]>>
             b == [i \in DOMAIN s |-> g]
  <1> HIDE DEF val
  <1>1. DOMAIN s = 1 .. 1 /\ s = [i \in 1 .. 1 |-> s[i]] /\ s[1] = val[g]
    OBVIOUS
  <1> HIDE DEF s
  <1>2. IsSeq(s)
    BY <1>1, MakeSeq
  <1>3. Shows(s, {g}, val)
    <2>1. b \in [DOMAIN s -> {g}] /\ \A i \in DOMAIN s : i = 1 /\ b[i] = g
      BY <1>1
    <2> HIDE DEF b
    <2>2. /\ \A i, j \in DOMAIN s : b[i] = b[j] => i = j
          /\ \A x \in {g} : \E i \in DOMAIN s : b[i] = x
          /\ \A i \in DOMAIN s : s[i] = val[b[i]]
      BY <1>1, <2>1
    <2> QED
      BY <2>1, <2>2 DEF Shows
  <1>4. /\ IsResult(Result(N, s)) /\ Result(N, s).names = N /\ Result(N, s).records = s
    BY DEF Result, IsResult
  <1>5. {g} \subseteq Combos(W)
    OBVIOUS
  <1>6. IsPart(Result(N, s), W, N, {g})
    BY <1>2, <1>3, <1>4, <1>5 DEF IsPart, val
  <1> QED
    BY <1>6 DEF s, val

\* A part with at most one combination has at most one record.
LEMMA PartSingle ==
    ASSUME NEW r, NEW W, NEW N, NEW S, IsPart(r, W, N, S), \A g, h \in S : g = h
    PROVE  ~(Len(r.records) > 1)
  <1>1. IsSeq(r.records) /\ Shows(r.records, S, Tuples(W, N))
    BY DEF IsPart
  <1>2. PICK b \in [DOMAIN r.records -> S] :
            /\ \A i, j \in DOMAIN r.records : b[i] = b[j] => i = j
            /\ \A x \in S : \E i \in DOMAIN r.records : b[i] = x
            /\ \A i \in DOMAIN r.records : r.records[i] = Tuples(W, N)[b[i]]
    BY <1>1 DEF Shows
  <1>3. Len(r.records) \in Nat /\ DOMAIN r.records = 1 .. Len(r.records)
    BY <1>1, SeqFacts
  <1> SUFFICES ASSUME Len(r.records) > 1 PROVE FALSE
    OBVIOUS
  <1>4. 1 \in DOMAIN r.records /\ 2 \in DOMAIN r.records
    BY <1>3
  <1>5. b[1] = b[2]
    BY <1>2, <1>4
  <1> QED
    BY <1>2, <1>4, <1>5

\* A join by the key of e.name's table.
ByKey(q, e) ==
    /\ \E i \in DOMAIN q.ands : e = q.ands[i]
    /\ IsCondition(e) /\ IsKeyJoin(e) /\ Type(e.name) = "INT"
    /\ Range(q.froms) = {e.name[1]} \cup {e.rhsAttr[1]}

LEMMA ByKeyFacts ==
    ASSUME NEW q, Clear(q), NEW e, ByKey(q, e)
    PROVE  /\ IsCondition(e) /\ Proper(q, e.name) /\ Proper(q, e.rhsAttr) /\ e.rhsAttr # NoAttr
           /\ e.op = "=" /\ Type(e.name) = "INT" /\ Type(e.rhsAttr) = "INT"
           /\ e.name[2] \in Schema[e.name[1]].key
           /\ e.name[1] # e.rhsAttr[1] /\ e.name[1] \in Tables /\ e.rhsAttr[1] \in Tables
           /\ e.name[1] \in Range(q.froms) /\ e.rhsAttr[1] \in Range(q.froms)
           /\ \A W : e.rhsAttr[1] \in W => e.rhsAttr \in Names(q, W)
  <1>1. PICK i \in DOMAIN q.ands : e = q.ands[i]
    BY DEF ByKey
  <1>2. Sound(q, e) /\ IsCondition(e) /\ IsKeyJoin(e) /\ Type(e.name) = "INT"
    BY <1>1 DEF ByKey, Clear
  <1>3. e.rhsAttr # NoAttr
    BY <1>2 DEF IsKeyJoin
  <1>4. \A W : e.rhsAttr[1] \in W => e.rhsAttr \in Names(q, W)
    BY <1>1, <1>3, NamesKnown
  <1>5. Proper(q, e.name) /\ Proper(q, e.rhsAttr) /\ e.name[1] # e.rhsAttr[1]
        /\ Type(e.name) = Type(e.rhsAttr)
    BY <1>2, <1>3 DEF Sound
  <1>6. Range(q.froms) \subseteq Tables
    BY DEF Clear
  <1>7. e.name[1] \in Range(q.froms) /\ e.rhsAttr[1] \in Range(q.froms)
    BY <1>5 DEF Proper
  <1> QED
    BY <1>2, <1>3, <1>4, <1>5, <1>6, <1>7 DEF IsKeyJoin

\* The rows that go with one row of the other table.
Beside(q, e, g) ==
    Both({e.name[1]} \cup {e.rhsAttr[1]}, {e.name[1]}, KeyMet(q, e, Value(g, e.rhsAttr)),
         {e.rhsAttr[1]}, {g})

LEMMA LookupPart ==
    ASSUME NEW q, Clear(q), RowsSound, NEW e, ByKey(q, e),
           NEW g \in Within(q, {e.rhsAttr[1]}), Value(g, e.rhsAttr) # Null
    PROVE  IsPart(KeyLookup(q, e, Tuples({e.rhsAttr[1]}, Names(q, {e.rhsAttr[1]}))[g]),
                  {e.name[1]} \cup {e.rhsAttr[1]}, Names(q, {e.name[1]} \cup {e.rhsAttr[1]}),
                  Beside(q, e, g))
  <1> DEFINE a == e.name[1]
             b == e.rhsAttr[1]
             A == {a}
             B == {b}
             N == Names(q, A)
             M == Names(q, B)
             v == Value(g, e.rhsAttr)
             record == Tuples(B, M)[g]
             r == TableSelect(a, ColumnsFor(q, a), KeyConditions(q, e, v))
             K == KeyMet(q, e, v)
  <1>1. /\ IsCondition(e) /\ Proper(q, e.name) /\ Proper(q, e.rhsAttr) /\ e.rhsAttr # NoAttr
        /\ e.op = "=" /\ Type(e.name) = "INT" /\ Type(e.rhsAttr) = "INT"
        /\ e.name[2] \in Schema[a].key
        /\ a # b /\ a \in Tables /\ b \in Tables
        /\ e.rhsAttr \in M
    BY ByKeyFacts
  <1>2. g \in Combos(B)
    BY DEF Within
  <1>3. v \in Int /\ v < FirstText
    <2> DEFINE c == e.rhsAttr[2]
    <2>1. c \in Columns(b) /\ Schema[b].type[c] = "INT"
      BY <1>1 DEF Proper, Type
    <2>2. g[b] \in DOMAIN rows[b] /\ v = rows[b][g[b]][c]
      BY <1>2 DEF Combos, Value
    <2>3. v \in Data[c] \ {Null}
      BY <1>1, <2>1, <2>2 DEF RowsSound
    <2> QED
      BY <1>1, <2>1, <2>3, SchemaAssumption DEF Columns
  <1>4. record[e.rhsAttr] = v /\ DOMAIN record = M
    BY <1>1, <1>2 DEF Tuples
  <1>5. IsPart(r, A, N, K)
    <2>1. IsSeq(rows[e.name[1]])
      BY <1>1 DEF RowsSound
    <2>2. Value(g, e.rhsAttr) \in Int /\ Value(g, e.rhsAttr) # Null /\ Value(g, e.rhsAttr) < FirstText
      BY <1>3
    <2> QED
      BY <1>1, <2>1, <2>2, KeyPart
  <1>6. \A h, i \in K : h = i
    <2>1. e.name[1] \in Tables /\ e.name[2] \in Schema[e.name[1]].key
          /\ e.name[2] \in Columns(e.name[1])
      BY <1>1 DEF Proper
    <2>2. Value(g, e.rhsAttr) \in Int
      BY <1>3
    <2> QED
      BY <2>1, <2>2, KeySingle
  <1>7. ~(Len(r.records) > 1) /\ IsResult(r)
    <2> HIDE DEF r, K, A, N
    <2> QED
      BY <1>5, <1>6, PartSingle DEF IsPart
  <1>8. KeyLookup(q, e, record) = Join(r, Result(M, <<record>>))
    <2>1. Type(e.rhsAttr) = "INT" /\ v # Null
      BY <1>1
    <2> HIDE DEF r, M, record, v
    <2> QED
      BY <1>4, <1>7, <2>1 DEF KeyLookup, r
  <1>9. IsPart(Result(M, <<record>>), B, M, {g})
    <2>1. Over(M, B)
      BY NamesOver
    <2> QED
      BY <1>2, <2>1, SinglePart
  <1>10. Sides(A, N, B, M, A \cup B, Names(q, A \cup B))
    <2>1. A \cap B = {}
      BY <1>1
    <2> HIDE DEF A, B
    <2> QED
      BY <2>1, NamesSides
  <1>11. IsPart(Join(r, Result(M, <<record>>)), A \cup B, Names(q, A \cup B),
                Both(A \cup B, A, K, B, {g}))
    <2> DEFINE X == A \cup B
               Y == Names(q, X)
               one == Result(M, <<record>>)
    <2> HIDE DEF A, B, N, M, K, r, record, X, Y, one
    <2>1. IsPart(Join(r, one), X, Y, Both(X, A, K, B, {g}))
      BY <1>5, <1>9, <1>10, JoinPart DEF X, Y, one
    <2> QED
      BY <2>1 DEF X, Y, one
  <1> QED
    BY <1>8, <1>11 DEF Beside
\* Some row of the other table has no value for the join.
KeyMissing(q, e) ==
    LET other == SelectOne(q, e.rhsAttr[1])
    IN  \E j \in DOMAIN other.records : other.records[j][e.rhsAttr] = Null

AllBeside(q, e) == UNION {Beside(q, e, g) : g \in Within(q, {e.rhsAttr[1]})}

\* The rows of all lookups, with the conditions of two columns.
LEMMA BesideWithin ==
    ASSUME NEW q, Clear(q), NEW e, ByKey(q, e)
    PROVE  /\ AllBeside(q, e) \subseteq Combos(Range(q.froms))
           /\ IsSeq(CrossConditions(q)) /\ CrossConditions(q) # << >>
           /\ Joining(Names(q, Range(q.froms)), CrossConditions(q))
           /\ {k \in AllBeside(q, e) :
                  \A i \in DOMAIN CrossConditions(q) : Holds(k, CrossConditions(q)[i])}
                 = Within(q, Range(q.froms))
  <1> DEFINE X == Range(q.froms)
             K == AllBeside(q, e)
             A == {e.name[1]}
             B == {e.rhsAttr[1]}
             I == {i \in DOMAIN q.ands : q.ands[i].rhsAttr # NoAttr}
             cross == CrossConditions(q)
             L == Both(X, A, Within(q, A), B, Within(q, B))
  <1>1. X = A \cup B
    BY DEF ByKey
  <1> HIDE DEF X
  <1>2. e.rhsAttr # NoAttr /\ e.op = "="
    BY ByKeyFacts
  <1>3. cross = Chosen(q.ands, I) /\ IsSeq(q.ands) /\ I \in SUBSET DOMAIN q.ands
    BY DEF CrossConditions, Clear
  <1> HIDE DEF cross
  <1>4. /\ IsSeq(cross)
        /\ \A k \in DOMAIN cross : \E i \in DOMAIN q.ands :
              cross[k] = q.ands[i] /\ q.ands[i].rhsAttr # NoAttr
        /\ \A i \in DOMAIN q.ands : q.ands[i].rhsAttr # NoAttr =>
              \E k \in DOMAIN cross : cross[k] = q.ands[i]
    <2> HIDE DEF I
    <2>1. /\ IsSeq(Chosen(q.ands, I))
          /\ \A k \in DOMAIN Chosen(q.ands, I) : \E i \in I : Chosen(q.ands, I)[k] = q.ands[i]
          /\ \A i \in I : \E k \in DOMAIN Chosen(q.ands, I) : Chosen(q.ands, I)[k] = q.ands[i]
      BY <1>3, ChosenRange
    <2> QED
      BY <1>3, <2>1 DEF I
  <1>5. \A i \in DOMAIN q.ands : Needs(q.ands[i]) \subseteq X
    BY DEF Clear, Sound, Proper, Needs, X
  <1>6. NewConditions(q, A, B, cross)
    <2>1. \A i \in DOMAIN q.ands : q.ands[i].rhsAttr = NoAttr =>
              Needs(q.ands[i]) \subseteq A \/ Needs(q.ands[i]) \subseteq B
      BY <1>1, <1>5 DEF Needs
    <2> QED
      BY <1>1, <1>4, <1>5, <2>1 DEF NewConditions
  <1>7. Joining(Names(q, X), cross)
    <2>1. Joining(Names(q, A \cup B), cross)
      BY <1>6, NewJoining
    <2> QED
      BY <1>1, <2>1
  <1>8. \E k \in DOMAIN cross : cross[k] = e
    BY <1>2, <1>4 DEF ByKey
  <1>9. cross # << >>
    BY <1>8
  <1>10. {k \in L : \A i \in DOMAIN cross : Holds(k, cross[i])} = Within(q, X)
    <2>1. {k \in Both(A \cup B, A, Within(q, A), B, Within(q, B)) :
              \A i \in DOMAIN cross : Holds(k, cross[i])} = Within(q, A \cup B)
      BY <1>6, BothWithin
    <2> QED
      BY <1>1, <2>1
  <1>11. \A k \in Combos(X) : /\ Value(Restrict(k, A), e.name) = Value(k, e.name)
                              /\ Value(Restrict(k, B), e.rhsAttr) = Value(k, e.rhsAttr)
    BY DEF Value, Restrict
  <1>12. \A k \in K : k \in L
    BY <1>1 DEF AllBeside, Beside, Both, KeyMet
  <1>13. ASSUME NEW k \in L, Holds(k, e)
         PROVE  k \in K
    <2>1. /\ k \in Combos(X) /\ Restrict(k, A) \in Within(q, A)
          /\ Restrict(k, B) \in Within(q, B)
      BY DEF Both
    <2>2. Value(k, e.name) = Value(k, e.rhsAttr)
      BY <1>2, <1>13 DEF Holds, Compare
    <2>3. Restrict(k, A) \in KeyMet(q, e, Value(Restrict(k, B), e.rhsAttr))
      BY <1>11, <2>1, <2>2 DEF KeyMet
    <2>4. k \in Beside(q, e, Restrict(k, B))
      BY <1>1, <2>1, <2>3 DEF Beside, Both
    <2> QED
      BY <2>1, <2>4 DEF AllBeside
  <1>14. {k \in K : \A i \in DOMAIN cross : Holds(k, cross[i])}
            = {k \in L : \A i \in DOMAIN cross : Holds(k, cross[i])}
    BY <1>8, <1>12, <1>13
  <1>15. K \subseteq Combos(X)
    BY <1>12 DEF Both
  <1> HIDE DEF L
  <1> QED
    BY <1>4, <1>7, <1>9, <1>10, <1>14, <1>15 DEF cross, X

LEMMA KeyAnswers ==
    ASSUME NEW q, Clear(q), RowsSound, NEW e, ByKey(q, e)
    PROVE  \/ Answers(q, KeyJoin(q, e))
           \/ ~IsResult(KeyJoin(q, e)) /\ KeyMissing(q, e)
  <1> DEFINE b == e.rhsAttr[1]
             B == {b}
             X == {e.name[1]} \cup {b}
             M == Names(q, B)
             N == Names(q, X)
             from == Tuples(B, M)
             to == Tuples(X, N)
             other == SelectOne(q, b)
             s == other.records
             found == [i \in DOMAIN s |-> KeyLookup(q, e, s[i])]
             all == Result(UNION {found[i].names : i \in DOMAIN found},
                           FlattenSeq([i \in DOMAIN found |-> found[i].records]))
             kept == Filter(all, CrossConditions(q))
  <1>1. /\ e.rhsAttr # NoAttr /\ b \in Tables /\ b \in Range(q.froms) /\ e.rhsAttr \in M
    BY ByKeyFacts
  <1>2. IsPart(other, B, M, Within(q, B))
    <2>1. b \in Range(q.froms) /\ IsSeq(rows[b])
      BY <1>1 DEF RowsSound
    <2> HIDE DEF b
    <2> QED
      BY <2>1, OnePart
  <1> HIDE DEF other
  <1>3. IsResult(other) /\ IsSeq(s) /\ Shows(s, Within(q, B), from)
    BY <1>2 DEF IsPart
  <1>4. PICK p \in [DOMAIN s -> Within(q, B)] :
            /\ \A i, j \in DOMAIN s : p[i] = p[j] => i = j
            /\ \A x \in Within(q, B) : \E i \in DOMAIN s : p[i] = x
            /\ \A i \in DOMAIN s : s[i] = from[p[i]]
    BY <1>3 DEF Shows
  <1>5. Len(s) \in Nat /\ DOMAIN s = 1 .. Len(s)
    BY <1>3, SeqFacts
  <1>6. IsSeq(found) /\ DOMAIN found = DOMAIN s
    <2>1. DOMAIN found = 1 .. Len(s) /\ found = [i \in 1 .. Len(s) |-> found[i]]
      BY <1>5
    <2> HIDE DEF found
    <2> QED
      BY <1>5, <2>1, MakeSeq
  <1>7. \A i \in DOMAIN s : p[i] \in Within(q, B) /\ p[i] \in Combos(B)
                            /\ s[i][e.rhsAttr] = Value(p[i], e.rhsAttr)
    <2> TAKE i \in DOMAIN s
    <2>1. p[i] \in Within(q, B) /\ p[i] \in Combos(B)
      BY <1>4 DEF Within
    <2> HIDE DEF other, B, M
    <2>2. Tuples(B, M)[p[i]] = [n \in M |-> Value(p[i], n)]
      BY <2>1 DEF Tuples
    <2>3. s[i] = [n \in M |-> Value(p[i], n)]
      BY <1>4, <2>2
    <2> QED
      BY <1>1, <2>1, <2>3
  <1>8. KeyJoin(q, e) = IF \E i \in DOMAIN found : ~IsResult(found[i])
                        THEN FirstFailure(found, Error)
                        ELSE IF IsResult(kept) THEN Project(kept, q.selects) ELSE kept
    BY <1>3 DEF KeyJoin, other
  <1> HIDE DEF found, kept, all, X, N, M, B, b, from, to
  <1>9. CASE \E j \in DOMAIN s : s[j][e.rhsAttr] = Null
    <2>1. PICK j \in DOMAIN s : s[j][e.rhsAttr] = Null
      BY <1>9
    <2>2. KeyMissing(q, e)
      BY <2>1 DEF KeyMissing, other, b
    <2>3. ~IsResult(found[j]) /\ j \in DOMAIN found
      BY <1>6, <2>1 DEF found, KeyLookup, Dies, IsResult
    <2>4. ~IsResult(FirstFailure(found, Error))
      BY <1>6, <2>3, FirstBad
    <2>5. ~IsResult(KeyJoin(q, e))
      BY <1>8, <2>3, <2>4
    <2> QED
      BY <2>2, <2>5
  <1>10. CASE \A j \in DOMAIN s : s[j][e.rhsAttr] # Null
    <2> DEFINE Q == [i \in DOMAIN s |-> Beside(q, e, p[i])]
               K == AllBeside(q, e)
               cross == CrossConditions(q)
    <2>1. \A i \in DOMAIN s : IsPart(found[i], X, N, Q[i])
      <3> TAKE i \in DOMAIN s
      <3>1. Value(p[i], e.rhsAttr) # Null /\ p[i] \in Within(q, {e.rhsAttr[1]})
        BY <1>7, <1>10 DEF B, b
      <3> DEFINE g == p[i]
      <3> HIDE DEF g
      <3>2. IsPart(KeyLookup(q, e, Tuples({e.rhsAttr[1]}, Names(q, {e.rhsAttr[1]}))[g]),
                   {e.name[1]} \cup {e.rhsAttr[1]}, Names(q, {e.name[1]} \cup {e.rhsAttr[1]}),
                   Beside(q, e, g))
        BY <3>1, LookupPart DEF g
      <3>3. found[i] = KeyLookup(q, e, from[g])
        BY <1>4, <1>6 DEF found, g
      <3>4. Q[i] = Beside(q, e, g)
        BY DEF g
      <3> HIDE DEF Q
      <3> QED
        BY <3>2, <3>3, <3>4 DEF X, N, from, M, B, b
    <2>2. \A i \in DOMAIN s : /\ IsResult(found[i]) /\ found[i].names = N
                              /\ IsSeq(found[i].records) /\ Shows(found[i].records, Q[i], to)
      BY <2>1 DEF IsPart, to
    <2>3. /\ K \subseteq Combos(X) /\ IsSeq(cross) /\ cross # << >> /\ Joining(N, cross)
          /\ {k \in K : \A i \in DOMAIN cross : Holds(k, cross[i])} = Within(q, X)
      <3>1. X = Range(q.froms)
        BY DEF X, b, ByKey
      <3> QED
        BY <3>1, BesideWithin DEF N
    <2>4. KeyJoin(q, e) = IF IsResult(kept) THEN Project(kept, q.selects) ELSE kept
      BY <1>6, <1>8, <2>2
    <2>5. UNION {Q[i] : i \in DOMAIN s} = K
      <3>1. \A i \in DOMAIN s : Q[i] \subseteq K
        BY <1>4 DEF AllBeside, B, b
      <3>2. \A g \in Within(q, B) : \E i \in DOMAIN s : Q[i] = Beside(q, e, g)
        BY <1>4
      <3>3. K = UNION {Beside(q, e, g) : g \in Within(q, B)}
        BY DEF AllBeside, B, b
      <3> HIDE DEF Q, K
      <3> QED
        BY <3>1, <3>2, <3>3
    <2>6. IsSeq(all.records) /\ Shows(all.records, K, to)
      <3> DEFINE ss == [i \in DOMAIN found |-> found[i].records]
      <3>1. IsSeq(ss) /\ DOMAIN ss = DOMAIN s
        <4>1. DOMAIN ss = 1 .. Len(s) /\ ss = [i \in 1 .. Len(s) |-> ss[i]]
          BY <1>5, <1>6
        <4> HIDE DEF ss
        <4> QED
          BY <1>5, <4>1, MakeSeq
      <3>2. \A i \in DOMAIN ss : IsSeq(ss[i]) /\ Shows(ss[i], Q[i], to)
        BY <1>6, <2>2
      <3>3. \A i, j \in DOMAIN ss : i # j => Q[i] \cap Q[j] = {}
        <4> SUFFICES ASSUME NEW i \in DOMAIN s, NEW j \in DOMAIN s, i # j,
                            NEW k \in Q[i], k \in Q[j]
                     PROVE  FALSE
          BY <3>1
        <4>1. Restrict(k, {e.rhsAttr[1]}) = p[i] /\ Restrict(k, {e.rhsAttr[1]}) = p[j]
          BY DEF Beside, Both
        <4> QED
          BY <4>1, <1>4
      <3> HIDE DEF ss, Q, K
      <3>4. IsSeq(FlattenSeq(ss)) /\ Shows(FlattenSeq(ss), UNION {Q[i] : i \in DOMAIN ss}, to)
        BY <3>1, <3>2, <3>3, FlattenShows
      <3>5. all.records = FlattenSeq(ss)
        BY DEF all, ss, Result
      <3> QED
        BY <2>5, <3>1, <3>4, <3>5
    <2>7. IsResult(all) /\ all.names = UNION {found[i].names : i \in DOMAIN found}
      BY DEF all, Result, IsResult
    <2>8. Over(N, X)
      BY NamesOver DEF N
    <2> HIDE DEF K, cross, Q
    <2>9. CASE DOMAIN s = {}
      <3>1. all.names = {}
        BY <1>6, <2>7, <2>9
      <3>2. Within(q, B) = {}
        BY <1>4, <2>9
      <3>3. Within(q, X) = {}
        <4>1. B \subseteq X
          BY DEF B, X
        <4> QED
          BY <3>2, <4>1, RestrictWithin
      <3> DEFINE outcomes == [i \in DOMAIN cross |-> CrossPredict(all, cross[i])]
      <3>4. Len(cross) \in Nat /\ DOMAIN cross = 1 .. Len(cross) /\ cross \in Seq(Range(cross))
        BY <2>3, SeqFacts DEF IsSeq
      <3>5. 1 \in DOMAIN cross
        BY <2>3, <3>4, EmptySeq
      <3>6. ~IsResult(CrossPredict(all, cross[1]))
        BY <3>1 DEF CrossPredict, Error, IsResult
      <3>7. IsSeq(outcomes)
        <4>1. DOMAIN outcomes = 1 .. Len(cross) /\ outcomes = [i \in 1 .. Len(cross) |-> outcomes[i]]
          BY <3>4
        <4> HIDE DEF outcomes
        <4> QED
          BY <3>4, <4>1, MakeSeq
      <3>8. 1 \in DOMAIN outcomes /\ ~IsResult(outcomes[1])
        BY <3>5, <3>6
      <3> HIDE DEF outcomes
      <3>9. \A good : ~IsResult(FirstFailure(outcomes, good))
        BY <3>7, <3>8, FirstBad
      <3>10. ~IsResult(kept)
        BY <3>9 DEF kept, Filter, outcomes, cross
      <3> QED
        BY <2>4, <3>3, <3>10 DEF Answers, X, b, ByKey
    <2>10. CASE DOMAIN s # {}
      <3>1. all.names = N
        BY <1>6, <2>2, <2>7, <2>10
      <3>2. IsPart(all, X, N, K)
        BY <2>3, <2>6, <2>7, <2>8, <3>1 DEF IsPart, to
      <3>3. CASE K = {}
        <4>1. ~IsResult(Filter(all, cross))
          BY <2>3, <3>2, <3>3, FilterEmpty
        <4>2. ~IsResult(kept) /\ Within(q, X) = {}
          BY <2>3, <3>3, <4>1 DEF kept, cross
        <4> QED
          BY <2>4, <4>2 DEF Answers, X, b, ByKey
      <3>4. CASE K # {}
        <4> DEFINE T == {k \in K : \A i \in DOMAIN cross : Holds(k, cross[i])}
        <4>1. IsPart(Filter(all, cross), X, N, T)
          BY <2>3, <3>2, <3>4, FilterPart
        <4>2. IsPart(kept, X, N, Within(q, X)) /\ Range(q.froms) = X
          BY <2>3, <4>1 DEF kept, cross, X, b, ByKey
        <4>3. IsResult(kept)
          BY <4>2 DEF IsPart
        <4>4. Answers(q, Project(kept, q.selects))
          BY <4>2, ProjectAnswers DEF N
        <4> QED
          BY <2>4, <4>3, <4>4
      <3> QED
        BY <3>3, <3>4
    <2> QED
      BY <2>9, <2>10
  <1> QED
    BY <1>9, <1>10
LEMMA QueryFacts ==
    ASSUME NEW q \in Queries
    PROVE  /\ IsSeq(q.froms) /\ IsSeq(q.selects) /\ IsSeq(q.ands)
           /\ \A i \in DOMAIN q.selects : IsName(q.selects[i])
           /\ \A i \in DOMAIN q.ands : IsCondition(q.ands[i])
  BY QueriesAssumption DEF IsSeq

\* makePredict of Table takes a legal condition with a value.
LEMMA PredictLegal ==
    ASSUME NEW t, NEW e, e.name[2] \in Columns(t), e.rhsAttr = NoAttr, e.rhsValue \in Int,
           NEW type, Type(<<t, e.name[2]>>) = type,
           \/ e.op \in NullTests
           \/ e.op \in Comparisons /\ (type = "INT" <=> e.rhsValue < FirstText)
           \/ e.op = "LIKE" /\ type = "VARCHAR" /\ e.rhsValue >= FirstText
    PROVE  IsResult(Predict(t, e))
  <1>1. FirstText \in Int
    BY BoundAssumption
  <1>2. CASE type # "INT"
    BY <1>2 DEF Predict, IsResult, Result
  <1>3. CASE type = "INT"
    <2>1. e.op \in NullTests \/ (e.op \in Comparisons /\ e.rhsValue < FirstText)
      BY <1>3
    <2>2. e.op # "LIKE"
      BY <2>1 DEF NullTests, Comparisons
    <2>3. e.op \in NullTests \/ ~(e.rhsValue >= FirstText)
      BY <1>1, <2>1
    <2> QED
      BY <1>3, <2>2, <2>3 DEF Predict, IsResult, Result
  <1> QED
    BY <1>2, <1>3

LEMMA LegalClear ==
    ASSUME NEW q \in Queries, Legal(q), Len(q.froms) # 1
    PROVE  Clear(q) /\ Selected(q) = q.selects /\ \A n : Named(q, n) = n
  <1>1. \A n : Named(q, n) = n
    BY DEF Named
  <1>2. /\ IsSeq(q.froms) /\ IsSeq(q.selects) /\ IsSeq(q.ands)
        /\ \A i \in DOMAIN q.selects : IsName(q.selects[i])
        /\ \A i \in DOMAIN q.ands : IsCondition(q.ands[i])
    BY QueryFacts
  <1>3. Selected(q) = q.selects
    <2>1. DOMAIN q.selects = 1 .. Len(q.selects) /\ q.selects = [i \in 1 .. Len(q.selects) |-> q.selects[i]]
      BY <1>2, SeqFacts
    <2>2. Selected(q) = [i \in DOMAIN q.selects |-> q.selects[i]]
      BY <1>1 DEF Selected
    <2> QED
      BY <2>1, <2>2
  <1>4. IsInjective(q.froms) /\ Range(q.froms) \subseteq Tables
    BY DEF Legal
  <1>5. \A i \in DOMAIN q.selects : Proper(q, q.selects[i])
    BY <1>1, <1>2, <1>3 DEF Legal, Proper, IsName
  <1>6. ASSUME NEW i \in DOMAIN q.ands
        PROVE  Sound(q, q.ands[i])
    <2> DEFINE e == q.ands[i]
    <2>1. e.rhsValue \in Int /\ IsName(e.name) /\ (e.rhsAttr # NoAttr => IsName(e.rhsAttr))
      BY <1>2 DEF IsCondition
    <2>2. e.name[1] \in Range(q.froms) /\ e.name[2] \in Columns(e.name[1])
      BY <1>1 DEF Legal
    <2>3. Proper(q, e.name)
      BY <2>1, <2>2 DEF Proper, IsName
    <2>4. CASE e.rhsAttr = NoAttr
      <3>1. LET type == Type(e.name) IN
            \/ e.op \in NullTests
            \/ e.op \in Comparisons /\ (type = "INT" <=> e.rhsValue < FirstText)
            \/ e.op = "LIKE" /\ type = "VARCHAR" /\ e.rhsValue >= FirstText
        BY <1>1, <2>4 DEF Legal
      <3>2. Type(<<e.name[1], e.name[2]>>) = Type(e.name)
        BY DEF Type
      <3> HIDE DEF e
      <3>3. IsResult(Predict(e.name[1], e))
        BY <2>1, <2>2, <2>4, <3>1, <3>2, PredictLegal
      <3> QED
        BY <2>3, <2>4, <3>3 DEF Sound, e
    <2>5. CASE e.rhsAttr # NoAttr
      <3>1. /\ e.rhsAttr[1] \in Range(q.froms) /\ e.rhsAttr[2] \in Columns(e.rhsAttr[1])
            /\ e.name[1] # e.rhsAttr[1] /\ Type(e.name) = Type(e.rhsAttr) /\ e.op \in Comparisons
        BY <1>1, <2>5 DEF Legal
      <3> QED
        BY <2>1, <2>3, <2>5, <3>1 DEF Sound, Proper, IsName
    <2> QED
      BY <2>4, <2>5
  <1> QED
    BY <1>1, <1>2, <1>3, <1>4, <1>5, <1>6 DEF Clear

LEMMA TwoAnswers ==
    ASSUME NEW q \in Queries, Legal(q), IntKeys(q), RowsSound, Len(q.froms) = 2
    PROVE  \/ Answers(q, SelectFromTwo(q))
           \/ ~IsResult(SelectFromTwo(q)) /\ ~KeysPresent(q)
  <1> DEFINE I == {i \in 1 .. Len(q.ands) : q.ands[i].name[1] \notin Tables \/ IsKeyJoin(q.ands[i])}
             m == SelectInSeq(q.ands, LAMBDA e : e.name[1] \notin Tables \/ IsKeyJoin(e))
  <1>1. Clear(q)
    BY LegalClear
  <1>2. /\ Len(q.ands) \in Nat /\ DOMAIN q.ands = 1 .. Len(q.ands)
        /\ Len(q.froms) \in Nat /\ DOMAIN q.froms = 1 .. 2
    BY <1>1, SeqFacts DEF Clear
  <1>3. m = IF I # {} THEN Min(I) ELSE 0
    BY DEF SelectInSeq
  <1>4. SelectFromTwo(q) = IF m = 0 THEN SelectFromMany(q)
                           ELSE IF q.ands[m].name[1] \notin Tables THEN Error
                           ELSE KeyJoin(q, q.ands[m])
    BY DEF SelectFromTwo
  <1> HIDE DEF m
  <1>5. CASE I = {}
    <2>1. SelectFromTwo(q) = SelectFromMany(q)
      BY <1>3, <1>4, <1>5
    <2>2. \A t \in Tables : IsSeq(rows[t])
      BY DEF RowsSound
    <2>3. Answers(q, SelectFromMany(q))
      BY <1>1, <2>2, ManyAnswers
    <2> QED
      BY <2>1, <2>3
  <1>6. CASE I # {}
    <2>1. m \in I /\ m # 0
      <3>1. I \in SUBSET Nat
        BY <1>2
      <3> HIDE DEF I
      <3>2. m \in I
        BY <1>3, <1>6, <3>1, MinNumber
      <3> QED
        BY <3>2, <1>2 DEF I
    <2> DEFINE e == q.ands[m]
    <2>2. m \in DOMAIN q.ands /\ Sound(q, e) /\ IsCondition(e)
      BY <1>1, <1>2, <2>1, QueryFacts DEF Clear
    <2>3. e.name[1] \in Tables /\ IsKeyJoin(e)
      BY <1>1, <2>1, <2>2 DEF Sound, Proper, Clear
    <2>4. Type(e.name) = "INT" /\ e.rhsAttr # NoAttr
      BY <2>2, <2>3 DEF IntKeys, IsKeyJoin
    <2>5. /\ e.name[1] \in Range(q.froms) /\ e.rhsAttr[1] \in Range(q.froms)
          /\ e.name[1] # e.rhsAttr[1]
      BY <2>2, <2>4 DEF Sound, Proper
    <2>6. Range(q.froms) = {e.name[1]} \cup {e.rhsAttr[1]}
      <3>1. Range(q.froms) = {q.froms[1], q.froms[2]}
        <4>1. 1 .. 2 = {1, 2}
          OBVIOUS
        <4> QED
          BY <1>2, <4>1 DEF Range
      <3> QED
        BY <2>5, <3>1
    <2>7. ByKey(q, e)
      BY <2>2, <2>3, <2>4, <2>6 DEF ByKey
    <2>8. SelectFromTwo(q) = KeyJoin(q, e)
      BY <1>4, <2>1, <2>3
    <2> HIDE DEF e
    <2>9. \/ Answers(q, KeyJoin(q, e))
          \/ ~IsResult(KeyJoin(q, e)) /\ KeyMissing(q, e)
      BY <1>1, <2>7, KeyAnswers
    <2>10. KeyMissing(q, e) => ~KeysPresent(q)
      <3> SUFFICES ASSUME KeyMissing(q, e), KeysPresent(q) PROVE FALSE
        OBVIOUS
      <3> DEFINE other == SelectOne(q, e.rhsAttr[1])
      <3> HIDE DEF other
      <3>1. PICK j \in DOMAIN other.records : other.records[j][e.rhsAttr] = Null
        BY DEF KeyMissing, other
      <3>2. \A k \in DOMAIN other.records : other.records[k][e.rhsAttr] # Null
        BY <2>2, <2>3 DEF KeysPresent, other, e
      <3> QED
        BY <3>1, <3>2
    <2> QED
      BY <2>8, <2>9, <2>10
  <1> QED
    BY <1>5, <1>6
-----------------------------------------------------------------------------
(* selectFromOne.                                                             *)
LEMMA SetToSeqFacts ==
    ASSUME NEW S, IsFiniteSet(S)
    PROVE  \A j \in DOMAIN SetToSeq(S) : SetToSeq(S)[j] \in S
  <1> DEFINE F == {f \in [1 .. Cardinality(S) -> S] : IsInjective(f)}
  <1>1. F # {}
    BY FS_CardinalityType DEF ExistsBijection, Bijection, Injection
  <1>2. SetToSeq(S) \in F
    BY <1>1 DEF SetToSeq
  <1> QED
    BY <1>2

\* What a legal statement about one table names.
OneTable(q, t) ==
    /\ t \in Tables /\ t # NoTable /\ Range(q.froms) = {t} /\ DOMAIN q.froms = 1 .. 1
    /\ \A n : Named(q, n) = IF n[1] = NoTable THEN <<t, n[2]>> ELSE n
    /\ \A j \in DOMAIN Selected(q) : /\ Selected(q)[j] = <<t, Selected(q)[j][2]>>
                                     /\ Selected(q)[j][2] \in Columns(t)
    /\ \A i \in DOMAIN q.ands :
          /\ q.ands[i].name[1] \in {t, NoTable} /\ q.ands[i].rhsAttr = NoAttr
          /\ Named(q, q.ands[i].name) = <<t, q.ands[i].name[2]>>
          /\ IsResult(Predict(t, q.ands[i]))

LEMMA LegalOne ==
    ASSUME NEW q \in Queries, Legal(q), Len(q.froms) = 1, NEW t, t = q.froms[1]
    PROVE  OneTable(q, t)
  <1>1. /\ IsSeq(q.froms) /\ IsSeq(q.selects)
        /\ \A i \in DOMAIN q.selects : IsName(q.selects[i])
        /\ \A i \in DOMAIN q.ands : IsCondition(q.ands[i])
    BY QueryFacts
  <1>2. DOMAIN q.froms = 1 .. 1
    BY <1>1, SeqFacts
  <1>3. Range(q.froms) = {t}
    <2>1. 1 .. 1 = {1}
      OBVIOUS
    <2> QED
      BY <1>2, <2>1 DEF Range
  <1>4. t \in Tables /\ t # NoTable
    BY <1>3, SchemaAssumption DEF Legal
  <1>5. \A n : Named(q, n) = IF n[1] = NoTable THEN <<t, n[2]>> ELSE n
    BY DEF Named
  <1>6. \A n : /\ Named(q, n)[2] = n[2]
               /\ Named(q, n)[1] = t => n[1] \in {t, NoTable}
    BY <1>5
  <1>7. \A n : IsName(n) /\ Named(q, n)[1] = t => Named(q, n) = <<t, n[2]>>
    BY <1>4, <1>5 DEF IsName
  <1>8. ASSUME NEW j \in DOMAIN Selected(q)
        PROVE  Selected(q)[j] = <<t, Selected(q)[j][2]>> /\ Selected(q)[j][2] \in Columns(t)
    <2>1. Named(q, Selected(q)[j])[1] = t /\ Named(q, Selected(q)[j])[2] \in Columns(t)
      BY <1>3 DEF Legal
    <2>2. Selected(q)[j][2] \in Columns(t)
      BY <1>6, <2>1
    <2>3. CASE q.selects = <<Star>>
      <3>1. Selected(q) = SetToSeq({t} \X Columns(t))
        BY <2>3 DEF Selected
      <3>2. IsFiniteSet({t} \X Columns(t))
        <4>1. IsFiniteSet({t}) /\ IsFiniteSet(Columns(t))
          BY <1>4, FS_Singleton, SchemaAssumption DEF Columns
        <4> QED
          BY <4>1, FS_Product
      <3>3. Selected(q)[j] \in {t} \X Columns(t)
        BY <3>1, <3>2, SetToSeqFacts
      <3> QED
        BY <2>2, <3>3
    <2>4. CASE q.selects # <<Star>>
      <3>1. j \in DOMAIN q.selects /\ Selected(q)[j] = Named(q, q.selects[j])
        BY <2>4 DEF Selected
      <3>2. IsName(q.selects[j])
        BY <1>1, <3>1
      <3>3. Named(q, q.selects[j])[1] = t
        BY <1>4, <1>5, <2>1, <3>1
      <3> QED
        BY <1>6, <1>7, <2>2, <3>1, <3>2, <3>3
    <2> QED
      BY <2>3, <2>4
  <1>9. ASSUME NEW i \in DOMAIN q.ands
        PROVE  /\ q.ands[i].name[1] \in {t, NoTable} /\ q.ands[i].rhsAttr = NoAttr
               /\ Named(q, q.ands[i].name) = <<t, q.ands[i].name[2]>>
               /\ IsResult(Predict(t, q.ands[i]))
    <2> DEFINE e == q.ands[i]
    <2>1. e.rhsValue \in Int /\ IsName(e.name)
      BY <1>1 DEF IsCondition
    <2>2. Named(q, e.name)[1] = t /\ Named(q, e.name)[2] \in Columns(t)
      BY <1>3 DEF Legal
    <2>3. e.rhsAttr = NoAttr
      <3> SUFFICES ASSUME e.rhsAttr # NoAttr PROVE FALSE
        OBVIOUS
      <3>1. Named(q, e.rhsAttr)[1] \in Range(q.froms) /\ Named(q, e.name)[1] # Named(q, e.rhsAttr)[1]
        BY DEF Legal
      <3> QED
        BY <1>3, <2>2, <3>1
    <2>4. LET type == Type(Named(q, e.name)) IN
          \/ e.op \in NullTests
          \/ e.op \in Comparisons /\ (type = "INT" <=> e.rhsValue < FirstText)
          \/ e.op = "LIKE" /\ type = "VARCHAR" /\ e.rhsValue >= FirstText
      BY <2>3 DEF Legal
    <2> HIDE DEF e
    <2>5. e.name[1] \in {t, NoTable} /\ e.name[2] \in Columns(t)
      BY <1>6, <2>2
    <2>6. Named(q, e.name) = <<t, e.name[2]>>
      BY <1>7, <2>1, <2>2
    <2>7. IsResult(Predict(t, e))
      BY <2>1, <2>3, <2>4, <2>5, <2>6, PredictLegal
    <2> QED
      BY <2>3, <2>5, <2>6, <2>7 DEF e
  <1> QED
    BY <1>2, <1>3, <1>4, <1>5, <1>8, <1>9 DEF OneTable

LEMMA OneAnswers ==
    ASSUME NEW q \in Queries, Legal(q), RowsSound, Len(q.froms) = 1, NEW t, t = q.froms[1]
    PROVE  /\ IsResult(SelectFromOne(q)) /\ IsSeq(SelectFromOne(q).records)
           /\ Shows(SelectFromOne(q).records, Met(t, q.ands), Picks({t}, Selected(q)))
  <1> DEFINE selects == IF q.selects = <<Star>> THEN SetToSeq({t} \X Columns(t))
                        ELSE [i \in DOMAIN q.selects |-> <<t, q.selects[i][2]>>]
             columns == {selects[i][2] : i \in DOMAIN selects}
             r == TableSelect(t, columns, q.ands)
             s == r.records
             made == [i \in DOMAIN s |-> InOrder(s[i], selects)]
             N == {t} \X columns
             S == Met(t, q.ands)
             from == Tuples({t}, N)
             to == Picks({t}, selects)
             same == [g \in S |-> g]
  <1>0. OneTable(q, t)
    BY LegalOne
  <1>1. /\ t \in Tables /\ t # NoTable /\ Range(q.froms) = {t} /\ DOMAIN q.froms = 1 .. 1
        /\ \A n : Named(q, n) = IF n[1] = NoTable THEN <<t, n[2]>> ELSE n
        /\ \A j \in DOMAIN Selected(q) : /\ Selected(q)[j] = <<t, Selected(q)[j][2]>>
                                         /\ Selected(q)[j][2] \in Columns(t)
        /\ \A i \in DOMAIN q.ands :
              /\ q.ands[i].name[1] \in {t, NoTable} /\ q.ands[i].rhsAttr = NoAttr
              /\ Named(q, q.ands[i].name) = <<t, q.ands[i].name[2]>>
              /\ IsResult(Predict(t, q.ands[i]))
    BY <1>0 DEF OneTable
  <1>2. /\ IsSeq(q.froms) /\ IsSeq(q.selects) /\ IsSeq(q.ands)
        /\ \A i \in DOMAIN q.selects : IsName(q.selects[i])
    BY QueryFacts
  <1>3. q.selects # <<Star>> => \A i \in DOMAIN q.selects : q.selects[i][1] \in {t, NoTable}
    <2> SUFFICES ASSUME q.selects # <<Star>>, NEW i \in DOMAIN q.selects
                 PROVE  q.selects[i][1] \in {t, NoTable}
      OBVIOUS
    <2>1. i \in DOMAIN Selected(q) /\ Selected(q)[i] = Named(q, q.selects[i])
      BY DEF Selected
    <2>2. Named(q, q.selects[i])[1] = t
      BY <1>1, <2>1
    <2> QED
      BY <1>1, <2>2
  <1>4. selects = Selected(q)
    <2>1. CASE q.selects = <<Star>>
      BY <2>1 DEF Selected
    <2>2. CASE q.selects # <<Star>>
      <3>1. \A i \in DOMAIN q.selects : Named(q, q.selects[i]) = <<t, q.selects[i][2]>>
        BY <1>1, <1>2, <1>3, <2>2 DEF IsName
      <3>2. Selected(q) = [i \in DOMAIN q.selects |-> Named(q, q.selects[i])]
        BY <2>2 DEF Selected
      <3> QED
        BY <2>2, <3>1, <3>2
    <2> QED
      BY <2>1, <2>2
  <1> HIDE DEF columns, r
  <1>5. SelectFromOne(q) = IF ~IsResult(r) THEN r ELSE Result(r.names, made)
    <2>1. /\ t \in Tables
          /\ ~(q.selects # <<Star>> /\ \E i \in DOMAIN q.selects : ~(q.selects[i][1] \in {t, NoTable}))
          /\ ~ \E i \in DOMAIN q.ands : ~(q.ands[i].name[1] \in {t, NoTable})
      BY <1>1, <1>3
    <2> QED
      BY <2>1 DEF SelectFromOne, r, columns
  <1> HIDE DEF selects
  <1>6. columns \subseteq Columns(t) /\ \A j \in DOMAIN selects : selects[j] \in N
    <2>1. \A j \in DOMAIN selects : selects[j] = <<t, selects[j][2]>> /\ selects[j][2] \in Columns(t)
      BY <1>1, <1>4
    <2> QED
      BY <2>1 DEF columns
  <1>7. IsPart(r, {t}, N, S)
    <2>1. IsSeq(rows[t]) /\ \A i \in DOMAIN q.ands : IsResult(Predict(t, q.ands[i]))
      BY <1>1 DEF RowsSound
    <2> QED
      BY <1>2, <1>6, <2>1, TablePart DEF r
  <1>8. IsResult(r) /\ IsSeq(s) /\ S \subseteq Combos({t}) /\ Shows(s, S, from)
    BY <1>7 DEF IsPart
  <1>9. /\ IsResult(SelectFromOne(q)) /\ SelectFromOne(q).records = made
    BY <1>5, <1>8 DEF Result, IsResult
  <1>10. IsSeq(made)
    <2>1. Len(s) \in Nat /\ DOMAIN s = 1 .. Len(s)
      BY <1>8, SeqFacts
    <2>2. DOMAIN made = 1 .. Len(s) /\ made = [i \in 1 .. Len(s) |-> made[i]]
      BY <2>1
    <2> HIDE DEF made
    <2> QED
      BY <2>1, <2>2, MakeSeq
  <1>11. \A i \in DOMAIN s, g \in S : s[i] = from[g] => made[i] = to[same[g]]
    <2> SUFFICES ASSUME NEW i \in DOMAIN s, NEW g \in S, s[i] = from[g]
                 PROVE  made[i] = to[g]
      OBVIOUS
    <2>1. g \in Combos({t})
      BY <1>8
    <2>2. from[g] = [n \in N |-> Value(g, n)]
      BY <2>1 DEF Tuples
    <2>3. to[g] = [j \in DOMAIN selects |-> Value(g, selects[j])]
      BY <2>1 DEF Picks
    <2>4. made[i] = [j \in DOMAIN selects |-> from[g][selects[j]]]
      BY DEF InOrder
    <2> HIDE DEF from, to, made, s, N
    <2>5. \A j \in DOMAIN selects : from[g][selects[j]] = Value(g, selects[j])
      BY <1>6, <2>2
    <2> QED
      BY <2>3, <2>4, <2>5
  <1>12. /\ same \in [S -> S] /\ DOMAIN made = DOMAIN s
         /\ \A x, y \in S : same[x] = same[y] => x = y
         /\ \A y \in S : \E x \in S : same[x] = y
    OBVIOUS
  <1> HIDE DEF made, s, from, to, same, S
  <1>13. Renames(same, s, S, from, made, S, to)
    BY <1>11, <1>12 DEF Renames
  <1>14. Shows(made, S, to)
    BY <1>8, <1>13, ShowsRenamed
  <1> QED
    BY <1>4, <1>9, <1>10, <1>14 DEF S, to
-----------------------------------------------------------------------------
(* The meaning of a statement, by rows of its tables.                         *)
Suits(q, g, e) ==
    LET v == Value(g, Named(q, e.name)) IN
    IF e.rhsAttr = NoAttr THEN Matches(e, v)
    ELSE LET w == Value(g, Named(q, e.rhsAttr)) IN v # Null /\ w # Null /\ Compare(e.op, v, w)

Suited(q) == {g \in Combos(Range(q.froms)) : \A i \in DOMAIN q.ands : Suits(q, g, q.ands[i])}

\* A choice of rows by the places of their tables.
RowOf(q, g) == [i \in DOMAIN q.froms |-> g[q.froms[i]]]

\* What a legal statement names is in its tables.
Placed(q) ==
    /\ IsSeq(q.froms) /\ IsInjective(q.froms) /\ Range(q.froms) \subseteq Tables
    /\ \A j \in DOMAIN Selected(q) : /\ Named(q, Selected(q)[j]) = Selected(q)[j]
                                     /\ Selected(q)[j][1] \in Range(q.froms)
    /\ \A i \in DOMAIN q.ands :
          /\ Named(q, q.ands[i].name)[1] \in Range(q.froms)
          /\ q.ands[i].rhsAttr # NoAttr => Named(q, q.ands[i].rhsAttr)[1] \in Range(q.froms)

LEMMA LegalPlaced ==
    ASSUME NEW q \in Queries, Legal(q)
    PROVE  Placed(q)
  <1>1. IsSeq(q.froms) /\ IsInjective(q.froms) /\ Range(q.froms) \subseteq Tables
    BY QueryFacts DEF Legal
  <1>2. CASE Len(q.froms) # 1
    <2>1. Clear(q) /\ Selected(q) = q.selects /\ \A n : Named(q, n) = n
      BY <1>2, LegalClear
    <2> QED
      BY <1>1, <2>1 DEF Placed, Clear, Sound, Proper
  <1>3. CASE Len(q.froms) = 1
    <2> DEFINE t == q.froms[1]
    <2> HIDE DEF t
    <2>0. OneTable(q, t)
      BY <1>3, LegalOne DEF t
    <2>1. /\ t \in Tables /\ t # NoTable /\ Range(q.froms) = {t} /\ DOMAIN q.froms = 1 .. 1
          /\ \A n : Named(q, n) = IF n[1] = NoTable THEN <<t, n[2]>> ELSE n
          /\ \A j \in DOMAIN Selected(q) : /\ Selected(q)[j] = <<t, Selected(q)[j][2]>>
                                           /\ Selected(q)[j][2] \in Columns(t)
          /\ \A i \in DOMAIN q.ands :
                /\ q.ands[i].name[1] \in {t, NoTable} /\ q.ands[i].rhsAttr = NoAttr
                /\ Named(q, q.ands[i].name) = <<t, q.ands[i].name[2]>>
                /\ IsResult(Predict(t, q.ands[i]))
      BY <2>0 DEF OneTable
    <2>2. \A j \in DOMAIN Selected(q) : /\ Named(q, Selected(q)[j]) = Selected(q)[j]
                                        /\ Selected(q)[j][1] \in Range(q.froms)
      <3> TAKE j \in DOMAIN Selected(q)
      <3>1. Selected(q)[j][1] = t
        BY <2>1
      <3> QED
        BY <2>1, <3>1
    <2> QED
      BY <1>1, <2>1, <2>2 DEF Placed
  <1> QED
    BY <1>2, <1>3

\* The join over all tables, and the one table, leave what suits the statement.
LEMMA WithinSuited ==
    ASSUME NEW q \in Queries, Legal(q), Len(q.froms) # 1
    PROVE  Within(q, Range(q.froms)) = Suited(q)
  <1>1. Clear(q) /\ \A n : Named(q, n) = n
    BY LegalClear
  <1>2. \A i \in DOMAIN q.ands : Needs(q.ands[i]) \subseteq Range(q.froms)
    BY <1>1 DEF Clear, Sound, Proper, Needs
  <1>3. \A g, e : Suits(q, g, e) <=> Holds(g, e)
    BY <1>1 DEF Suits, Holds
  <1> QED
    BY <1>2, <1>3 DEF Within, Suited

LEMMA MetSuited ==
    ASSUME NEW q \in Queries, Legal(q), Len(q.froms) = 1, NEW t, t = q.froms[1]
    PROVE  Met(t, q.ands) = Suited(q)
  <1>1. /\ Range(q.froms) = {t}
        /\ \A i \in DOMAIN q.ands : /\ q.ands[i].rhsAttr = NoAttr
                                    /\ Named(q, q.ands[i].name) = <<t, q.ands[i].name[2]>>
    <2>1. OneTable(q, t)
      BY LegalOne
    <2> QED
      BY <2>1 DEF OneTable
  <1>2. \A g : \A i \in DOMAIN q.ands :
           Suits(q, g, q.ands[i])
           <=> Matches(q.ands[i], Value(g, <<t, q.ands[i].name[2]>>))
    BY <1>1 DEF Suits
  <1> QED
    BY <1>1, <1>2 DEF Met, Suited

\* Combinations by table and by place.
LEMMA RowOfFacts ==
    ASSUME NEW q, Placed(q), RowsSound
    PROVE  /\ \A g \in Combos(Range(q.froms)) : RowOf(q, g) \in Combinations(q)
           /\ \A g, h \in Combos(Range(q.froms)) : RowOf(q, g) = RowOf(q, h) => g = h
           /\ \A f \in Combinations(q) : \E g \in Combos(Range(q.froms)) : RowOf(q, g) = f
  <1> DEFINE D == DOMAIN q.froms
             R == Range(q.froms)
  <1>1. \A t \in R : /\ t \in Tables /\ Len(rows[t]) \in Nat /\ Len(rows[t]) <= MaxRows
                     /\ DOMAIN rows[t] = 1 .. Len(rows[t])
    BY SeqFacts DEF Placed, RowsSound
  <1>2. \A i \in D : q.froms[i] \in R
    BY DEF Range
  <1>3. \A t \in R : \E i \in D : q.froms[i] = t
    BY DEF Range
  <1>4. \A i, j \in D : q.froms[i] = q.froms[j] => i = j
    BY DEF Placed, IsInjective
  <1>5. MaxRows \in Nat
    BY BoundAssumption
  <1> HIDE DEF D, R
  <1>6. ASSUME NEW g \in Combos(R)
        PROVE  RowOf(q, g) \in Combinations(q)
    <2>1. \A i \in D : /\ g[q.froms[i]] \in 1 .. MaxRows
                       /\ g[q.froms[i]] <= Len(rows[q.froms[i]])
      <3> TAKE i \in D
      <3>1. g[q.froms[i]] \in 1 .. Len(rows[q.froms[i]])
        BY <1>1, <1>2 DEF Combos
      <3> QED
        BY <1>1, <1>2, <1>5, <3>1
    <2> QED
      BY <2>1 DEF RowOf, Combinations, D
  <1>7. ASSUME NEW g \in Combos(R), NEW h \in Combos(R), RowOf(q, g) = RowOf(q, h)
        PROVE  g = h
    <2>1. g \in [R -> Nat] /\ h \in [R -> Nat]
      BY DEF Combos
    <2>2. \A t \in R : g[t] = h[t]
      <3> TAKE t \in R
      <3> PICK i \in D : q.froms[i] = t
        BY <1>3
      <3>1. RowOf(q, g)[i] = g[t] /\ RowOf(q, h)[i] = h[t]
        BY DEF RowOf, D
      <3> QED
        BY <1>7, <3>1
    <2> QED
      BY <2>1, <2>2
  <1>8. ASSUME NEW f \in Combinations(q)
        PROVE  \E g \in Combos(R) : RowOf(q, g) = f
    <2> DEFINE place == [t \in R |-> CHOOSE i \in D : q.froms[i] = t]
               g == [t \in R |-> f[place[t]]]
    <2>1. \A t \in R : place[t] \in D /\ q.froms[place[t]] = t
      BY <1>3
    <2> HIDE DEF place
    <2>2. /\ f \in [D -> 1 .. MaxRows]
          /\ \A i \in D : f[i] <= Len(rows[q.froms[i]])
      BY DEF Combinations, D
    <2>3. \A t \in R : g[t] \in Nat /\ g[t] \in DOMAIN rows[t]
      <3> TAKE t \in R
      <3>1. g[t] = f[place[t]] /\ f[place[t]] \in 1 .. MaxRows /\ f[place[t]] <= Len(rows[t])
        BY <2>1, <2>2
      <3> QED
        BY <1>1, <1>5, <3>1
    <2>4. g \in Combos(R)
      BY <2>3 DEF Combos
    <2>5. \A i \in D : g[q.froms[i]] = f[i]
      <3> TAKE i \in D
      <3>1. place[q.froms[i]] = i
        BY <1>2, <1>4, <2>1
      <3> QED
        BY <1>2, <3>1
    <2> HIDE DEF g
    <2>6. RowOf(q, g) = [i \in D |-> f[i]]
      BY <2>5 DEF RowOf, D
    <2>7. RowOf(q, g) = f
      BY <2>2, <2>6
    <2> QED
      BY <2>4, <2>7
  <1> QED
    BY <1>6, <1>7, <1>8 DEF R

LEMMA ValueOfRow ==
    ASSUME NEW q, Placed(q), NEW g, NEW n, Named(q, n)[1] \in Range(q.froms)
    PROVE  ValueAt(q, RowOf(q, g), n) = Value(g, Named(q, n))
  <1> DEFINE t == Named(q, n)[1]
             i == CHOOSE j \in DOMAIN q.froms : q.froms[j] = t
  <1>1. \E j \in DOMAIN q.froms : q.froms[j] = t
    BY DEF Range
  <1>2. i \in DOMAIN q.froms /\ q.froms[i] = t
    BY <1>1
  <1>3. Named(q, n)[2] = n[2]
    BY DEF Named
  <1>4. ValueAt(q, RowOf(q, g), n) = rows[q.froms[i]][RowOf(q, g)[i]][n[2]]
    BY DEF ValueAt
  <1> HIDE DEF i
  <1>5. RowOf(q, g)[i] = g[t]
    BY <1>2 DEF RowOf
  <1> QED
    BY <1>2, <1>3, <1>4, <1>5 DEF Value

LEMMA MeaningSuited ==
    ASSUME NEW q, Placed(q), RowsSound
    PROVE  /\ \A g \in Combos(Range(q.froms)) : RowOf(q, g) \in Meaning(q) <=> g \in Suited(q)
           /\ \A g : Answered(q, RowOf(q, g))
                        = [j \in DOMAIN Selected(q) |-> Value(g, Selected(q)[j])]
  <1>1. \A g \in Combos(Range(q.froms)) : RowOf(q, g) \in Combinations(q)
    BY RowOfFacts
  <1>2. ASSUME NEW g, NEW i \in DOMAIN q.ands
        PROVE  Meets(q, RowOf(q, g), q.ands[i]) <=> Suits(q, g, q.ands[i])
    <2> DEFINE e == q.ands[i]
    <2>1. /\ Named(q, e.name)[1] \in Range(q.froms)
          /\ e.rhsAttr # NoAttr => Named(q, e.rhsAttr)[1] \in Range(q.froms)
      BY DEF Placed
    <2> HIDE DEF e
    <2>2. ValueAt(q, RowOf(q, g), e.name) = Value(g, Named(q, e.name))
      BY <2>1, ValueOfRow
    <2>3. e.rhsAttr # NoAttr =>
             ValueAt(q, RowOf(q, g), e.rhsAttr) = Value(g, Named(q, e.rhsAttr))
      BY <2>1, ValueOfRow
    <2>4. Meets(q, RowOf(q, g), e) <=> Suits(q, g, e)
      BY <2>2, <2>3 DEF Meets, Suits
    <2> QED
      BY <2>4 DEF e
  <1>3. \A g \in Combos(Range(q.froms)) : RowOf(q, g) \in Meaning(q) <=> g \in Suited(q)
    BY <1>1, <1>2 DEF Meaning, Suited
  <1>4. ASSUME NEW g
        PROVE  Answered(q, RowOf(q, g)) = [j \in DOMAIN Selected(q) |-> Value(g, Selected(q)[j])]
    <2>1. ASSUME NEW j \in DOMAIN Selected(q)
          PROVE  ValueAt(q, RowOf(q, g), Selected(q)[j]) = Value(g, Selected(q)[j])
      <3> DEFINE n == Selected(q)[j]
      <3>1. Named(q, n) = n /\ n[1] \in Range(q.froms)
        BY DEF Placed
      <3> HIDE DEF n
      <3>2. ValueAt(q, RowOf(q, g), n) = Value(g, n)
        BY <3>1, ValueOfRow
      <3> QED
        BY <3>2 DEF n
    <2> QED
      BY <2>1 DEF Answered
  <1> QED
    BY <1>3, <1>4

\* Records that show what suits a statement show what it means.
LEMMA MeaningShown ==
    ASSUME NEW q, Placed(q), RowsSound, NEW s,
           Shows(s, Suited(q), Picks(Range(q.froms), Selected(q)))
    PROVE  Shows(s, Meaning(q), [f \in Meaning(q) |-> Answered(q, f)])
  <1> DEFINE R == Range(q.froms)
             S == Suited(q)
             T == Meaning(q)
             from == Picks(R, Selected(q))
             to == [f \in T |-> Answered(q, f)]
             c == [g \in S |-> RowOf(q, g)]
  <1>1. /\ \A g, h \in Combos(R) : RowOf(q, g) = RowOf(q, h) => g = h
        /\ \A f \in Combinations(q) : \E g \in Combos(R) : RowOf(q, g) = f
    BY RowOfFacts
  <1>2. /\ \A g \in Combos(R) : RowOf(q, g) \in T <=> g \in S
        /\ \A g : Answered(q, RowOf(q, g)) = [j \in DOMAIN Selected(q) |-> Value(g, Selected(q)[j])]
    BY MeaningSuited
  <1>3. S \subseteq Combos(R) /\ T \subseteq Combinations(q)
    BY DEF Suited, Meaning
  <1> HIDE DEF S, T, R
  <1>4. c \in [S -> T] /\ \A x, y \in S : c[x] = c[y] => x = y
    BY <1>1, <1>2, <1>3
  <1>5. \A f \in T : \E g \in S : c[g] = f
    <2> TAKE f \in T
    <2> PICK g \in Combos(R) : RowOf(q, g) = f
      BY <1>1, <1>3
    <2>1. g \in S
      BY <1>2
    <2> QED
      BY <2>1
  <1>6. \A g \in S : from[g] = to[c[g]]
    <2> TAKE g \in S
    <2>1. c[g] = RowOf(q, g) /\ c[g] \in T /\ g \in Combos(R)
      BY <1>3, <1>4
    <2>2. from[g] = [j \in DOMAIN Selected(q) |-> Value(g, Selected(q)[j])]
      BY <2>1 DEF Picks
    <2>3. to[c[g]] = Answered(q, RowOf(q, g))
      BY <2>1
    <2> QED
      BY <1>2, <2>2, <2>3
  <1>7. Shows(s, S, from)
    BY DEF S, R
  <1> HIDE DEF from, to, c
  <1>8. Renames(c, s, S, from, s, T, to)
    BY <1>4, <1>5, <1>6 DEF Renames
  <1>9. Shows(s, T, to)
    BY <1>7, <1>8, ShowsRenamed
  <1> QED
    BY <1>9 DEF T, to
-----------------------------------------------------------------------------
(* The answer of a legal statement, in a state with sound rows.               *)
Shown(q, r) ==
    IsSeq(r.records) /\ Shows(r.records, Meaning(q), [f \in Meaning(q) |-> Answered(q, f)])

\* A statement that suits no combination of rows means nothing.
LEMMA MeaningEmpty ==
    ASSUME NEW q, Placed(q), RowsSound, Suited(q) = {}
    PROVE  Meaning(q) = {}
  <1>1. /\ \A f \in Combinations(q) : \E g \in Combos(Range(q.froms)) : RowOf(q, g) = f
        /\ \A g \in Combos(Range(q.froms)) : RowOf(q, g) \in Meaning(q) <=> g \in Suited(q)
    BY RowOfFacts, MeaningSuited
  <1> QED
    BY <1>1 DEF Meaning

\* One table: the answer is there, and shows the meaning.
LEMMA OneShown ==
    ASSUME NEW q \in Queries, Legal(q), RowsSound, Len(q.froms) = 1
    PROVE  IsResult(SelectFromOne(q)) /\ Shown(q, SelectFromOne(q))
  <1> DEFINE t == q.froms[1]
             r == SelectFromOne(q)
  <1> HIDE DEF t
  <1>1. Placed(q)
    BY LegalPlaced
  <1>2. Met(t, q.ands) = Suited(q)
    BY MetSuited DEF t
  <1>3. Range(q.froms) = {t}
    <2>1. OneTable(q, t)
      BY LegalOne DEF t
    <2> QED
      BY <2>1 DEF OneTable
  <1>4. /\ IsResult(r) /\ IsSeq(r.records)
        /\ Shows(r.records, Met(t, q.ands), Picks({t}, Selected(q)))
    BY OneAnswers DEF t
  <1> HIDE DEF r
  <1>5. Shows(r.records, Suited(q), Picks(Range(q.froms), Selected(q)))
    BY <1>2, <1>3, <1>4
  <1>6. Shows(r.records, Meaning(q), [f \in Meaning(q) |-> Answered(q, f)])
    BY <1>1, <1>5, MeaningShown
  <1> QED
    BY <1>4, <1>6 DEF Shown, r

\* More tables: an outcome that answers shows the meaning, or there is none.
LEMMA JoinShown ==
    ASSUME NEW q \in Queries, Legal(q), RowsSound, Len(q.froms) # 1, NEW r, Answers(q, r)
    PROVE  IF IsResult(r) THEN IsInjective(q.selects) => Shown(q, r) ELSE Meaning(q) = {}
  <1>1. Placed(q)
    BY LegalPlaced
  <1>2. Within(q, Range(q.froms)) = Suited(q)
    BY WithinSuited
  <1>3. Selected(q) = q.selects
    BY LegalClear
  <1>4. CASE ~IsResult(r)
    <2>1. Suited(q) = {}
      BY <1>2, <1>4 DEF Answers
    <2> QED
      BY <1>1, <1>4, <2>1, MeaningEmpty
  <1>5. CASE IsResult(r) /\ IsInjective(q.selects)
    <2>1. IsSeq(r.records) /\ Shows(r.records, Suited(q), Picks(Range(q.froms), Selected(q)))
      BY <1>2, <1>3, <1>5 DEF Answers
    <2>2. Shows(r.records, Meaning(q), [f \in Meaning(q) |-> Answered(q, f)])
      BY <1>1, <2>1, MeaningShown
    <2> QED
      BY <1>5, <2>1, <2>2 DEF Shown
  <1> QED
    BY <1>4, <1>5

\* The answer of a legal statement: a result that shows the meaning, if no column
\* is selected twice; nothing else but for a join that means nothing, or whose
\* second table lacks a key.
LEMMA AnswerShown ==
    ASSUME NEW q \in Queries, Legal(q), IntKeys(q), RowsSound
    PROVE  IF IsResult(Answer(q))
           THEN (Len(q.froms) > 1 => IsInjective(q.selects)) => Shown(q, Answer(q))
           ELSE Len(q.froms) > 1 /\ (Meaning(q) = {} \/ ~KeysPresent(q))
  <1>1. Len(q.froms) \in Nat /\ Len(q.froms) # 0
    <2>1. IsSeq(q.froms) /\ q.froms # << >>
      BY QueryFacts DEF Legal
    <2> QED
      BY <2>1, SeqFacts, EmptySeq DEF IsSeq
  <1>2. CASE Len(q.froms) = 1
    <2>1. Answer(q) = SelectFromOne(q)
      BY <1>2 DEF Answer
    <2> QED
      BY <1>2, <2>1, OneShown
  <1>3. CASE Len(q.froms) = 2
    <2>1. Answer(q) = SelectFromTwo(q)
      BY <1>3 DEF Answer
    <2>2. \/ Answers(q, Answer(q))
          \/ ~IsResult(Answer(q)) /\ ~KeysPresent(q)
      BY <1>3, <2>1, TwoAnswers
    <2>3. CASE Answers(q, Answer(q))
      BY <1>3, <2>3, JoinShown
    <2> QED
      BY <1>3, <2>2, <2>3
  <1>4. CASE Len(q.froms) \notin {0, 1, 2}
    <2>1. Answer(q) = SelectFromMany(q)
      BY <1>4 DEF Answer
    <2>2. Clear(q) /\ \A t \in Tables : IsSeq(rows[t])
      <3>1. Clear(q)
        BY <1>4, LegalClear
      <3> QED
        BY <3>1 DEF RowsSound
    <2>3. Answers(q, Answer(q))
      BY <1>1, <2>1, <2>2, ManyAnswers
    <2>4. Len(q.froms) > 1
      <3>1. \A n \in Nat : n \notin {0, 1, 2} => n > 1
        OBVIOUS
      <3> QED
        BY <1>1, <1>4, <3>1
    <2>5. IF IsResult(Answer(q))
          THEN IsInjective(q.selects) => Shown(q, Answer(q)) ELSE Meaning(q) = {}
      BY <1>4, <2>3, JoinShown
    <2> QED
      BY <2>4, <2>5
  <1> QED
    BY <1>1, <1>2, <1>3, <1>4

\* What shows the meaning has each row of it as often as it is meant.
LEMMA ShownExact ==
    ASSUME NEW q, NEW r, Shown(q, r)
    PROVE  /\ Len(r.records) = Cardinality(Meaning(q))
           /\ \A f \in Meaning(q) :
                 Cardinality({i \in DOMAIN r.records : r.records[i] = Answered(q, f)})
                   = Cardinality({g \in Meaning(q) : Answered(q, g) = Answered(q, f)})
  <1> DEFINE s == r.records
             S == Meaning(q)
             val == [f \in Meaning(q) |-> Answered(q, f)]
  <1>1. IsSeq(s) /\ Shows(s, S, val)
    BY DEF Shown
  <1>2. \A f \in S : val[f] = Answered(q, f)
    OBVIOUS
  <1> HIDE DEF s, S, val
  <1>3. /\ IsFiniteSet(S) /\ Cardinality(S) = Len(s)
        /\ \A v : Cardinality(Standing(s, v)) = Cardinality(Having(S, val, v))
    BY <1>1, ShowsCount
  <1>4. ASSUME NEW f \in S
        PROVE  Cardinality({i \in DOMAIN s : s[i] = Answered(q, f)})
                 = Cardinality({g \in S : Answered(q, g) = Answered(q, f)})
    <2>1. Standing(s, Answered(q, f)) = {i \in DOMAIN s : s[i] = Answered(q, f)}
      BY DEF Standing
    <2>2. Having(S, val, Answered(q, f)) = {g \in S : Answered(q, g) = Answered(q, f)}
      BY <1>2 DEF Having
    <2> QED
      BY <1>3, <2>1, <2>2
  <1> QED
    BY <1>3, <1>4 DEF s, S
-----------------------------------------------------------------------------
(* The inductive invariant: the rows are sound, and a statement that has been *)
(* executed has the answer it has on the rows that are there.                 *)
AnswerKept == answer = None \/ \E q \in Queries : query = q /\ answer = Answer(q)

IInv ==
    /\ rows = [t \in Tables |-> rows[t]]
    /\ RowsSound
    /\ AnswerKept

\* What RowsSound says of one table.
RowGood(t, s) ==
    /\ IsSeq(s) /\ Len(s) <= MaxRows
    /\ \A k \in DOMAIN s, c \in Columns(t) :
          /\ s[k][c] \in Data[c]
          /\ c \in Schema[t].key =>
                /\ s[k][c] # Null
                /\ \A j \in DOMAIN s : j < k => s[j][c] < s[k][c]

LEMMA AppendFacts ==
    ASSUME NEW s, IsSeq(s), NEW r
    PROVE  /\ IsSeq(Append(s, r)) /\ Len(Append(s, r)) = Len(s) + 1
           /\ DOMAIN Append(s, r) = 1 .. Len(s) + 1
           /\ \A k \in 1 .. Len(s) : Append(s, r)[k] = s[k]
           /\ Append(s, r)[Len(s) + 1] = r
  <1> DEFINE A == Range(s) \cup {r}
             n == Len(s)
             a == Append(s, r)
  <1>1. s \in Seq(A) /\ r \in A
    BY SeqFacts DEF IsSeq
  <1> HIDE DEF A
  <1>2. /\ a \in Seq(A) /\ Len(a) = n + 1
        /\ \A i \in 1 .. n : a[i] = s[i]
        /\ a[n + 1] = r
    BY <1>1, AppendProperties
  <1>3. n \in Nat
    BY SeqFacts
  <1>4. DOMAIN a = 1 .. n + 1 /\ a \in [1 .. n + 1 -> A]
    BY <1>2, LenProperties
  <1> HIDE DEF a, n
  <1>5. n + 1 \in Nat /\ a = [i \in 1 .. n + 1 |-> a[i]]
    BY <1>3, <1>4
  <1>6. IsSeq(a)
    BY <1>4, <1>5, MakeSeq
  <1> QED
    BY <1>2, <1>4, <1>6 DEF a, n

\* A row whose keys are above those of the last row.
LEMMA RowAdded ==
    ASSUME NEW t \in Tables, NEW s, RowGood(t, s), Len(s) < MaxRows, NEW r,
           \A c \in Columns(t) :
              r[c] \in Data[c] \ (IF c \in Schema[t].key THEN {Null} ELSE {}),
           s # << >> => \A c \in Schema[t].key : Last(s)[c] < r[c]
    PROVE  RowGood(t, Append(s, r))
  <1> DEFINE n == Len(s)
             a == Append(s, r)
  <1>1. IsSeq(s) /\ n \in Nat /\ DOMAIN s = 1 .. n /\ MaxRows \in Nat
    BY SeqFacts, BoundAssumption DEF RowGood
  <1>2. /\ IsSeq(a) /\ Len(a) = n + 1 /\ DOMAIN a = 1 .. n + 1
        /\ \A k \in 1 .. n : a[k] = s[k]
        /\ a[n + 1] = r
    BY <1>1, AppendFacts
  <1>3. n # 0 => s # << >> /\ Last(s) = s[n]
    BY DEF Last
  <1>4. n < MaxRows
    OBVIOUS
  <1>5. \A k \in 1 .. n, c \in Columns(t) :
           /\ s[k][c] \in Data[c]
           /\ c \in Schema[t].key =>
                 /\ s[k][c] # Null
                 /\ \A j \in 1 .. n : j < k => s[j][c] < s[k][c]
    BY <1>1 DEF RowGood
  <1> HIDE DEF a, n
  <1>6. ASSUME NEW k \in 1 .. n + 1, NEW c \in Columns(t)
        PROVE  /\ a[k][c] \in Data[c]
               /\ c \in Schema[t].key =>
                     /\ a[k][c] # Null
                     /\ \A j \in 1 .. n + 1 : j < k => a[j][c] < a[k][c]
    <2>1. CASE k \in 1 .. n
      <3>1. \A j \in 1 .. n + 1 : j < k => j \in 1 .. n
        BY <1>1, <2>1
      <3> QED
        BY <1>2, <1>5, <2>1, <3>1
    <2>2. CASE k \notin 1 .. n
      <3>1. k = n + 1 /\ a[k] = r
        BY <1>1, <1>2, <2>2
      <3>2. ASSUME c \in Schema[t].key, NEW j \in 1 .. n + 1, j < k
            PROVE  a[j][c] < a[k][c]
        <4>1. j \in 1 .. n /\ n \in 1 .. n /\ n # 0 /\ (j = n \/ j < n)
          BY <1>1, <3>1, <3>2
        <4>2. s[n][c] < r[c]
          BY <1>3, <3>2, <4>1
        <4>3. s[j][c] = s[n][c] \/ s[j][c] < s[n][c]
          BY <1>5, <3>2, <4>1
        <4>4. s[j][c] \in Int /\ s[n][c] \in Int /\ r[c] \in Int
          <5>1. Data[c] \ {Null} \subseteq Int
            BY SchemaAssumption DEF Columns
          <5>2. r[c] \in Data[c] \ {Null}
            BY <3>2
          <5>3. s[j][c] \in Data[c] \ {Null} /\ s[n][c] \in Data[c] \ {Null}
            BY <1>5, <3>2, <4>1
          <5> QED
            BY <5>1, <5>2, <5>3
        <4>5. s[j][c] < r[c]
          BY <4>2, <4>3, <4>4
        <4> QED
          BY <1>2, <3>1, <4>1, <4>5
      <3>3. r[c] \in Data[c] /\ (c \in Schema[t].key => r[c] # Null)
        OBVIOUS
      <3> QED
        BY <3>1, <3>2, <3>3
    <2> QED
      BY <2>1, <2>2
  <1> QED
    BY <1>1, <1>2, <1>4, <1>6 DEF RowGood, a
-----------------------------------------------------------------------------
(* An answer depends on nothing but the rows.                                 *)
LEMMA AnswerStays ==
    ASSUME UNCHANGED rows, NEW q
    PROVE  Answer(q)' = Answer(q)
  <1>1. ASSUME NEW t
        PROVE  SelectOne(q, t)' = SelectOne(q, t)
    BY DEF TableSelect, SelectOne
  <1>2. SelectFromMany(q)' = SelectFromMany(q)
    BY DEF TableSelect, SelectOne, SelectFromMany
  <1>3. SelectFromOne(q)' = SelectFromOne(q)
    BY DEF TableSelect, SelectFromOne
  <1>4. ASSUME NEW e
        PROVE  KeyJoin(q, e)' = KeyJoin(q, e)
    <2>1. SelectOne(q, e.rhsAttr[1])' = SelectOne(q, e.rhsAttr[1])
      BY <1>1
    <2>2. \A record : KeyLookup(q, e, record)' = KeyLookup(q, e, record)
      BY DEF TableSelect, KeyLookup
    <2> QED
      BY <2>1, <2>2 DEF KeyJoin
  <1>5. SelectFromTwo(q)' = SelectFromTwo(q)
    BY <1>2, <1>4 DEF SelectFromTwo, SelectInSeq, IsKeyJoin
  <1> QED
    BY <1>2, <1>3, <1>5 DEF Answer
-----------------------------------------------------------------------------
(* The theorems.                                                              *)
LEMMA StartsKept == Init => IInv
  <1> SUFFICES ASSUME Init PROVE IInv
    OBVIOUS
  <1>1. ASSUME NEW t \in Tables
        PROVE  RowGood(t, rows[t])
    <2>1. rows[t] = << >>
      BY DEF Init
    <2>2. IsSeq(<< >>) /\ Len(<< >>) = 0 /\ DOMAIN << >> = {}
      BY EmptySeq DEF IsSeq
    <2> QED
      BY <2>1, <2>2, BoundAssumption DEF RowGood
  <1>2. RowsSound
    BY <1>1 DEF RowGood, RowsSound
  <1> QED
    BY <1>2 DEF Init, IInv, AnswerKept

\* INSERT comes between statements only: no answer is about older rows.
LEMMA InsertKept ==
    ASSUME IInv, NEW t \in Tables, Insert(t)
    PROVE  IInv'
  <1>1. rows = [u \in Tables |-> rows[u]] /\ \A u \in Tables : RowGood(u, rows[u])
    BY DEF IInv, RowsSound, RowGood
  <1>2. PICK r \in [Columns(t) -> UNION {Data[c] : c \in Columns(t)}] :
           /\ \A c \in Columns(t) :
                 r[c] \in Data[c] \ (IF c \in Schema[t].key THEN {Null} ELSE {})
           /\ rows[t] # << >> => \A c \in Schema[t].key : Last(rows[t])[c] < r[c]
           /\ rows' = [rows EXCEPT ![t] = Append(@, r)]
    BY DEF Insert
  <1>3. Len(rows[t]) < MaxRows /\ answer' = None
    BY DEF Insert
  <1>4. RowGood(t, Append(rows[t], r))
    BY <1>1, <1>2, <1>3, RowAdded
  <1>5. /\ rows' = [u \in Tables |-> rows'[u]]
        /\ \A u \in Tables : rows'[u] = IF u = t THEN Append(rows[t], r) ELSE rows[u]
    BY <1>1, <1>2
  <1>6. \A u \in Tables : RowGood(u, rows'[u])
    BY <1>1, <1>4, <1>5
  <1>7. RowsSound'
    BY <1>6 DEF RowsSound, RowGood
  <1> QED
    BY <1>3, <1>5, <1>7 DEF IInv, AnswerKept

LEMMA SelectKept ==
    ASSUME IInv, NEW q \in Queries, Select(q)
    PROVE  IInv'
  <1>1. rows' = rows /\ query' = q /\ answer' = Answer(q)
    BY DEF Select
  <1>2. Answer(q)' = Answer(q)
    BY <1>1, AnswerStays
  <1>3. AnswerKept'
    BY <1>1, <1>2 DEF AnswerKept
  <1> QED
    BY <1>1, <1>3 DEF IInv, RowsSound

LEMMA ReturnKept ==
    ASSUME IInv, Return
    PROVE  IInv'
  BY DEF IInv, Return, RowsSound, AnswerKept

LEMMA StutterKept ==
    ASSUME IInv, UNCHANGED vars
    PROVE  IInv'
  <1>1. rows' = rows /\ query' = query /\ answer' = answer
    BY DEF vars
  <1>2. AnswerKept'
    <2>1. \A q : Answer(q)' = Answer(q)
      BY <1>1, AnswerStays
    <2> QED
      BY <1>1, <2>1 DEF IInv, AnswerKept
  <1> QED
    BY <1>1, <1>2 DEF IInv, RowsSound

\* In every state the rows of a table have their keys, in ascending order, and an
\* answer is that of its statement on the rows that are there (INSERT, SELECT).
THEOREM Invariance == Spec => []IInv
  <1>1. IInv /\ [Next]_vars => IInv'
    BY InsertKept, SelectKept, ReturnKept, StutterKept DEF Next
  <1> QED
    BY <1>1, StartsKept, PTL DEF Spec

LEMMA KeptExact == IInv => AnswersExact
  <1> SUFFICES ASSUME IInv, IsResult(answer), Legal(query), IntKeys(query),
                      Len(query.froms) > 1 => IsInjective(query.selects)
               PROVE  /\ Len(answer.records) = Cardinality(Meaning(query))
                      /\ \A f \in Meaning(query) :
                            Cardinality({i \in DOMAIN answer.records :
                                            answer.records[i] = Answered(query, f)})
                              = Cardinality({g \in Meaning(query) :
                                                Answered(query, g) = Answered(query, f)})
    BY DEF AnswersExact
  <1>1. answer # None
    BY DEF IsResult, None
  <1>2. query \in Queries /\ answer = Answer(query) /\ RowsSound
    BY <1>1 DEF IInv, AnswerKept
  <1>3. Shown(query, answer)
    BY <1>2, AnswerShown
  <1> QED
    BY <1>3, ShownExact

\* A legal SELECT that is answered is answered with the rows it means, each as
\* often as it means it, whichever of selectFromOne, selectFromTwo and
\* selectFromMany ran, and in whatever order the tables were joined.
THEOREM AnswersAreExact == Spec => []AnswersExact
  BY Invariance, KeptExact, PTL

LEMMA KeptAnswered == IInv => SelectAnswered
  <1> SUFFICES ASSUME IInv, answer # None, Legal(query), IntKeys(query)
               PROVE  \/ IsResult(answer)
                      \/ Len(query.froms) > 1 /\ (Meaning(query) = {} \/ ~KeysPresent(query))
    BY DEF SelectAnswered
  <1>1. query \in Queries /\ answer = Answer(query) /\ RowsSound
    BY DEF IInv, AnswerKept
  <1> QED
    BY <1>1, AnswerShown

\* A legal SELECT about one table is answered, and so is a join that means some
\* rows, unless a row of its second table has no value for the key: then no
\* intermediate result is empty when makePredict reads its first record.
THEOREM LegalSelectsAreAnswered == Spec => []SelectAnswered
  BY Invariance, KeptAnswered, PTL
=============================================================================

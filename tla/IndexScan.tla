------------------------------ MODULE IndexScan ------------------------------
(* The scans of an index: IndexIterator, and the loops of                     *)
(* Table::selectWithIndex that collect the RIDs for a condition "column op    *)
(* value".  Nothing modifies the index while an iterator lives (insertEntry   *)
(* and deleteEntry would throw), so a scan is a function of the state.        *)
EXTENDS Index

\* An iterator: the page, the slot and the end flag.
It(p, slot) == [page |-> p, slot |-> slot, end |-> FALSE]
EndIt       == [page |-> 0, slot |-> 0, end |-> TRUE]
Iterators   == [page : PageIds, slot : Nat, end : BOOLEAN]

\* Index::lowerBound(data, rid), which the iterators lowerBound(data) and
\* upperBound(data) start from: a position behind a leaf is the next leaf's.
IteratorAt(k) ==
    LET p == LeafOf(k)
        i == LowerBound(node[p], k)
    IN  IF i <= Len(node[p].slots) THEN It(p, i)
        ELSE IF node[p].next = NoNode THEN EndIt
        ELSE It(node[p].next, 1)

\* Index::begin: the leftmost leaf, whether it is empty or not.
Begin ==
    LET down == [p \in PageIds |->
                    IF node[p].leaf THEN p ELSE node[p].slots[1].son]
    IN  It(Iterates(down, root, MaxHeight)[MaxHeight], 1)

\* Faulty: stays behind the last slot of a leaf.
FaultyMoveNext(it) ==
    IF it.end THEN it
    ELSE IF it.slot # Len(node[it.page].slots) THEN It(it.page, it.slot + 1)
    ELSE IF node[it.page].next = NoNode THEN EndIt
    ELSE It(it.page, it.slot + 1)

\* IndexIterator::moveNext: with slots counted from 1, the slot is behind the
\* last one when it was the last.
MoveNext(it) ==
    IF it.end THEN it
    ELSE IF it.slot # Len(node[it.page].slots) THEN It(it.page, it.slot + 1)
    ELSE IF node[it.page].next = NoNode THEN EndIt
    ELSE It(node[it.page].next, 1)

\* The iterators that a loop which moves it on gets to see.
Moves(it) ==
    LET next == [i \in Iterators |-> MoveNext(i)]
    IN  Iterates(next, it, Cardinality(Entries) + 1)

InPage(it) == ~it.end /\ it.slot \in DOMAIN node[it.page].slots
KeyAt(it)  == node[it.page].slots[it.slot].key

Garbage == <<-1>>     \* the loop leaves the slots of the page, or never ends

\* What a loop collects that ends at the first of the positions in stops.
Collected(moves, stops) ==
    IF stops = {} \/ \E n \in 1 .. Min(stops) - 1 : ~InPage(moves[n])
    THEN Garbage
    ELSE [n \in 1 .. Min(stops) - 1 |-> KeyAt(moves[n])]

\* for (; it0 != it1; it0.moveNext())
UpTo(it0, it1) ==
    LET moves == Moves(it0)
    IN  Collected(moves, {n \in DOMAIN moves : moves[n] = it1})

\* for (; it0.isEnd(); it0.moveNext())
WhileAtEnd(it0) ==
    LET moves == Moves(it0)
    IN  Collected(moves, {n \in DOMAIN moves : ~moves[n].end})

\* Table::selectWithIndex
SelectEQ(d) == UpTo(IteratorAt(LowKey(d)), IteratorAt(HighKey(d)))
SelectLT(d) == UpTo(Begin, IteratorAt(LowKey(d)))
SelectLE(d) == UpTo(Begin, IteratorAt(HighKey(d)))
SelectGT(d) == WhileAtEnd(IteratorAt(HighKey(d)))
SelectGE(d) == WhileAtEnd(IteratorAt(LowKey(d)))

\* Index::containsEntry(data)
ContainsData(d) == IteratorAt(LowKey(d)) # IteratorAt(HighKey(d))
-----------------------------------------------------------------------------
\* A scan that returns the entries with data in S, once each, in their order.
Returns(scan, S) ==
    /\ Range(scan) = {k \in Contents : DataOf(k) \in S}
    /\ \A i, j \in DOMAIN scan : i < j => scan[i] < scan[j]

\* A scan for an equal value returns all records with it, once, in order,
\* wherever splits and merges have put them.
EqualScanCorrect == \A d \in Data : Returns(SelectEQ(d), {d})

\* The scans for lesser values return all their records, unless the index is
\* empty: begin() is then no end.
LessScansCorrect ==
    Contents # {} =>
        \A d \in Data :
            /\ Returns(SelectLT(d), {e \in Data : e < d})
            /\ Returns(SelectLE(d), {e \in Data : e <= d})

\* The checks of unique columns and foreign keys see every value.
ContainsDataCorrect ==
    \A d \in Data : ContainsData(d) <=> \E k \in Contents : DataOf(k) = d

\* FinalReport.md:230: the iterator takes the RIDs of all records that meet the
\* condition.  The loops for > and >= run while the iterator is at its end.
GreaterScansCorrect ==
    Contents # {} =>
        \A d \in Data :
            /\ Returns(SelectGT(d), {e \in Data : e > d})
            /\ Returns(SelectGE(d), {e \in Data : e >= d})
=============================================================================

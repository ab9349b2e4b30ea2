-------------------------- MODULE IndexEntityLists --------------------------
(* Linked lists in a record set, meant for index entries with equal keys:     *)
(* IndexEntityLists.  A node is a record of the set "**IndexEntityList**"     *)
(* with the RID of an entity and the RID of the next node; RID(0, 0), which   *)
(* lies on the page of the database's own data, ends a list.  The head is a   *)
(* node without an entity, and its RID is what the callers keep.              *)
(*                                                                            *)
(* The record set is the one that module RecordStore promises: an insertion   *)
(* returns some RID that no record has.                                       *)
EXTENDS Integers, Sequences, FiniteSets

CONSTANTS RIDs,       \* the RIDs that records of the set may get
          Null,       \* RID(): no record has it
          Entities    \* what is put into the lists: RIDs of other sets

ASSUME NullAssumption == Null \notin RIDs

VARIABLES nodes,   \* RID -> [dataRID, nextRID], the records of the set
          heads    \* the heads that callers hold

vars == <<nodes, heads>>

Node == [dataRID: Entities \cup {Null}, nextRID: RIDs \cup {Null}]

TypeOK ==
    /\ DOMAIN nodes \subseteq RIDs
    /\ \A r \in DOMAIN nodes : nodes[r] \in Node
    /\ heads \subseteq DOMAIN nodes
-----------------------------------------------------------------------------
\* RecordSet::insert and remove, as far as these lists see them.
WithNode(ns, r, node) ==
    [s \in DOMAIN ns \cup {r} |-> IF s = r THEN node ELSE ns[s]]
Without(ns, R) == [s \in DOMAIN ns \ R |-> ns[s]]

\* The nodes of the list of head h, in the order in which the loops of
\* deleteList, removeEntity and containsEntity reach them.
Chain(h) ==
    LET walk[n \in 0 .. Cardinality(DOMAIN nodes)] ==
            IF n = 0 THEN <<h>>
            ELSE LET before == walk[n - 1]
                     next   == nodes[before[Len(before)]].nextRID
                 IN IF next \in DOMAIN nodes THEN Append(before, next) ELSE before
    IN walk[Cardinality(DOMAIN nodes)]
ChainSet(h) == LET c == Chain(h) IN {c[i] : i \in DOMAIN c}
-----------------------------------------------------------------------------
Init ==
    /\ nodes = [r \in {} |-> r]
    /\ heads = {}

CreateList ==
    \E r \in RIDs \ DOMAIN nodes :
        /\ nodes' = WithNode(nodes, r, [dataRID |-> Null, nextRID |-> Null])
        /\ heads' = heads \cup {r}

\* deleteList: the head and every node behind it.
DeleteList(h) ==
    /\ nodes' = Without(nodes, ChainSet(h))
    /\ heads' = heads \ {h}

\* insertEntity: a new node between the head and the node behind it.
InsertEntity(e, h) ==
    \E r \in RIDs \ DOMAIN nodes :
        /\ nodes' = WithNode(WithNode(nodes, r,
                                      [dataRID |-> e, nextRID |-> nodes[h].nextRID]),
                             h, [nodes[h] EXCEPT !.nextRID = r])
        /\ UNCHANGED heads

\* Faulty: the head's own dataRID is looked at too.
FaultyContainsEntity(e, h) == \E r \in ChainSet(h) : nodes[r].dataRID = e

\* containsEntity and isEmpty begin behind the head.
ContainsEntity(e, h) ==
    \E i \in 2 .. Len(Chain(h)) : nodes[Chain(h)[i]].dataRID = e
IsEmpty(h) == nodes[h].nextRID = Null

\* Faulty: the node before is given the removed node's place in the list.
FaultyRemoveEntity(e, h) ==
    \E i \in 2 .. Len(Chain(h)) :
        LET r == Chain(h)[i] IN
        /\ nodes[r].dataRID = e
        /\ \A j \in 2 .. i - 1 : nodes[Chain(h)[j]].dataRID # e
        /\ nodes' = Without(WithNode(nodes, h, [nodes[h] EXCEPT
                                                  !.nextRID = nodes[r].nextRID]), {r})
        /\ UNCHANGED heads

\* removeEntity: the first node with e; the node before it gets its nextRID.
\* Without such a node it throws and nothing has changed.
RemoveEntity(e, h) ==
    \E i \in 2 .. Len(Chain(h)) :
        LET r == Chain(h)[i]  last == Chain(h)[i - 1] IN
        /\ nodes[r].dataRID = e
        /\ \A j \in 2 .. i - 1 : nodes[Chain(h)[j]].dataRID # e
        /\ nodes' = Without(WithNode(nodes, last, [nodes[last] EXCEPT
                                                     !.nextRID = nodes[r].nextRID]), {r})
        /\ UNCHANGED heads

Next ==
    \/ CreateList
    \/ \E h \in heads :
           \/ DeleteList(h)
           \/ \E e \in Entities : InsertEntity(e, h) \/ RemoveEntity(e, h)

Spec == Init /\ [][Next]_vars
-----------------------------------------------------------------------------
\* Every record of the set belongs to the list of exactly one head, and every
\* list ends: no step leaks a node, shares it or closes a circle.
ListsPartition ==
    /\ DOMAIN nodes = UNION {ChainSet(h) : h \in heads}
    /\ \A h \in heads : /\ nodes[Chain(h)[Len(Chain(h))]].nextRID = Null
                        /\ ChainSet(h) \cap heads = {h}
    /\ \A g, h \in heads : g # h => ChainSet(g) \cap ChainSet(h) = {}

Listed(h) ==
    LET c == Chain(h) IN [i \in 1 .. Len(c) - 1 |-> nodes[c[i + 1]].dataRID]

\* containsEntity and isEmpty answer for what is listed, whatever the entities
\* are: RID(0, 0) is an entity as any other.
QueriesAgree ==
    \A h \in heads :
        /\ IsEmpty(h) <=> Listed(h) = <<>>
        /\ \A e \in Entities \cup {Null} :
               ContainsEntity(e, h) <=> e \in {Listed(h)[i] : i \in DOMAIN Listed(h)}

\* The set of nodes is nothing but the lists of the heads that are held, and the
\* queries answer for them.
ListsSound == ListsPartition /\ QueriesAgree

\* The nodes keep the promise of EntityLists: each operation does to the list
\* of its head what it does to a sequence, and nothing to the others.
Abstract == INSTANCE EntityLists WITH
    Heads <- RIDs, lists <- [h \in heads |-> Listed(h)]
ImplementsEntityLists == Abstract!Spec
=============================================================================

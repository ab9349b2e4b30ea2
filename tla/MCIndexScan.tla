----------------------------- MODULE MCIndexScan -----------------------------
(* The scans of an index of a few entries.                                    *)
EXTENDS IndexScan

\* Which pages the nodes are on does not matter to the tree: states that
\* differ only in page numbers are taken for one.
Shape ==
    LET levels == Levels
    IN  <<[d \in DOMAIN levels |-> {KeysOf(p) : p \in levels[d]}], Cardinality(used)>>
=============================================================================

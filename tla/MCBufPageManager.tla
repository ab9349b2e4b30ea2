-------------------------- MODULE MCBufPageManager --------------------------
(* The page cache on a file of a few pages and fewer frames than pages, so    *)
(* that evictions, write-backs and chains with several elements happen.       *)
EXTENDS BufPageManager, TLC

Symmetry == Permutations(Contents)
=============================================================================

------------------------ MODULE MCIndexEntityLists ------------------------
(* Entity lists for TLC: six records, so three lists of one entity, or two  *)
(* with four entities, or one with five of which some are equal.  Which RID *)
(* a record gets makes no difference: RIDs are interchangeable.             *)
EXTENDS IndexEntityLists, TLC

RIDSymmetry == Permutations(RIDs)
===========================================================================

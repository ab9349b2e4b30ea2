------------------------ MODULE MCDatabaseManager ------------------------
(* Databases for TLC: two names, four file ids in words of two bits.        *)
EXTENDS DatabaseManager

MCContents == [of: Names, rows: 0 .. MaxRows]
==========================================================================

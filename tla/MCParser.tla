------------------------------ MODULE MCParser ------------------------------
(* The parser on texts of any length.                                         *)
EXTENDS Parser
=============================================================================

----------------------------- MODULE TokenType -----------------------------
(* TokenType and the reserved words of the tokenizer.                         *)

\* Word, in lower case -> its token.
Keywords ==
    [and |-> "K_AND", create |-> "K_CREATE", database |-> "K_DATABASE",
     databases |-> "K_DATABASES", date |-> "K_DATE", delete |-> "K_DELETE",
     desc |-> "K_DESC", drop |-> "K_DROP", float |-> "K_FLOAT", foreign |-> "K_FOREIGN",
     from |-> "K_FROM", groupby |-> "K_GROUPBY", index |-> "K_INDEX",
     insert |-> "K_INSERT", int |-> "K_INT", into |-> "K_INTO", is |-> "K_IS",
     like |-> "K_LIKE", key |-> "K_KEY", not |-> "K_NOT", null |-> "K_NULL",
     primary |-> "K_PRIMARY", references |-> "K_REFERENCES", select |-> "K_SELECT",
     set |-> "K_SET", show |-> "K_SHOW", table |-> "K_TABLE", tables |-> "K_TABLES",
     unique |-> "K_UNIQUE", update |-> "K_UPDATE", use |-> "K_USE",
     values |-> "K_VALUES", varchar |-> "K_VARCHAR", where |-> "K_WHERE"]

Marks == {"IDENTIFIER", "STRING", "INT", "FLOAT", "P_LPARENT", "P_RPARENT",
          "P_SEMICOLON", "P_COMMA", "P_DOT", "P_STAR",
          "P_EQ", "P_NE", "P_GE", "P_G", "P_L", "P_LE"}
TokenTypes == Marks \cup {Keywords[w] : w \in DOMAIN Keywords}
Exceptions == {"ParseError", "out_of_range"}   \* what next may throw
=============================================================================

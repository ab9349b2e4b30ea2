----------------------------- MODULE Tokenizer -----------------------------
(* The tokens of a text: Tokenizer::next as an operator on a text and a       *)
(* position.  A text is a sequence of characters; a token is the type that    *)
(* next returns with the positions of its characters.  What a word, a number  *)
(* or a string is converted to afterwards is left out, but not that the value *)
(* of an INT may be too large for std::stoi.  A letter may stand for several   *)
(* of the program, so that a keyword is a word of one letter.                 *)
EXTENDS TokenType, Integers, SequencesExt

CONSTANTS Space, Newline,     \* std::isspace; Newline is one of Space
          Digits, Letters,    \* std::isdigit; std::isalpha and "_"
          Lower(_),           \* std::tolower
          TooLarge(_),        \* digits that std::stoi refuses
          Texts               \* the texts of a run

VARIABLES text,     \* Tokenizer::text
          pos,      \* Tokenizer::pos
          tokens    \* history: what the calls of next have returned or thrown

vars == <<text, pos, tokens>>

Token(type, from, next) == [type |-> type, from |-> from, next |-> next]
Failure(from)           == Token("ParseError", from, from)

At(p) == IF p <= Len(text) THEN text[p] ELSE "EOS"

\* The first position from p on whose character is not one of S.
Behind(p, S) ==
    Min({q \in p .. Len(text) + 1 : q = Len(text) + 1 \/ text[q] \notin S})

\* Operators named Faulty... are wrong variants of the definition after them.
\* Faulty: the first quote ends a string, also one of two.
FaultyStringEnd(q) ==
    LET quotes == {r \in q .. Len(text) : text[r] = "'"}
    IN  IF quotes = {} THEN 0 ELSE Min(quotes) + 1

\* The position behind the closing quote, or 0.  Two quotes are one character.
RECURSIVE StringEnd(_)
StringEnd(q) ==
    IF q > Len(text) THEN 0
    ELSE IF text[q] # "'" THEN StringEnd(q + 1)
    ELSE IF At(q + 1) = "'" THEN StringEnd(q + 2)
    ELSE q + 1

\* The position behind a comment that is open at q.  Behind a star that ends
\* nothing the next character is skipped.
RECURSIVE CommentEnd(_)
CommentEnd(q) ==
    IF q > Len(text) THEN q
    ELSE IF text[q] # "*" THEN CommentEnd(q + 1)
    ELSE IF At(q + 1) \in {"/", "EOS"} THEN q + 2
    ELSE CommentEnd(q + 2)

LineEnd(q) ==
    Min({r + 1 : r \in {s \in q .. Len(text) : text[s] \in Newline}} \cup {Len(text) + 1})

\* Digits with at most one point; the point alone is a token of its own.
Number(p) ==
    LET q      == Behind(p, Digits \cup {"."})
        lexeme == SubSeq(text, p, q - 1)
        points == {i \in DOMAIN lexeme : lexeme[i] = "."}
    IN  IF Cardinality(points) > 1 THEN Failure(p)
        ELSE IF lexeme = <<".">> THEN Token("P_DOT", p, q)
        ELSE IF points # {} THEN Token("FLOAT", p, q)
        ELSE Token(IF TooLarge(lexeme) THEN "out_of_range" ELSE "INT", p, q)

Word(p) ==
    LET q    == Behind(p, Letters \cup Digits)
        word == Lower(text[p])
    IN  Token(IF q = p + 1 /\ word \in DOMAIN Keywords THEN Keywords[word]
              ELSE "IDENTIFIER", p, q)

Punctuation == [c \in {"(", ")", ";", ",", "*", "="} |->
    CASE c = "(" -> "P_LPARENT" [] c = ")" -> "P_RPARENT" [] c = ";" -> "P_SEMICOLON"
      [] c = "," -> "P_COMMA"   [] c = "*" -> "P_STAR"    [] c = "=" -> "P_EQ"]

Order(p) ==
    CASE text[p] = ">" /\ At(p + 1) = "=" -> Token("P_GE", p, p + 2)
      [] text[p] = "<" /\ At(p + 1) = "=" -> Token("P_LE", p, p + 2)
      [] text[p] = "<" /\ At(p + 1) = ">" -> Token("P_NE", p, p + 2)
      [] OTHER -> Token(IF text[p] = ">" THEN "P_G" ELSE "P_L", p, p + 1)

\* One call of next: the loop passes spaces and comments, a branch returns.
RECURSIVE NextToken(_)
NextToken(p) ==
    LET c == At(p)
        d == At(p + 1)
    IN  CASE p > Len(text)         -> Token("EOS", p, p)
          [] c \in Space           -> NextToken(p + 1)
          [] c = "'"               -> LET q == StringEnd(p + 1) IN
                                      IF q = 0 THEN Failure(p) ELSE Token("STRING", p, q)
          [] c = "-" /\ d = "-"    -> NextToken(LineEnd(p + 2))
          [] c = "/" /\ d = "*"    -> NextToken(CommentEnd(p + 2))
          [] c \in Digits \cup {"."} -> Number(p)
          [] c \in Letters         -> Word(p)
          [] c \in DOMAIN Punctuation -> Token(Punctuation[c], p, p + 1)
          [] c \in {"<", ">"}      -> Order(p)
          [] OTHER                 -> Failure(p)

Init == text \in Texts /\ pos = 1 /\ tokens = << >>

Ended == tokens # << >> /\ Last(tokens).type \in Exceptions \cup {"EOS"}

\* The parser calls next until the end of the text or an exception.
Next ==
    /\ ~Ended
    /\ LET token == NextToken(pos)
       IN  tokens' = Append(tokens, token) /\ pos' = token.next
    /\ UNCHANGED text

Spec == Init /\ [][Next]_vars
-----------------------------------------------------------------------------
(* The tokens as docs/SQLSpec.md:5-17 describes them: which sequences of      *)
(* characters s, with the character that follows, are a lexeme.  A lexeme     *)
(* ends where no longer one begins at the same place.                         *)
\* Quotes come in pairs within a string; a quote that follows is within it.
Quoted(s, following) ==
    /\ Len(s) >= 2 /\ s[1] = "'" /\ s[Len(s)] = "'" /\ following # "'"
    /\ LET inner == SubSeq(s, 2, Len(s) - 1)
           Run(i, j) == \A k \in i .. j : inner[k] = "'"
       IN  \A i, j \in DOMAIN inner :
              /\ Run(i, j) /\ i <= j
              /\ i = 1 \/ inner[i - 1] # "'"
              /\ j = Len(inner) \/ inner[j + 1] # "'"
              => (j - i) % 2 = 1

LineComment(s, following) ==
    /\ Len(s) >= 2 /\ s[1] = "-" /\ s[2] = "-"
    /\ \A i \in 1 .. Len(s) - 1 : s[i] \notin Newline
    /\ s[Len(s)] \in Newline \/ following = "EOS"

\* The first star and slash behind the opening end it, or the end of the text.
BlockComment(s, following) ==
    LET Closes(i) == i >= 4 /\ s[i] = "/" /\ s[i - 1] = "*"
    IN  /\ Len(s) >= 2 /\ s[1] = "/" /\ s[2] = "*"
        /\ \A i \in 1 .. Len(s) - 1 : ~Closes(i)
        /\ Closes(Len(s)) \/ following = "EOS"

Only(s, S) == s # << >> /\ Range(s) \subseteq S
Decimal(s) == /\ Only(s, Digits \cup {"."})
              /\ Cardinality({i \in DOMAIN s : s[i] = "."}) = 1 /\ Len(s) > 1

Kind(s, following) ==
    CASE Only(s, Space) /\ Len(s) = 1                  -> "ignored"
      [] LineComment(s, following) \/ BlockComment(s, following) -> "ignored"
      [] Quoted(s, following)                                   -> "STRING"
      [] Only(s, Digits)                               -> "INT"
      [] Decimal(s)                                    -> "FLOAT"
      [] Only(s, Letters \cup Digits) /\ s[1] \in Letters -> "word"
      [] s = <<">", "=">> -> "P_GE"   [] s = <<"<", "=">> -> "P_LE"
      [] s = <<"<", ">">> -> "P_NE"   [] s = <<"<">> -> "P_L"  [] s = <<">">> -> "P_G"
      [] s = <<".">> -> "P_DOT"
      [] Len(s) = 1 /\ s[1] \in DOMAIN Punctuation     -> Punctuation[s[1]]
      [] OTHER -> "none"

RECURSIVE LexemesFrom(_)
LexemesFrom(p) ==
    LET n == Len(text)
        KindTo(q) == Kind(SubSeq(text, p, q), At(q + 1))
        ends == {q \in p .. n : KindTo(q) # "none"}
    IN  IF p > n THEN <<Token("EOS", p, p)>>
        ELSE IF ends = {} THEN <<Failure(p)>>
        ELSE LET token == Token(KindTo(Max(ends)), p, Max(ends) + 1)
                 rest  == LexemesFrom(token.next)
             IN  IF token.type = "ignored" THEN rest ELSE <<token>> \o rest

\* The tokens of the text by the rules of SQLSpec.md, and those that next found;
\* of the end of the text the place does not matter.
Place(t)  == <<t.type, IF t.type = "EOS" THEN 0 ELSE t.from>>
Lexemes   == LET all == LexemesFrom(1) IN [i \in DOMAIN all |-> Place(all[i])]
Found     == [i \in DOMAIN tokens |->
                LET t == tokens[i] IN
                Place(IF t.type \in {"IDENTIFIER"} \cup {Keywords[w] : w \in DOMAIN Keywords}
                      THEN [t EXCEPT !.type = "word"] ELSE t)]

\* A second point in a number is an error, as the tests have it
\* (TestTokenizer.cpp:64), and no new number; a number is not too large.
Plain == /\ \A p, q \in DOMAIN text :
               p < q /\ text[p] = "." /\ text[q] = "." =>
                   \E r \in p .. q : text[r] \notin Digits \cup {"."}
         /\ \A i \in DOMAIN tokens : tokens[i].type # "out_of_range"

StarsTogether == \E p \in 1 .. Len(text) - 1 : text[p] = "*" /\ text[p + 1] = "*"

\* The tokens of a text are those that SQLSpec.md describes: each begins where
\* the longest lexeme before it ends, and nothing but spaces and comments is
\* passed over.  next finds them with one character of look-ahead; behind two
\* stars in a comment it does not (CommentsEnd).
TokensAsSpecified == Ended /\ Plain /\ ~StarsTogether => Found = Lexemes

\* "Sequence start with /* and end with */ or EOS should be ignored"
\* (SQLSpec.md:7): two stars and a slash end a comment too.
CommentsEnd == Ended /\ Plain => Found = Lexemes
=============================================================================

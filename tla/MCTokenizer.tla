---------------------------- MODULE MCTokenizer ----------------------------
(* The tokens of short texts.                                                 *)
EXTENDS Tokenizer

InLowerCase(c) == IF c = "IS" THEN "is" ELSE c
ThreeDigits(digits) == Len(digits) > 2

\* Texts of a few characters of every kind, and longer ones of those that open
\* and close comments and strings, and of numbers.
Of(S, n) == UNION {[1 .. k -> S] : k \in 0 .. n}
ShortTexts ==
    Of({"'", "-", "/", "*", "nl", "0", ".", "a", "IS", "<", "="}, 3)
    \cup Of({"/", "*", "-", "nl", "a"}, 5) \cup Of({"'", "a", " "}, 6)
    \cup Of({"0", ".", "a"}, 5) \cup Of({"<", ">", "=", ";", "(", ")", ",", "?"}, 3)
    \cup Of({"/", "*"}, 8)
=============================================================================

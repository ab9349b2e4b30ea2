SPECIFICATION Spec
CONSTANTS
    Space    = {" ", "nl"}
    Newline  = {"nl"}
    Digits   = {"0"}
    Letters  = {"a", "is", "IS"}
    Lower    <- InLowerCase
    TooLarge <- ThreeDigits
    Texts    <- ShortTexts
INVARIANT
    TokensAsSpecified
CHECK_DEADLOCK FALSE

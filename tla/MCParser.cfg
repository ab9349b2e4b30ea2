SPECIFICATION Spec
INVARIANT
    SameLanguage
PROPERTY
    ParseEnds

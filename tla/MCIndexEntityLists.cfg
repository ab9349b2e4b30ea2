SPECIFICATION Spec
CONSTANTS
    r1 = r1
    r2 = r2
    r3 = r3
    r4 = r4
    r5 = r5
    r6 = r6
    RIDs     = {r1, r2, r3, r4, r5, r6}
    Null     = Null
    e1 = e1
    Entities = {e1, Null}
SYMMETRY RIDSymmetry
INVARIANT
    ListsSound
PROPERTY
    ImplementsEntityLists

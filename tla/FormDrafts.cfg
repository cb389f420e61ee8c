CONSTANTS
    Texts = {t1, t2}
    Items = {i1}
    Saves = {s1, s2}
    MaxQueue = 3
    Empty = Empty
    Blank = Blank
    None = None
SYMMETRY Symmetry
SPECIFICATION Spec
INVARIANTS
    TypeOK
    TypedIsKept
    SavedIsNotOffered
    SavesAreOfTheDialog

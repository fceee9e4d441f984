SPECIFICATION Spec
CONSTANTS
    Word = 2
    Chunk = 4
    MaxLen = 7
    PageSize = 6
    Pages = 2
    Lengths = {1, 2, 4}
INVARIANTS
    TypeOK
    ReadsPrefix
    ReadsWhole
    WritesExactly

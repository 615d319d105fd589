SPECIFICATION Spec
CONSTANTS
    Width = 3
    Rows = 3
    BlitPlaces <- MCBlitPlaces
    BlitSizes <- MCBlitSizes
    BufferLens = {0, 1, 2, 5}
INVARIANTS
    TypeOK
    DirtyCovers
    CopyInv
PROPERTIES
    WholeHandedOver
    CopyTiles
    ErrorOnlyForEmpty
    CopyEnds

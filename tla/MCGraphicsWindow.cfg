SPECIFICATION Spec
CONSTANTS
    Users = {"ssd1306", "hmc5883l"}
    NULL = NULL
    InitDelay = 1
    DelayMod = 3
    Width = 1
    Rows = 2
    BlitPlaces <- MCBlitPlaces
    BlitSizes <- MCBlitSizes
    LastColumn = 0
    LastPage = 1
INVARIANTS
    NothingLeftOut

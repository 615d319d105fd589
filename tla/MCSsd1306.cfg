SPECIFICATION Spec
CONSTANTS
    Me = "ssd1306"
    Users = {"ssd1306", "hmc5883l"}
    Clients = {"c1"}
    NULL = NULL
    Buffers = {b1}
    InitDelay = 2
    DelayMod = 5
    Bytes = {16, 65}
    ColumnInputs <- MCColumnInputs
    PageInputs <- MCPageInputs
INVARIANTS
    TypeOK
    DriverInv
    IdleMeansQuiet
    TransferAccounting
    DelayRespected
    InitResultHonest
PROPERTIES
    BufferStable
    ScriptFollowed
    DoneMeansTransferred
    DataLandsInWindow
    InitCompletes
    SendCompletes
    ImplementsDisplayDriver

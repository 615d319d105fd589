SPECIFICATION Spec
CONSTANTS
    Me = "hmc5883l"
    Users = {"ssd1306", "hmc5883l"}
    Clients = {"c1", "c2"}
    NULL = NULL
    ConfigBytes = {112, 160}
    Samples <- MCSamples
INVARIANTS
    TypeOK
    TransferAccounting
    DataIsSample
    SensorConfigured
    MeasurementInv
PROPERTIES
    BufferStable
    OkMeansMeasured
    ImplementsCompassDriver
    MeasurementEnds

SPECIFICATION Spec
CONSTANTS
    Kinds = {"linux_tcp"}
    BaudRates <- MCBaudRates
    DataBits <- MCDataBits
INVARIANTS
    ConnectDataAlive
CHECK_DEADLOCK FALSE

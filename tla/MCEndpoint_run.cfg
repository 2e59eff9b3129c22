SPECIFICATION FairSpec
CONSTANTS
    Kinds = {"linux_tcp", "linux_udp", "linux_serial", "windows_tcp", "windows_udp", "windows_serial"}
    BaudRates <- MCBaudRates
    DataBits <- MCDataBits
INVARIANTS
    ChannelJoinsOperations
    NothingOutlivesRun
    ConnectAnsweredOnce
    JoinedChannelWasStopped
PROPERTIES
    StoppedRunEnds
CHECK_DEADLOCK FALSE

CONSTANTS
    Servers = {s1, s2}
    Busy = {s1}
    UpCap = 1
    WireCap = 1
    DownCap = 1
    OutCap = 1
    BrowsersRead = FALSE
    None = None
SPECIFICATION FairSpec
INVARIANTS
    TypeOK
    HandlersKeepTheirConnection
PROPERTIES
    DeadAgentsGoOfflineUnlessStuck
    LocksAreReleased

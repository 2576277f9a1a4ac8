CONSTANTS
    Servers = {s1, s2}
    Busy = {s1}
    UpCap = 1
    WireCap = 1
    DownCap = 1
    OutCap = 1
    BrowsersRead = TRUE
    None = None
SPECIFICATION FairSpec
PROPERTIES
    DeadAgentsGoOffline

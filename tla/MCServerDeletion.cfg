CONSTANTS
    Servers = {1, 2}
    Offers = {o1, o2}
    Tokens = {t1}
    Sockets = {}
    Claims = {k1}
    Deleters = {d1, d2}
    None = None
    MayDropRequests = FALSE
SPECIFICATION FairSpec
INVARIANTS
    NoDeadlock
PROPERTIES
    DeletesFinish
    ClaimsAreDecided

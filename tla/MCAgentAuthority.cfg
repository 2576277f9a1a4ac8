CONSTANTS
    Servers = {1}
    Offers = {o1, o2, o3}
    Tokens = {t1}
    Sockets = {c1, c2}
    Claims = {k1, k2}
    Deleters = {d1}
    None = None
    MayDropRequests = FALSE
SPECIFICATION Spec
SYMMETRY Symmetric
INVARIANTS
    TypeOK
    ConnectionFencing
    OneOpenOffer
    HistoryExplainsAuthority
    HistoryTellsOutcomes
    DeletedLeavesNothing
PROPERTIES
    TerminalOffersImmutable
    ElapsedNeverConsumed
    ReportsOnlyUnderAuthority
    ImplementsContract

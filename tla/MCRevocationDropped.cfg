CONSTANTS
    Servers = {1}
    Offers = {o1}
    Tokens = {t1}
    Sockets = {c1}
    Claims = {k1}
    Deleters = {}
    None = None
    MayDropRequests = TRUE
SPECIFICATION Spec
INVARIANTS
    ConnectionFencing

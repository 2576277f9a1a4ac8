CONSTANTS
    Servers = {1}
    Offers = {o1, o2, o3}
    Tokens = {t1}
    Sockets = {c1}
    Claims = {k1}
    Deleters = {d1}
    None = None
    MayDropRequests = TRUE
SPECIFICATION Spec
SYMMETRY Symmetric
INVARIANTS
    OneOpenOffer

CONSTANTS
    Servers = {s1, s2}
    Conns = {c1, c2}
    Requests = {q1}
    None = None
SPECIFICATION FairSpec
INVARIANTS
    TypeOK
    AnswersComeFromTheirServer
PROPERTIES
    SuccessorsSurvive
    ImplementsRelay
    SilentGoOffline
    SlotsAreFreed

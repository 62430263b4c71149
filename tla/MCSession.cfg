SPECIFICATION FairSpec

CONSTANTS
    Sessions = {s1, s2}
    Tokens = {k1, k2}
    NoToken = NoToken
    MaxConnects = 2

INVARIANTS
    ConnectTellsTheTruth
    AnswersItsChallenge
    TokenIsKept
    NewTokenIsReported

PROPERTIES
    ConnectAnswered

CHECK_DEADLOCK FALSE

SPECIFICATION RoundTripSpec
CONSTANTS
    SelfTest = SelfTest
    Holders = {SelfTest, other}
    Sessions = {s1, s2}
    NoSession = NoSession
    MaxGeneration = 3
    MaxFailures = 1
INVARIANT SessionIsStoppable
CHECK_DEADLOCK FALSE

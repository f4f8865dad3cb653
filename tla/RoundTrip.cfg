SPECIFICATION RoundTripFairSpec
CONSTANTS
    SelfTest = SelfTest
    Holders = {SelfTest, other}
    Sessions = {s1, s2}
    NoSession = NoSession
    MaxGeneration = 3
    MaxFailures = 1
INVARIANTS BusyHasOwner CompletedIsEarned GateCoversTest ForgottenIsClean EndIsReported
PROPERTIES ImplementsAdmission LeaseComesBack
CHECK_DEADLOCK FALSE

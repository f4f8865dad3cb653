SPECIFICATION GraphFairSpec
CONSTANTS
    Ids = {1, 2, 3, 4}
    Generations = {1, 2}
    MaxDisturbances = 2
INVARIANTS NothingForgotten NoTwins
PROPERTIES ForeignIsSafe SelfHeals

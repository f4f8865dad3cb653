SPECIFICATION ControlFairSpec
CONSTANTS
    s1 = s1 d1 = d1 d2 = d2
    Configs = {1, 2}
    Devices = {d1, d2}
    NoDevice = NoDevice
    Subscribers = {s1}
    EventCapacity = 1
    MaxRequests = 2
    MaxFaults = 1
INVARIANTS StoreIsPutRight ShownIsStopped
PROPERTIES StreamsCatchUp AudioFollowsStore
CHECK_DEADLOCK FALSE

SPECIFICATION FairSpec
CONSTANTS
    c1 = c1
    c2 = c2
    c3 = c3
    NoConn = NoConn
    NumWorkers = 2
    Conn <- MCConn
    Calling <- MCCalling
    Eager <- MCEager
INVARIANTS
    AssertsHold
    LoopOnLiveObjects
    OneConnection
    WorkersReady
PROPERTIES
    Terminates
    Reconnects
    EndsWhenReachable
    ImplementsSession

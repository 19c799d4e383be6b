CONSTANTS
    Objects = {o1, o2}
    NoObject = NoObject
    Hub = o1
    MaxDepth = 7
SPECIFICATION HubFairSpec
INVARIANTS
    TypeOK
    ConnectionsSymmetric
    NoDanglingConnection
    PassIsExact
PROPERTIES
    KeepsPromise
    ReturnsToEventLoop

CONSTANTS
    Elements = {e1, e2, e3, e4, e5}
    NoElement = NoElement
    Listeners = 2
    Iterators = {i1}
    MaxNesting = 1
SPECIFICATION PassiveSpec
SYMMETRY Symmetry
INVARIANTS
    TypeOK
    IteratorRobust
    IndexFollows

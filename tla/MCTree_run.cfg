SPECIFICATION Spec
CONSTANTS
    LoadSize = 14
    Nodes <- MCNodes
    Key <- MCKey
    ErasedKeys = {4, 5}
    Loads <- MCLoads
    Refills = {1, 2, 3, 4, 5, 6, 7, 8}
    Nil = Nil
INVARIANTS WellLinked Balanced LookupsRight
PROPERTIES ImplementsOrderedNodes

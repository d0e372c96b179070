CONSTANTS
    MaxPort = 6
    MaxEntries = 2
    NoPorts = NoPorts
    NotPorts = NotPorts
    Raises = Raises
    WireProtocol <- MCWireProtocol
    Values <- MCValues
    Foreign <- MCForeign

SPECIFICATION Spec

INVARIANTS
    TypeOK
    MergeKeepsUnion
    CanonicalIsUnique

PROPERTIES
    Converges

CONSTANTS
    MaxPort = 6
    MaxEntries = 2
    NoPorts = NoPorts
    NotPorts = NotPorts
    Raises = Raises
    WireProtocol <- MCWireProtocol
    Values <- FewValues
    Foreign <- V6Foreign

SPECIFICATION Spec

PROPERTIES
    OnlyV4Matches

CONSTANTS
    Width = 3
    CharBit = 2
    Tag = "tag"
    Version = "v1"
    Others = {"other"}
    HeaderSize = 4
SPECIFICATION Spec
INVARIANTS
    WireNetworkOrder
    RoundTrip

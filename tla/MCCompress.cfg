CONSTANTS
    Methods = {"gzip", "snappy", "other"}
    InitialSize = 16
    Lengths <- MCLengths
SPECIFICATION Spec
INVARIANT
    BufferHoldsOutput
PROPERTY
    GrowthTight

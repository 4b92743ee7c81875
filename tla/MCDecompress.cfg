CONSTANTS
    Invalid = Invalid
    Methods = {"gzip", "snappy"}
    MaxBufferSize = 8
    InitialSize = 2
    Lengths <- MCLengths
SPECIFICATION Spec
INVARIANTS
    TypeOK
    NoSpuriousFailure

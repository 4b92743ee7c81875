CONSTANTS
    Invalid = Invalid
    Methods = {"snappy"}
    MaxBufferSize = 8
    InitialSize = 2
    Lengths <- MCLengths
SPECIFICATION Spec
INVARIANT BufferTight

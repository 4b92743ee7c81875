CONSTANTS
    Invalid = Invalid
    Methods = {"gzip"}
    MaxBufferSize = 8
    InitialSize = 2
    Lengths <- MCLengths
SPECIFICATION Spec
PROPERTY CallReturns

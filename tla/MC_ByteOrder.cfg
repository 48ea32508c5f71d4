CONSTANTS
    Bytes = {0, 1, 2}
    MaxLen = 3
SPECIFICATION Spec
INVARIANT ByteOrderCorrect

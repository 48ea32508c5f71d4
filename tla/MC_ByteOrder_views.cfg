\* Byte order, and name prefixes of up to two components, over bytes 0..2.
CONSTANTS
    Bytes = {0, 1, 2}
    MaxLen = 4
SPECIFICATION Spec
INVARIANT ByteOrderCorrect
INVARIANT NameOrderCanonical
INVARIANT FirstComponents
INVARIANT ComponentAccess
INVARIANT RangesSplitList

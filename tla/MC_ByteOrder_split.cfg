\* Byte order, name prefixes of up to two components over bytes 0..2, and
\* makeSGKey's split of up to four members for every maxKR up to four.
CONSTANTS
    Bytes = {0, 1, 2}
    MaxLen = 4
SPECIFICATION Spec
INVARIANT ByteOrderCorrect
INVARIANT NameOrderCanonical
INVARIANT FirstComponents
INVARIANT RangesSplitList

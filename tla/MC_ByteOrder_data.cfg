\* rData::valid() on Data packets whose names are the prefixes checked above.
CONSTANTS
    Bytes = {0, 1, 2}
    MaxLen = 4
SPECIFICATION Spec
INVARIANT DataValidChecksName

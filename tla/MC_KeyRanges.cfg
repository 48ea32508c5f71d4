\* makeSGKey splits every member count into publications of at most maxKR.
CONSTANTS
    MaxMaxKR = 6
    MaxMembers = 20
SPECIFICATION Spec
INVARIANT RangesPartitionMembers

\* The one-byte TLV forms decode to the type they are given.
SPECIFICATION Spec
INVARIANT ByteFormsDecode

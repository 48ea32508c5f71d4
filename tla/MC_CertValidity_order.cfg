\* The iso8601 format is order-preserving on the fields it writes.
SPECIFICATION Spec
INVARIANT EncodingOrdersFields

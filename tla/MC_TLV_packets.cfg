\* TLV headers decode to their type and length; a DCT cert's SignatureInfo
\* has the layout rCert::validForm tests; an Interest's name, nonce and
\* lifetime read back as encoded.
SPECIFICATION Spec
INVARIANT HeaderDecodes
INVARIANT CertLayout
INVARIANT InterestFields

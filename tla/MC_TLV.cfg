\* TLV headers decode to their type and length; a DCT cert's SignatureInfo
\* has the layout rCert::validForm tests.
SPECIFICATION Spec
INVARIANT HeaderDecodes
INVARIANT CertLayout

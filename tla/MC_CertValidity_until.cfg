\* rCert::validUntil() parses back the time point iso8601 wrote.
SPECIFICATION Spec
INVARIANT ValidUntilRoundTrip

\* rCert::valid() and validUntil() against the validity period in time.
SPECIFICATION Spec
INVARIANT PeriodHonoured

\* rCert::valid() against the certificate's validity period in time.
SPECIFICATION Spec
INVARIANT CertValidInPeriod

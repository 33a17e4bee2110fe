SPECIFICATION Spec
INVARIANT TruncationRejected
INVARIANT GroupRoundTrip
INVARIANT CredentialWire

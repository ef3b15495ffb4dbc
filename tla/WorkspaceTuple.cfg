\* Every tuple of length 0..12 over the values each offset can carry.
\* Each behaviour decodes one tuple and stops.
SPECIFICATION Spec
INVARIANT TupleTypeOK
INVARIANT DecodesPerSpec
INVARIANT FailsExactlyOnMalformedSize
CHECK_DEADLOCK FALSE

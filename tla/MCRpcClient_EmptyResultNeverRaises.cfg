\* Checks the spec's claim EmptyResultNeverRaises against the decoders of client.py.
CONSTANTS
    MaxCalls <- MCMaxCalls
    NoCall = NoCall
SPECIFICATION Spec
INVARIANT EmptyResultNeverRaises
CHECK_DEADLOCK FALSE

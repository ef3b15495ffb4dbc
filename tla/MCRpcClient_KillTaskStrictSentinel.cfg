\* Checks the spec's claim KillTaskStrictSentinel against the decoders of client.py.
CONSTANTS
    MaxCalls <- MCMaxCalls
    NoCall = NoCall
SPECIFICATION Spec
INVARIANT KillTaskStrictSentinel
CHECK_DEADLOCK FALSE

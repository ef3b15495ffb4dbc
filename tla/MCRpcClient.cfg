\* Two calls of any of the 15 methods against every reply shape, with and
\* without a token.  Runs stop only where the call bound is used up.
CONSTANTS
    MaxCalls <- MCMaxCalls
    NoCall = NoCall
SPECIFICATION Spec
INVARIANT TypeOK
INVARIANT RequestIdsFresh
INVARIANT RaisesOnlyOnBadReply
CHECK_DEADLOCK FALSE

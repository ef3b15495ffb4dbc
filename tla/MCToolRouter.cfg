\* Two host requests: any of the 16 tools (or an unknown name), with or
\* without their required arguments, or a resource read of either URI (or
\* an unknown one), against every reply shape.  The
\* server stops only when the host has nothing more to send.
CONSTANTS
    MaxCalls <- MCMaxCalls
    MaxHostCalls <- MCMaxHostCalls
    NoCall = NoCall
SPECIFICATION RouterSpec
INVARIANT RouterTypeOK
INVARIANT ResponsesInOrder
INVARIANT NoErrorOnDocumentedReply
INVARIANT JobLogsNotFoundIsNotAnError
CHECK_DEADLOCK FALSE

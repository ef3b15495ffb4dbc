\* Two host requests of any tool or URI, against one POST failure and one
\* result of each class the handlers tell apart (the full reply set makes
\* the liveness check too long): every request is eventually answered
\* under the fairness of RouterFairness.
CONSTANTS
    MaxCalls <- MCMaxCalls
    MaxHostCalls <- MCMaxHostCalls
    NoCall = NoCall
    Replies <- MCLiveReplies
SPECIFICATION RouterSpec
PROPERTY EveryCallAnswered
CHECK_DEADLOCK FALSE

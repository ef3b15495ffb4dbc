\* Two host requests of any tool or URI, against one POST failure and one
\* result of each class the handlers tell apart: every behaviour of the
\* server is one of RouterCall's atomic, in-order answers under the
\* mapping Waiting / Answered.
CONSTANTS
    MaxCalls <- MCMaxCalls
    MaxHostCalls <- MCMaxHostCalls
    NoCall = NoCall
    Replies <- MCLiveReplies
SPECIFICATION RouterSpec
PROPERTY RouterCallRefined
CHECK_DEADLOCK FALSE

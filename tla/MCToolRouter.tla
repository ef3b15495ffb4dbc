--------------------------- MODULE MCToolRouter -----------------------------
(* Model-checking instance of ToolRouter: two tool calls from the host,   *)
(* so that the second one is sent while the first one is in flight.       *)
EXTENDS ToolRouter

MCMaxHostCalls == 2
MCMaxCalls == 2

(* For the liveness run: one POST failure and one result of each class   *)
(* the handlers tell apart (null, a truthy scalar, a list of records, a  *)
(* mapping, an empty mapping), so that every handler both raises and     *)
(* returns normally, and job_logs meets both a task and no task.          *)
MCLiveReplies ==
    {[kind |-> "transport_error", result |-> Bare("null")]}
    \cup [kind : {"result"},
          result : {Bare("null"), Wrap("one"), Wrap("recs"), Wrap("map"), Wrap("edict")}]

=============================================================================

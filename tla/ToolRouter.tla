---------------------------- MODULE ToolRouter ------------------------------
(***************************************************************************)
(* The MCP tool surface of server.py composed with the client.            *)
(*                                                                         *)
(* The host sends tool calls over stdio; call_tool awaits handle_tool,    *)
(* which calls one client method and formats its result.  The client is  *)
(* synchronous (httpx.Client), so a handler never yields while its POST   *)
(* is in flight: the event loop is blocked and the next tool call waits   *)
(* in the stream.  Hence one call is handled at a time, in arrival order. *)
(* Any exception of a handler becomes the text "Error: ..." (call_tool).  *)
(* Resource reads (read_resource) share the stream, the event loop and   *)
(* the module's one client; an exception there reaches the host as the  *)
(* MCP error reply, written "error" here too.                             *)
(***************************************************************************)
EXTENDS RpcClient

CONSTANT MaxHostCalls   \* bound on the tool calls the host sends

ASSUME MaxHostCallsAssumption == MaxHostCalls \in Nat \ {0}

Tools == {"workspace_list", "workspace_get", "workspace_create_folder",
          "workspace_upload", "workspace_delete", "workspace_copy",
          "workspace_move", "workspace_share", "workspace_download_url",
          "apps_list", "app_schema", "job_submit", "job_status", "job_list",
          "job_cancel", "job_logs"}

\* A name outside the catalog.
Unknown == "unknown_tool"

\* The resources of list_resources, and a URI outside them.  A resource
\* read (read_resource) is queued like a tool call, under its URI.
ResourceUris == {"bvbrc://apps", "bvbrc://workspace-types"}
UnknownUri == "bvbrc://unknown"

\* The client method each handler of handle_tool (and read_resource) calls.
ToolMethod(t) ==
    CASE t = "workspace_list"          -> "Workspace.ls"
      [] t = "workspace_get"           -> "Workspace.get"
      [] t \in {"workspace_create_folder", "workspace_upload"} -> "Workspace.create"
      [] t = "workspace_delete"        -> "Workspace.delete"
      [] t = "workspace_copy"          -> "Workspace.copy"
      [] t = "workspace_move"          -> "Workspace.move"
      [] t = "workspace_share"         -> "Workspace.set_permissions"
      [] t = "workspace_download_url"  -> "Workspace.get_download_url"
      [] t \in {"apps_list", "bvbrc://apps"} -> "AppService.enumerate_apps"
      [] t = "app_schema"              -> "AppService.query_app_description"
      [] t = "job_submit"              -> "AppService.start_app"
      [] t \in {"job_status", "job_logs"} -> "AppService.query_tasks"
      [] t = "job_list"                -> "AppService.enumerate_tasks"
      [] t = "job_cancel"              -> "AppService.kill_task"

\* The boolean arguments of a tool's input schema.
ToolOptions(t) ==
    CASE t = "workspace_list"   -> {"recursive"}
      [] t = "workspace_get"    -> {"metadata_only"}
      [] t = "workspace_delete" -> {"force"}
      [] OTHER                  -> {}

\* The boolean arguments the handler passes to the client method:
\* upload always overwrites, create_folder never does.
ClientArgs(t, opts) ==
    IF t = "workspace_upload" THEN {"overwrite"} ELSE opts

\* Tools whose schema has required arguments (all but apps_list, job_list).
HasRequired(t) == t \notin {"apps_list", "job_list"}

\* A tool call: its name, whether every argument the handler indexes with
\* args[...] is present (the host is meant to validate against the schema,
\* the router does not re-validate), and its boolean options.
HostRequests ==
    (UNION {{[tool |-> t, argsOk |-> b, opts |-> o] : b \in BOOLEAN, o \in SUBSET ToolOptions(t)}
              : t \in Tools \cup {Unknown}})
    \cup {[tool |-> u, argsOk |-> TRUE, opts |-> {}] : u \in ResourceUris \cup {UnknownUri}}

Texts == {"json", "deleted", "permission_set", "cancelled", "failed_to_cancel",
          "not_found", "error"}

VARIABLES
    inbox,      \* tool calls sent by the host and not yet handled
    handling,   \* the tool call whose client call is in flight, or NoCall
    responses,  \* the texts returned to the host, in order
    sent        \* number of tool calls the host has sent

routerVars == <<inbox, handling, responses, sent>>
clientVars == <<token, reqId, wire, pending, ret>>
allVars == <<inbox, handling, responses, sent, token, reqId, wire, pending, ret>>

-----------------------------------------------------------------------------

\* Mutant: workspace_download_url looking the path up with result[path],
\* which raises KeyError when the server left the path out.
FormatDownloadIndexes(t, out) ==
    IF ~out.ok THEN {"error"}
    ELSE CASE t = "workspace_delete" -> {"deleted"}
        [] t = "workspace_share"     -> {"permission_set"}
        [] t = "job_cancel"          -> {IF out.val = "true" THEN "cancelled" ELSE "failed_to_cancel"}
        [] t = "job_logs"            -> IF out.val = "map" THEN {"json", "not_found"}
                                           ELSE {"not_found"}
        [] t = "workspace_download_url" ->
                   IF out.val = "map" THEN {"json", "error"} ELSE {"error"}
        [] OTHER                     -> {"json"}

\* Mutant: job_logs indexing tasks[task_id] without the "in" check.
FormatLogsIndexes(t, out) ==
    IF ~out.ok THEN {"error"}
    ELSE CASE t = "workspace_delete" -> {"deleted"}
        [] t = "workspace_share"     -> {"permission_set"}
        [] t = "job_cancel"          -> {IF out.val = "true" THEN "cancelled" ELSE "failed_to_cancel"}
        [] t = "job_logs"            -> IF out.val = "map" THEN {"json", "error"} ELSE {"error"}
        [] t = "workspace_download_url" ->
                   IF out.val \in {"map", "empty_map"} THEN {"json"} ELSE {"error"}
        [] OTHER                     -> {"json"}

\* Mutant: job_logs polling query_tasks until the task shows up, so an
\* unknown task id never gets an answer.
FormatLogsWaits(t, out) ==
    IF ~out.ok THEN {"error"}
    ELSE CASE t = "workspace_delete" -> {"deleted"}
        [] t = "workspace_share"     -> {"permission_set"}
        [] t = "job_cancel"          -> {IF out.val = "true" THEN "cancelled" ELSE "failed_to_cancel"}
        [] t = "job_logs"            -> IF out.val = "map" THEN {"json"} ELSE {}
        [] t = "workspace_download_url" ->
                   IF out.val \in {"map", "empty_map"} THEN {"json"} ELSE {"error"}
        [] OTHER                     -> {"json"}

\* Mutant: the listing handlers returning the decoded value, not its JSON.
FormatUnserialised(t, out) ==
    IF ~out.ok THEN {"error"}
    ELSE CASE t = "workspace_delete" -> {"deleted"}
        [] t = "workspace_share"     -> {"permission_set"}
        [] t = "job_cancel"          -> {IF out.val = "true" THEN "cancelled" ELSE "failed_to_cancel"}
        [] t = "job_logs"            -> IF out.val = "map" THEN {"json", "not_found"}
                                           ELSE {"not_found"}
        [] t = "workspace_download_url" ->
                   IF out.val \in {"map", "empty_map"} THEN {"json"} ELSE {"error"}
        [] OTHER                     -> {out.val}

\* The text handle_tool returns for tool t after its client call ended in
\* out, as a set of possibilities; a raise anywhere becomes "error".
Format(t, out) ==
    IF ~out.ok THEN {"error"}
    ELSE CASE t = "workspace_delete" -> {"deleted"}
        [] t = "workspace_share"     -> {"permission_set"}
        [] t = "job_cancel"          -> {IF out.val = "true" THEN "cancelled" ELSE "failed_to_cancel"}
        [] t = "job_logs"            -> IF out.val = "map" THEN {"json", "not_found"}
                                           ELSE {"not_found"}
        [] t = "workspace_download_url" ->
                   IF out.val \in {"map", "empty_map"} THEN {"json"} ELSE {"error"}
        [] OTHER                     -> {"json"}

RouterInit ==
    /\ Init
    /\ inbox = <<>>
    /\ handling = NoCall
    /\ responses = <<>>
    /\ sent = 0

\* The host sends a tool call (it is queued in the stdio stream).
HostCall(q) ==
    /\ sent < MaxHostCalls
    /\ sent' = sent + 1
    /\ inbox' = Append(inbox, [rid |-> sent + 1, tool |-> q.tool,
                               argsOk |-> q.argsOk, opts |-> q.opts])
    /\ UNCHANGED <<handling, responses>>
    /\ UNCHANGED clientVars

\* handle_tool or read_resource rejects request q before any RPC: an
\* unknown tool name raises ValueError and a missing argument KeyError,
\* as does an unknown URI.
Rejected(q) == q.tool \in {Unknown, UnknownUri} \/ (HasRequired(q.tool) /\ ~q.argsOk)

\* Requests answered with no client call: the rejected ones, and the
\* workspace-types table.
Immediate(q) == Rejected(q) \/ q.tool = "bvbrc://workspace-types"

ImmediateText(q) == IF Rejected(q) THEN "error" ELSE "json"

\* handle_tool or read_resource on request q: a request of Immediate is
\* answered at once; any other calls its client method and blocks in the
\* POST.
Serve(q) ==
    IF Immediate(q)
    THEN /\ responses' = Append(responses,
                [rid |-> q.rid, tool |-> q.tool, text |-> ImmediateText(q), call |-> NoCall])
         /\ UNCHANGED handling
         /\ UNCHANGED clientVars
    ELSE /\ Invoke(ToolMethod(q.tool), ClientArgs(q.tool, q.opts))
         /\ handling' = q
         /\ UNCHANGED responses

\* Mutant: a request read from the stream but left in it.
DispatchNoDequeue ==
    /\ handling = NoCall
    /\ inbox # <<>>
    /\ inbox' = inbox
    /\ UNCHANGED sent
    /\ Serve(Head(inbox))

\* Mutant: the event loop serving the next request while a handler still
\* waits to format its result.
DispatchWhileHandling ==
    /\ inbox # <<>>
    /\ inbox' = Tail(inbox)
    /\ UNCHANGED sent
    /\ Serve(Head(inbox))

\* The event loop takes the oldest queued request once the previous
\* handler has returned.
Dispatch ==
    /\ handling = NoCall
    /\ inbox # <<>>
    /\ inbox' = Tail(inbox)
    /\ UNCHANGED sent
    /\ Serve(Head(inbox))

\* The client call of the handler returns or raises.
ClientReply(rep) ==
    /\ Reply(rep)
    /\ UNCHANGED routerVars

\* The handler formats the result and call_tool returns the text.
Complete ==
    /\ handling # NoCall
    /\ pending = NoCall
    /\ \E text \in Format(handling.tool, ret.out) :
           responses' = Append(responses,
               [rid |-> handling.rid, tool |-> handling.tool, text |-> text, call |-> ret])
    /\ handling' = NoCall
    /\ UNCHANGED <<inbox, sent>>
    /\ UNCHANGED clientVars

RouterNext ==
    \/ \E q \in HostRequests : HostCall(q)
    \/ Dispatch
    \/ \E rep \in Replies : ClientReply(rep)
    \/ Complete

\* The event loop keeps serving the stream, and the httpx timeout (30 s)
\* ends every POST, so each of these steps is taken once it is enabled.
RouterFairness ==
    /\ WF_allVars(Dispatch)
    /\ WF_allVars(\E rep \in Replies : ClientReply(rep))
    /\ WF_allVars(Complete)

RouterSpec == RouterInit /\ [][RouterNext]_allVars /\ RouterFairness

-----------------------------------------------------------------------------
(* Properties.                                                             *)

Targets  == Tools \cup {Unknown} \cup ResourceUris \cup {UnknownUri}
Response == [rid : Nat, tool : Targets, text : Texts, call : Returned \cup {NoCall}]
Queued   == [rid : Nat, tool : Targets, argsOk : BOOLEAN,
             opts : SUBSET Flags]

\* NoCall (a model value) is neither a queued request nor a returned call.
ASSUME NoCallRouterAssumption == NoCall \notin Queued \cup Returned

RouterTypeOK ==
    /\ TypeOK
    /\ inbox \in Seq(Queued)
    /\ handling \in Queued \cup {NoCall}
    /\ responses \in Seq(Response)
    /\ sent \in 0..MaxHostCalls

\* The host gets exactly one text per tool call, in the order it sent
\* them: none is lost when a handler raises, none is answered twice.
ResponsesInOrder ==
    /\ \A i \in 1..Len(responses) : responses[i].rid = i
    /\ Len(responses) + Len(inbox) + (IF handling = NoCall THEN 0 ELSE 1) = sent

\* Spec 4.1 and 4.2, end to end: a reply the remote API documents for a
\* method, empty results included, never reaches the host as an error.
\* The decoder has to accept it, and the handler has to turn its return
\* into a normal text: download_url looks the path up with .get (the
\* spec lets the server leave a path out), job_cancel reports a False as
\* "Failed to cancel", job_logs an unknown id as "not found".
NoErrorOnDocumentedReply ==
    \A i \in 1..Len(responses) :
        LET c == responses[i].call IN
        (/\ c # NoCall
         /\ c.reply.kind = "result"
         /\ c.reply.result \in Documented(c.method))
        => responses[i].text # "error"

\* Spec 4.2 and 8: job_logs answers a documented query_tasks reply with
\* the hint or with "Task <id> not found" (never an error), and with the
\* latter whenever the reply holds no task at all.
JobLogsNotFoundIsNotAnError ==
    \A i \in 1..Len(responses) :
        LET r == responses[i] IN
        (/\ r.tool = "job_logs"
         /\ r.call # NoCall
         /\ r.call.reply.kind = "result"
         /\ r.call.reply.result \in Documented("AppService.query_tasks"))
        => /\ r.text \in {"json", "not_found"}
           /\ r.call.out.val = "empty_map" => r.text = "not_found"

\* Every tool call the host sends is eventually answered: the server keeps
\* serving after any failure, and no call blocks forever.
EveryCallAnswered ==
    \A n \in 1..MaxHostCalls : (sent >= n) ~> (Len(responses) >= n)


-----------------------------------------------------------------------------
(* Refinement: the router implements the atomic answers of RouterCall.  A *)
(* request being handled is still waiting to be answered, and its client  *)
(* request, already on the wire, is logged only when the answer is        *)
(* returned; so Dispatch of a calling request and ClientReply are         *)
(* stutters, and Complete (or Dispatch of an immediate one) is Answer.    *)

Waiting  == IF handling = NoCall THEN inbox ELSE <<handling>> \o inbox
Answered == IF handling = NoCall THEN wire ELSE SubSeq(wire, 1, Len(wire) - 1)

Router == INSTANCE RouterCall WITH log <- Answered, queue <- Waiting

\* Every behaviour of the server, with its blocking client call split from
\* the handler that formats the result, is one in which the host's
\* requests are answered atomically, one at a time and in order, each by
\* one call of its own tool's method whose outcome the answer carries
\* (call_tool over one stdio stream, handle_tool's one client call).
RouterCallRefined == Router!Spec

=============================================================================

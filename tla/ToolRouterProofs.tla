-------------------------- MODULE ToolRouterProofs ---------------------------
(***************************************************************************)
(* Proofs about the tool router composed with the client, for every bound *)
(* on the host's requests and the client's calls: every request gets one *)
(* answer in order, a reply the remote API documents never reaches the   *)
(* host as an error, and the router implements RouterCall.                *)
(***************************************************************************)
EXTENDS ToolRouter, RpcErrorProofs

\* A queued request's options are among its tool's boolean options.
OptionsOk(q) == q.opts \subseteq ToolOptions(q.tool)

\* A request that reaches a client call: a known tool with its arguments,
\* or a read of bvbrc://apps.
Calls(t) == t \in Tools \cup {"bvbrc://apps"}

\* Every request that reaches the client calls a method of the client with
\* options that method takes.
LEMMA ToolMethodType ==
    ASSUME NEW t, Calls(t), NEW o \in SUBSET ToolOptions(t)
    PROVE  /\ ToolMethod(t) \in Methods
           /\ ClientArgs(t, o) \in SUBSET OptionalArgs(ToolMethod(t))
<1>1. ToolMethod(t) \in Methods
  BY Zenon DEF Calls, Tools, ToolMethod, Methods, AppMethods, WsMethods
<1>2. CASE t = "workspace_upload"
  <2>1. ToolMethod(t) = "Workspace.create"
    BY <1>2, Zenon DEF ToolMethod
  <2>2. OptionalArgs("Workspace.create") = {"overwrite"}
    BY Zenon DEF OptionalArgs
  <2>3. QED BY <1>1, <1>2, <2>1, <2>2 DEF ClientArgs
<1>3. CASE t = "workspace_list"
  <2>1. ToolMethod(t) = "Workspace.ls" /\ ToolOptions(t) = {"recursive"}
    BY <1>3, Zenon DEF ToolMethod, ToolOptions
  <2>2. OptionalArgs("Workspace.ls") = {"recursive"}
    BY Zenon DEF OptionalArgs
  <2>3. QED BY <1>1, <1>3, <2>1, <2>2 DEF ClientArgs
<1>4. CASE t = "workspace_get"
  <2>1. ToolMethod(t) = "Workspace.get" /\ ToolOptions(t) = {"metadata_only"}
    BY <1>4, Zenon DEF ToolMethod, ToolOptions
  <2>2. OptionalArgs("Workspace.get") = {"metadata_only"}
    BY Zenon DEF OptionalArgs
  <2>3. QED BY <1>1, <1>4, <2>1, <2>2 DEF ClientArgs
<1>5. CASE t = "workspace_delete"
  <2>1. ToolMethod(t) = "Workspace.delete" /\ ToolOptions(t) = {"force"}
    BY <1>5, Zenon DEF ToolMethod, ToolOptions
  <2>2. OptionalArgs("Workspace.delete") = {"force"}
    BY Zenon DEF OptionalArgs
  <2>3. QED BY <1>1, <1>5, <2>1, <2>2 DEF ClientArgs
<1>6. CASE t \notin {"workspace_upload", "workspace_list", "workspace_get",
                     "workspace_delete"}
  <2>1. ToolOptions(t) = {}
    BY <1>6, Zenon DEF ToolOptions
  <2>2. ClientArgs(t, o) = {}
    BY <1>6, <2>1 DEF ClientArgs
  <2>3. QED BY <1>1, <2>2
<1>7. QED BY <1>1, <1>2, <1>3, <1>4, <1>5, <1>6

\* A host request names a target, and its options are boolean keys of
\* that target's schema.
LEMMA HostRequestType ==
    ASSUME NEW q \in HostRequests
    PROVE  /\ q.tool \in Targets
           /\ q.argsOk \in BOOLEAN
           /\ OptionsOk(q)
           /\ q.opts \in SUBSET Flags
<1>0. \/ q \in UNION {{[tool |-> t, argsOk |-> b, opts |-> o] :
                          b \in BOOLEAN, o \in SUBSET ToolOptions(t)} : t \in Tools \cup {Unknown}}
      \/ q \in {[tool |-> u, argsOk |-> TRUE, opts |-> {}] : u \in ResourceUris \cup {UnknownUri}}
  BY DEF HostRequests
<1>1. \A t : ToolOptions(t) \subseteq Flags
  BY Zenon DEF ToolOptions, Flags
<1>2. CASE q \in UNION {{[tool |-> t, argsOk |-> b, opts |-> o] :
                          b \in BOOLEAN, o \in SUBSET ToolOptions(t)} : t \in Tools \cup {Unknown}}
  BY <1>1, <1>2 DEF Targets, OptionsOk
<1>3. CASE q \in {[tool |-> u, argsOk |-> TRUE, opts |-> {}] : u \in ResourceUris \cup {UnknownUri}}
  <2>1. PICK u \in ResourceUris \cup {UnknownUri} : q = [tool |-> u, argsOk |-> TRUE, opts |-> {}]
    BY <1>3
  <2>2. q.tool \in Targets /\ q.argsOk = TRUE /\ q.opts = {}
    BY <2>1 DEF Targets
  <2>3. QED BY <2>2, Zenon DEF OptionsOk
<1>4. QED BY <1>0, <1>2, <1>3

\* handle_tool's formatting ends in one of the texts, and in "error"
\* whenever the client call raised (no handler catches an exception).
LEMMA FormatType ==
    ASSUME NEW t, NEW out \in Outcomes
    PROVE  /\ Format(t, out) \subseteq Texts
           /\ ~out.ok => Format(t, out) = {"error"}
<1>1. CASE ~out.ok
  BY <1>1 DEF Format, Texts
<1>2. CASE out.ok
  <2>1. Format(t, out) =
          CASE t = "workspace_delete" -> {"deleted"}
            [] t = "workspace_share"  -> {"permission_set"}
            [] t = "job_cancel" -> {IF out.val = "true" THEN "cancelled" ELSE "failed_to_cancel"}
            [] t = "job_logs" -> IF out.val = "map" THEN {"json", "not_found"} ELSE {"not_found"}
            [] t = "workspace_download_url" ->
                   IF out.val \in {"map", "empty_map"} THEN {"json"} ELSE {"error"}
            [] OTHER -> {"json"}
    BY <1>2 DEF Format
  <2>2. QED BY <1>2, <2>1, Zenon DEF Texts
<1>3. QED BY <1>1, <1>2

\* job_logs formats a normal return of query_tasks as the hint or as
\* "Task <id> not found", and as the latter when no task came back.
LEMMA JobLogsFormat ==
    ASSUME NEW out, out.ok, NEW text \in Format("job_logs", out)
    PROVE  /\ text \in {"json", "not_found"}
           /\ out.val = "empty_map" => text = "not_found"
<1>1. Format("job_logs", out) =
        IF out.val = "map" THEN {"json", "not_found"} ELSE {"not_found"}
  BY Zenon DEF Format
<1>2. QED BY <1>1

\* handle_tool turns a normal return into a text other than "error",
\* except download_url for a mapping without the path or a non-mapping.
LEMMA FormatOkNoError ==
    ASSUME NEW t, NEW out, out.ok,
           t = "workspace_download_url" => out.val \in {"map", "empty_map"}
    PROVE  "error" \notin Format(t, out)
<1>1. CASE t = "workspace_download_url"
  <2>1. Format(t, out) = {"json"}
    BY <1>1, Zenon DEF Format
  <2>2. QED BY <2>1
<1>2. CASE t # "workspace_download_url"
  <2>1. Format(t, out) \subseteq {"deleted", "permission_set", "cancelled",
                                  "failed_to_cancel", "json", "not_found"}
    BY <1>2, Zenon DEF Format
  <2>2. QED BY <2>1
<1>3. QED BY <1>1, <1>2

\* get_download_url decodes every documented result to a mapping: null
\* and [] to {}, [{}] to {}, [{path: url}] to the mapping.
LEMMA DownloadDocumented ==
    ASSUME NEW r \in Documented("Workspace.get_download_url"),
           NEW out \in DecodeDownloadUrl(r)
    PROVE  out.val \in {"map", "empty_map"}
<1>1. r \in {Bare("null"), Bare("elist"), Wrap("edict"), Wrap("map")}
  BY Zenon DEF Documented
<1>2. CASE r \in {Bare("null"), Bare("elist")}
  <2>1. ~TruthyResult(r)
    BY <1>2 DEF TruthyResult, Truthy, Bare
  <2>2. QED BY <2>1 DEF DecodeDownloadUrl, Ok
<1>3. CASE r = Wrap("map")
  <2>1. TruthyResult(r) /\ ResultAt0Error(r) = "none" /\ ResultAt0(r) = "map"
    BY <1>3 DEF TruthyResult, ResultAt0Error, ResultAt0, Wrap
  <2>2. DecodeDownloadUrl(r) = {Ok("map")}
    BY <2>1, Zenon DEF DecodeDownloadUrl
  <2>3. QED BY <2>2 DEF Ok
<1>4. CASE r = Wrap("edict")
  <2>1. TruthyResult(r) /\ ResultAt0Error(r) = "none" /\ ResultAt0(r) = "edict"
    BY <1>4 DEF TruthyResult, ResultAt0Error, ResultAt0, Wrap
  <2>2. DecodeDownloadUrl(r) = {Ok("empty_map")}
    BY <2>1, Zenon DEF DecodeDownloadUrl
  <2>3. QED BY <2>2 DEF Ok
<1>5. QED BY <1>1, <1>2, <1>3, <1>4

\* The inductive invariant of the router.  Beyond the properties: queued
\* requests carry the ids that follow the answered and the handled ones;
\* no client call is in flight unless a handler is waiting for it; and
\* the client call in flight, or the result it left, is that of the
\* method the waiting handler called; the result the client left is an
\* outcome of that method for its reply; and the client's error taxonomy,
\* on which the documented-reply properties rest.
RtInv ==
    /\ RouterTypeOK
    /\ \A i \in 1..Len(inbox) : OptionsOk(inbox[i])
    /\ \A i \in 1..Len(inbox) :
           inbox[i].rid = Len(responses) + (IF handling = NoCall THEN 0 ELSE 1) + i
    /\ handling = NoCall => pending = NoCall
    /\ handling # NoCall =>
           /\ handling.rid = Len(responses) + 1
           /\ pending # NoCall => pending.method = ToolMethod(handling.tool)
           /\ pending = NoCall => ret # NoCall /\ ret.method = ToolMethod(handling.tool)
    /\ ret # NoCall => ret.out \in Respond(ret.method, ret.reply)
    /\ ResponsesInOrder
    /\ NoErrorOnDocumentedReply
    /\ JobLogsNotFoundIsNotAnError
    /\ RaisesOnlyOnBadReply

\* The host's requests and the handler's state are unchanged by a step of
\* the client alone, and the client's by a step of the router alone.
LEMMA ClientVarsUnchanged ==
    UNCHANGED clientVars <=> UNCHANGED vars
  BY DEF clientVars, vars

\* What the event loop does with the oldest request q (Dispatch, through
\* handle_tool or read_resource): it is dequeued and either answered at
\* once, with no RPC, or its handler calls the client and waits.
LEMMA DispatchShape ==
    ASSUME RtInv, Dispatch
    PROVE  LET q == Head(inbox) IN
           /\ handling = NoCall /\ pending = NoCall
           /\ inbox # <<>> /\ inbox' = Tail(inbox) /\ sent' = sent
           /\ q = inbox[1]
           /\ \/ /\ Immediate(q)
                 /\ responses' = Append(responses,
                        [rid |-> q.rid, tool |-> q.tool, text |-> ImmediateText(q), call |-> NoCall])
                 /\ handling' = handling
                 /\ UNCHANGED vars
              \/ /\ ~Immediate(q)
                 /\ Calls(q.tool)
                 /\ Invoke(ToolMethod(q.tool), ClientArgs(q.tool, q.opts))
                 /\ handling' = q
                 /\ responses' = responses
<1> DEFINE q == Head(inbox)
<1>1. handling = NoCall /\ pending = NoCall /\ inbox # <<>>
      /\ inbox' = Tail(inbox) /\ sent' = sent
  BY DEF Dispatch, RtInv
<1>2. q = inbox[1]
  BY <1>1
<1>3. q.tool \in Targets
  <2>1. inbox \in Seq(Queued)
    BY DEF RtInv, RouterTypeOK
  <2>2. q \in Queued
    BY <1>1, <2>1, HeadTailProperties
  <2>3. QED BY <2>2 DEF Queued
<1>4. CASE Immediate(q)
  <2>1. /\ responses' = Append(responses,
                [rid |-> q.rid, tool |-> q.tool, text |-> ImmediateText(q), call |-> NoCall])
        /\ handling' = handling /\ UNCHANGED clientVars
    BY <1>4 DEF Dispatch, Serve
  <2>2. QED BY <1>1, <1>2, <1>4, <2>1, ClientVarsUnchanged
<1>5. CASE ~Immediate(q)
  <2>1. /\ Invoke(ToolMethod(q.tool), ClientArgs(q.tool, q.opts))
        /\ handling' = q /\ responses' = responses
    BY <1>5 DEF Dispatch, Serve
  <2>2. Calls(q.tool)
    BY <1>3, <1>5 DEF Targets, ResourceUris, Calls, Immediate, Rejected
  <2>3. QED BY <1>1, <1>2, <1>5, <2>1, <2>2
<1>6. QED BY <1>4, <1>5

\* Every router step is a step of the client, or leaves it alone: the
\* router calls the client only through its methods.
LEMMA ClientStep ==
    ASSUME RtInv, [RouterNext]_allVars PROVE [Next]_vars
<1>1. CASE \E q \in HostRequests : HostCall(q)
  BY <1>1, ClientVarsUnchanged DEF HostCall
<1>2. CASE Dispatch
  <2> DEFINE q == Head(inbox)
  <2>1. CASE UNCHANGED vars
    BY <2>1
  <2>2. CASE Calls(q.tool) /\ Invoke(ToolMethod(q.tool), ClientArgs(q.tool, q.opts))
    <3>1. OptionsOk(q)
      BY <1>2, DispatchShape DEF RtInv
    <3>2. ToolMethod(q.tool) \in Methods
          /\ ClientArgs(q.tool, q.opts) \in SUBSET OptionalArgs(ToolMethod(q.tool))
      BY <2>2, <3>1, ToolMethodType DEF OptionsOk
    <3>3. QED BY <2>2, <3>2 DEF Next
  <2>3. QED BY <1>2, <2>1, <2>2, DispatchShape
<1>3. CASE \E rep \in Replies : ClientReply(rep)
  BY <1>3 DEF ClientReply, Next
<1>4. CASE Complete
  BY <1>4, ClientVarsUnchanged DEF Complete
<1>5. CASE UNCHANGED allVars
  BY <1>5 DEF allVars, vars
<1>6. QED BY <1>1, <1>2, <1>3, <1>4, <1>5 DEF RouterNext


\* Appending an answer keeps the answers' properties when the new one
\* has them: no error for a documented reply, and job_logs' texts.
LEMMA AppendAnswer ==
    ASSUME RtInv, NEW a \in Response, responses' = Append(responses, a),
           /\ a.call # NoCall /\ a.call.reply.kind = "result"
           /\ a.call.reply.result \in Documented(a.call.method)
           => a.text # "error",
           /\ a.tool = "job_logs" /\ a.call # NoCall /\ a.call.reply.kind = "result"
           /\ a.call.reply.result \in Documented("AppService.query_tasks")
           => /\ a.text \in {"json", "not_found"}
              /\ a.call.out.val = "empty_map" => a.text = "not_found"
    PROVE  NoErrorOnDocumentedReply' /\ JobLogsNotFoundIsNotAnError'
<1>1. responses \in Seq(Response)
  BY DEF RtInv, RouterTypeOK
<1>2. /\ Len(responses') = Len(responses) + 1
      /\ \A i \in 1..Len(responses) : responses'[i] = responses[i]
      /\ responses'[Len(responses) + 1] = a
      /\ Len(responses) \in Nat
  BY <1>1, AppendProperties
<1>3. SUFFICES ASSUME NEW i \in 1..Len(responses')
               PROVE  /\ LET c == responses'[i].call IN
                         (/\ c # NoCall /\ c.reply.kind = "result"
                          /\ c.reply.result \in Documented(c.method))
                         => responses'[i].text # "error"
                      /\ LET r == responses'[i] IN
                         (/\ r.tool = "job_logs"
                          /\ r.call # NoCall
                          /\ r.call.reply.kind = "result"
                          /\ r.call.reply.result \in Documented("AppService.query_tasks"))
                         => /\ r.text \in {"json", "not_found"}
                            /\ r.call.out.val = "empty_map" => r.text = "not_found"
  BY DEF NoErrorOnDocumentedReply, JobLogsNotFoundIsNotAnError
<1>4. CASE i \in 1..Len(responses)
  BY <1>2, <1>4 DEF RtInv, NoErrorOnDocumentedReply, JobLogsNotFoundIsNotAnError
<1>5. CASE i = Len(responses) + 1
  BY <1>2, <1>5
<1>6. QED BY <1>2, <1>4, <1>5


\* The host sends a request: it is queued with the next id, and nothing
\* else changes.
LEMMA HostCallPreserves ==
    ASSUME RtInv, NEW q \in HostRequests, HostCall(q), TypeOK', RaisesOnlyOnBadReply'
    PROVE  RtInv'
<1> DEFINE r == [rid |-> sent + 1, tool |-> q.tool, argsOk |-> q.argsOk, opts |-> q.opts]
<1>0. PICK h \in {0, 1} : h = IF handling = NoCall THEN 0 ELSE 1
  OBVIOUS
<1>1. inbox' = Append(inbox, r) /\ sent' = sent + 1 /\ sent < MaxHostCalls
      /\ UNCHANGED <<handling, responses, pending, ret>>
  BY DEF HostCall, clientVars
<1>2. sent \in 0..MaxHostCalls /\ inbox \in Seq(Queued)
  BY DEF RtInv, RouterTypeOK
<1>3. r \in Queued /\ OptionsOk(r)
  BY <1>2, HostRequestType DEF Queued, OptionsOk
<1>4. /\ inbox' \in Seq(Queued)
      /\ Len(inbox') = Len(inbox) + 1
      /\ \A i \in 1..Len(inbox) : inbox'[i] = inbox[i]
      /\ inbox'[Len(inbox) + 1] = r
  BY <1>1, <1>2, <1>3, AppendProperties
<1>5. sent = Len(responses) + Len(inbox) + h
  BY <1>0 DEF RtInv, ResponsesInOrder
<1>6. RouterTypeOK'
  BY <1>1, <1>2, <1>4, MaxHostCallsAssumption DEF RtInv, RouterTypeOK
<1>7. \A i \in 1..Len(inbox') : OptionsOk(inbox'[i])
  BY <1>3, <1>4 DEF RtInv
<1>8. \A i \in 1..Len(inbox') :
        inbox'[i].rid = Len(responses') + (IF handling' = NoCall THEN 0 ELSE 1) + i
  <2> SUFFICES ASSUME NEW i \in 1..Len(inbox') PROVE inbox'[i].rid = Len(responses) + h + i
    BY <1>0, <1>1
  <2>1. Len(inbox) \in Nat /\ Len(responses) \in Nat
    BY <1>2 DEF RtInv, RouterTypeOK
  <2>2. CASE i \in 1..Len(inbox)
    BY <1>0, <1>4, <2>2 DEF RtInv
  <2>3. CASE i = Len(inbox) + 1
    <3>1. inbox'[i].rid = sent + 1
      BY <1>4, <2>3
    <3>2. QED BY <1>2, <1>5, <2>1, <2>3, <3>1
  <2>4. QED BY <1>4, <2>1, <2>2, <2>3
<1>9. ResponsesInOrder'
  <2>1. Len(responses) \in Nat /\ Len(inbox) \in Nat
    BY <1>2 DEF RtInv, RouterTypeOK
  <2>2. \A i \in 1..Len(responses') : responses'[i].rid = i
    BY <1>1 DEF RtInv, ResponsesInOrder
  <2>3. Len(responses') + Len(inbox') + (IF handling' = NoCall THEN 0 ELSE 1) = sent'
    BY <1>0, <1>1, <1>2, <1>4, <1>5, <2>1
  <2>4. QED BY <2>2, <2>3 DEF ResponsesInOrder
<1>10. QED
  BY <1>1, <1>6, <1>7, <1>8, <1>9
     DEF RtInv, NoErrorOnDocumentedReply, JobLogsNotFoundIsNotAnError


\* The event loop serves the oldest request: the ids of the rest move up
\* by one place, and the request is either answered at once or becomes
\* the one being handled.
LEMMA DispatchPreserves ==
    ASSUME RtInv, Dispatch, TypeOK', RaisesOnlyOnBadReply'
    PROVE  RtInv'
<1> DEFINE q == Head(inbox)
<1>1. /\ handling = NoCall /\ pending = NoCall
      /\ inbox # <<>> /\ inbox' = Tail(inbox) /\ sent' = sent
      /\ q = inbox[1]
  BY DispatchShape
<1>2. inbox \in Seq(Queued) /\ responses \in Seq(Response) /\ sent \in 0..MaxHostCalls
  BY DEF RtInv, RouterTypeOK
<1>3. /\ q \in Queued
      /\ inbox' \in Seq(Queued)
      /\ Len(inbox') = Len(inbox) - 1
      /\ \A i \in 1..Len(inbox') : inbox'[i] = inbox[i + 1]
  BY <1>1, <1>2, HeadTailProperties
<1>4. /\ Len(inbox) \in Nat \ {0} /\ Len(responses) \in Nat
      /\ 1 \in 1..Len(inbox)
  BY <1>1, <1>2, EmptySeq
<1>5. q.rid = Len(responses) + 1 /\ OptionsOk(q)
  BY <1>1, <1>4 DEF RtInv
<1>6. \A i \in 1..Len(inbox') :
        /\ OptionsOk(inbox'[i])
        /\ inbox'[i].rid = Len(responses) + 1 + i
  <2> SUFFICES ASSUME NEW i \in 1..Len(inbox') PROVE
                  /\ OptionsOk(inbox'[i])
                  /\ inbox'[i].rid = Len(responses) + 1 + i
    OBVIOUS
  <2>1. i + 1 \in 1..Len(inbox)
    BY <1>3, <1>4
  <2>2. QED BY <1>1, <1>3, <2>1 DEF RtInv
<1>7. sent = Len(responses) + Len(inbox)
  BY <1>1 DEF RtInv, ResponsesInOrder
<1>8. CASE /\ Immediate(q)
           /\ responses' = Append(responses,
                  [rid |-> q.rid, tool |-> q.tool, text |-> ImmediateText(q), call |-> NoCall])
           /\ handling' = handling /\ UNCHANGED vars
  <2>1. ImmediateText(q) \in {"error", "json"}
    BY DEF ImmediateText
  <2> DEFINE a == [rid |-> q.rid, tool |-> q.tool, text |-> ImmediateText(q), call |-> NoCall]
  <2>2. a \in Response
    BY <1>3, <1>4, <1>5, <2>1 DEF Response, Queued, Texts
  <2>3. /\ responses' \in Seq(Response)
        /\ Len(responses') = Len(responses) + 1
        /\ \A i \in 1..Len(responses) : responses'[i] = responses[i]
        /\ responses'[Len(responses) + 1] = a
    BY <1>2, <1>8, <2>2, AppendProperties
  <2>4. RouterTypeOK'
    BY <1>1, <1>2, <1>3, <1>8, <2>3 DEF RouterTypeOK
  <2>5. ResponsesInOrder'
    BY <1>1, <1>3, <1>4, <1>5, <1>7, <1>8, <2>3 DEF RtInv, ResponsesInOrder
  <2>6. NoErrorOnDocumentedReply' /\ JobLogsNotFoundIsNotAnError'
    BY <1>8, <2>2, AppendAnswer
  <2>7. \A i \in 1..Len(inbox') :
          inbox'[i].rid = Len(responses') + (IF handling' = NoCall THEN 0 ELSE 1) + i
    BY <1>1, <1>6, <1>8, <2>3
  <2>8. QED BY <1>1, <1>6, <1>8, <2>4, <2>5, <2>6, <2>7 DEF RtInv, vars
<1>9. CASE /\ ~Immediate(q)
           /\ Calls(q.tool)
           /\ Invoke(ToolMethod(q.tool), ClientArgs(q.tool, q.opts))
           /\ handling' = q
           /\ responses' = responses
  <2>1. ToolMethod(q.tool) \in Methods
        /\ ClientArgs(q.tool, q.opts) \in SUBSET OptionalArgs(ToolMethod(q.tool))
    BY <1>5, <1>9, ToolMethodType DEF OptionsOk
  <2>2. pending' = [method |-> ToolMethod(q.tool), args |-> ClientArgs(q.tool, q.opts)]
    BY <1>9 DEF Invoke
  <2>3. pending' # NoCall
    <3>1. ClientArgs(q.tool, q.opts) \in SUBSET Flags
      BY <2>1, FlagsType
    <3>2. QED BY <2>1, <2>2, <3>1, NoCallAssumption
  <2>4. handling' # NoCall
    BY <1>3, <1>9, NoCallRouterAssumption
  <2>5. RouterTypeOK'
    BY <1>1, <1>2, <1>3, <1>9 DEF RouterTypeOK
  <2>6. ResponsesInOrder'
    BY <1>1, <1>3, <1>4, <1>7, <1>9, <2>4 DEF RtInv, ResponsesInOrder
  <2>7. \A i \in 1..Len(inbox') :
          inbox'[i].rid = Len(responses') + (IF handling' = NoCall THEN 0 ELSE 1) + i
    BY <1>6, <1>9, <2>4
  <2>8. ret' = ret
    BY <1>9, Zenon DEF Invoke
  <2>9. QED
    BY <1>5, <1>6, <1>9, <2>2, <2>3, <2>4, <2>5, <2>6, <2>7, <2>8
       DEF RtInv, NoErrorOnDocumentedReply, JobLogsNotFoundIsNotAnError
<1>10. QED BY <1>8, <1>9, DispatchShape


\* The client call of the handler returns or raises: the result it
\* leaves is that of the method the handler called.
LEMMA ClientReplyPreserves ==
    ASSUME RtInv, NEW rep \in Replies, ClientReply(rep), TypeOK', RaisesOnlyOnBadReply'
    PROVE  RtInv'
<1>1. pending # NoCall /\ pending' = NoCall /\ UNCHANGED routerVars
  BY DEF ClientReply, Reply
<1>2. handling # NoCall /\ pending.method = ToolMethod(handling.tool)
  BY <1>1 DEF RtInv
<1>3. pending \in Pending
  BY <1>1 DEF RtInv, RouterTypeOK, TypeOK
<1>4. PICK out \in Respond(pending.method, rep) :
        ret' = [method |-> pending.method, reply |-> rep, out |-> out]
  BY DEF ClientReply, Reply
<1>5. ret' \in Returned
  <2>1. Respond(pending.method, rep) \subseteq Outcomes
    BY <1>3, RespondType DEF Pending
  <2>2. QED BY <1>3, <1>4, <2>1 DEF Returned, Pending
<1>6. ret' # NoCall /\ ret'.method = ToolMethod(handling'.tool)
  BY <1>1, <1>2, <1>4, <1>5, NoCallRouterAssumption DEF routerVars
<1>7. QED
  BY <1>1, <1>2, <1>4, <1>6
     DEF RtInv, RouterTypeOK, ResponsesInOrder, NoErrorOnDocumentedReply,
         JobLogsNotFoundIsNotAnError, routerVars

\* The handler formats the result of its own call and returns: the
\* answer carries the handled request's id and that call.
LEMMA CompletePreserves ==
    ASSUME RtInv, Complete, TypeOK', RaisesOnlyOnBadReply'
    PROVE  RtInv'
<1>1. /\ handling # NoCall /\ pending = NoCall
      /\ handling' = NoCall /\ UNCHANGED <<inbox, sent>> /\ UNCHANGED clientVars
  BY DEF Complete
<1>2. /\ ret # NoCall /\ ret.method = ToolMethod(handling.tool)
      /\ handling.rid = Len(responses) + 1
  BY <1>1 DEF RtInv
<1>3. /\ ret \in Returned /\ handling \in Queued
      /\ responses \in Seq(Response) /\ inbox \in Seq(Queued)
  BY <1>1, <1>2 DEF RtInv, RouterTypeOK, TypeOK
<1>4. PICK text \in Format(handling.tool, ret.out) :
        responses' = Append(responses,
            [rid |-> handling.rid, tool |-> handling.tool, text |-> text, call |-> ret])
  BY DEF Complete
<1> DEFINE a == [rid |-> handling.rid, tool |-> handling.tool, text |-> text, call |-> ret]
<1>5. text \in Texts /\ (~ret.out.ok => text = "error")
  <2>1. ret.out \in Outcomes
    BY <1>3 DEF Returned
  <2>2. QED BY <1>4, <2>1, FormatType
<1>6. a \in Response
  <2>1. Len(responses) \in Nat
    BY <1>3
  <2>2. QED BY <1>2, <1>3, <1>5, <2>1 DEF Response, Queued
<1>7. /\ responses' \in Seq(Response)
      /\ Len(responses') = Len(responses) + 1
      /\ \A i \in 1..Len(responses) : responses'[i] = responses[i]
      /\ responses'[Len(responses) + 1] = a
  BY <1>3, <1>4, <1>6, AppendProperties
<1>8. RouterTypeOK'
  BY <1>1, <1>7 DEF RtInv, RouterTypeOK
<1>9. ResponsesInOrder'
  BY <1>1, <1>2, <1>7 DEF RtInv, ResponsesInOrder
<1>10. /\ handling.tool = "job_logs" /\ ret.reply.kind = "result"
       /\ ret.reply.result \in Documented("AppService.query_tasks")
       => /\ text \in {"json", "not_found"}
          /\ ret.out.val = "empty_map" => text = "not_found"
  <2> SUFFICES ASSUME handling.tool = "job_logs", ret.reply.kind = "result",
                      ret.reply.result \in Documented("AppService.query_tasks")
               PROVE  /\ text \in {"json", "not_found"}
                      /\ ret.out.val = "empty_map" => text = "not_found"
    OBVIOUS
  <2>1. ret.method = "AppService.query_tasks"
    <3>1. ToolMethod("job_logs") = "AppService.query_tasks"
      BY Zenon DEF ToolMethod
    <3>2. QED BY <1>2, <3>1
  <2>2. ret.out.ok
    BY <1>2, <2>1 DEF RtInv, RaisesOnlyOnBadReply, Failures
  <2>3. QED BY <1>4, <2>2, JobLogsFormat
<1>14. /\ ret.reply.kind = "result" /\ ret.reply.result \in Documented(ret.method)
       => text # "error"
  <2> SUFFICES ASSUME ret.reply.kind = "result", ret.reply.result \in Documented(ret.method)
               PROVE  text # "error"
    OBVIOUS
  <2>1. ret.out.ok
    BY <1>2 DEF RtInv, RaisesOnlyOnBadReply, Failures
  <2>2. ret.out \in Decode(ret.method, ret.reply.result)
    <3>1. ret.out \in Respond(ret.method, ret.reply)
      BY <1>2 DEF RtInv
    <3>2. QED BY <3>1, Zenon DEF Respond
  <2>3. handling.tool = "workspace_download_url" => ret.out.val \in {"map", "empty_map"}
    <3> SUFFICES ASSUME handling.tool = "workspace_download_url"
                 PROVE  ret.out.val \in {"map", "empty_map"}
      OBVIOUS
    <3>1. ret.method = "Workspace.get_download_url"
      <4>1. ToolMethod("workspace_download_url") = "Workspace.get_download_url"
        BY Zenon DEF ToolMethod
      <4>2. QED BY <1>2, <4>1
    <3>2. ret.out \in DecodeDownloadUrl(ret.reply.result)
      BY <2>2, <3>1, Zenon DEF Decode
    <3>3. QED BY <3>1, <3>2, DownloadDocumented
  <2>4. QED BY <1>4, <2>1, <2>3, FormatOkNoError
<1>13. NoErrorOnDocumentedReply' /\ JobLogsNotFoundIsNotAnError'
  BY <1>2, <1>4, <1>6, <1>10, <1>14, AppendAnswer
<1>11. \A i \in 1..Len(inbox') :
         /\ OptionsOk(inbox'[i])
         /\ inbox'[i].rid = Len(responses') + (IF handling' = NoCall THEN 0 ELSE 1) + i
  BY <1>1, <1>7 DEF RtInv
<1>12. QED
  BY <1>1, <1>8, <1>9, <1>11, <1>13 DEF RtInv, clientVars


\* RtInv is inductive: one case per action of the router.
LEMMA RtInvInductive == RtInv /\ [RouterNext]_allVars => RtInv'
<1> SUFFICES ASSUME RtInv, [RouterNext]_allVars PROVE RtInv'
  OBVIOUS
<1>1. TypeOK' /\ RaisesOnlyOnBadReply'
  BY ClientStep, TypeOKInductive, TaxonomyInductive DEF RtInv, RouterTypeOK
<1>2. CASE \E q \in HostRequests : HostCall(q)
  BY <1>1, <1>2, HostCallPreserves
<1>3. CASE Dispatch
  BY <1>1, <1>3, DispatchPreserves
<1>4. CASE \E rep \in Replies : ClientReply(rep)
  BY <1>1, <1>4, ClientReplyPreserves
<1>5. CASE Complete
  BY <1>1, <1>5, CompletePreserves
<1>6. CASE UNCHANGED allVars
  BY <1>6 DEF allVars, RtInv, RouterTypeOK, TypeOK, OptionsOk, ResponsesInOrder,
              NoErrorOnDocumentedReply, JobLogsNotFoundIsNotAnError,
              RaisesOnlyOnBadReply
<1>7. QED BY <1>2, <1>3, <1>4, <1>5, <1>6 DEF RouterNext

\* The router starts with nothing queued, handled or answered.
LEMMA RtInvInit == RouterInit => RtInv
<1> SUFFICES ASSUME RouterInit PROVE RtInv
  OBVIOUS
<1>1. TypeOK
  BY MaxCallsAssumption DEF RouterInit, Init, TypeOK
<1>2. RouterTypeOK
  <2>1. <<>> \in Seq(Queued) /\ <<>> \in Seq(Response)
    OBVIOUS
  <2>2. 0 \in 0..MaxHostCalls
    BY MaxHostCallsAssumption
  <2>3. QED BY <1>1, <2>1, <2>2 DEF RouterInit, RouterTypeOK
<1>3. Len(inbox) = 0 /\ Len(responses) = 0 /\ handling = NoCall /\ pending = NoCall
      /\ sent = 0
  BY DEF RouterInit, Init
<1>4. ret = NoCall
  BY DEF RouterInit, Init
<1>5. QED
  BY <1>2, <1>3, <1>4 DEF RtInv, ResponsesInOrder, NoErrorOnDocumentedReply,
                          JobLogsNotFoundIsNotAnError, RaisesOnlyOnBadReply

\* For every bound on the host's requests and the client's calls, the
\* server answers each tool call and resource read once and in the order
\* sent (call_tool / read_resource over one stdio stream, with the
\* blocking httpx client); a reply the remote API documents for the
\* method a tool calls, empty results included, never reaches the host as
\* an error (the decoders of rpc.py composed with handle_tool's
\* formatting); and job_logs answers a documented query_tasks reply with
\* the hint or "not found".
THEOREM RouterSafety ==
    RouterSpec => [](/\ RouterTypeOK /\ ResponsesInOrder
                     /\ NoErrorOnDocumentedReply
                     /\ JobLogsNotFoundIsNotAnError)
<1>1. RtInv => /\ RouterTypeOK /\ ResponsesInOrder
               /\ NoErrorOnDocumentedReply
               /\ JobLogsNotFoundIsNotAnError
  BY DEF RtInv
<1>2. QED
  BY <1>1, RtInvInit, RtInvInductive, PTL DEF RouterSpec


-----------------------------------------------------------------------------
(* Refinement of RouterCall.  Complete is mapped to Answer, so the request *)
(* the handler waits on must be one that calls the client, its request    *)
(* must be the last one on the wire, and the result the client left must  *)
(* be an outcome of that method for the reply it got.                     *)

HandledCall ==
    /\ ret # NoCall => ret.out \in Respond(ret.method, ret.reply)
    /\ handling # NoCall =>
           /\ ~Immediate(handling)
           /\ Len(wire) >= 1
           /\ wire[Len(wire)] = AbsRequest(Len(wire), ToolMethod(handling.tool),
                                           ClientArgs(handling.tool, handling.opts))

RfInv == RtInv /\ WireDiscipline /\ HandledCall


\* A sequence with an element put in front has that element as its head
\* and the sequence as its tail.
LEMMA ConsHeadTail ==
    ASSUME NEW S, NEW e \in S, NEW s \in Seq(S)
    PROVE  /\ <<e>> \o s \in Seq(S)
           /\ <<e>> \o s # <<>>
           /\ Head(<<e>> \o s) = e
           /\ Tail(<<e>> \o s) = s
<1>1. <<e>> \in Seq(S) /\ Len(<<e>>) = 1
  OBVIOUS
<1>2. /\ <<e>> \o s \in Seq(S)
      /\ Len(<<e>> \o s) = 1 + Len(s)
      /\ \A i \in 1..1 + Len(s) : (<<e>> \o s)[i] = IF i <= 1 THEN <<e>>[i] ELSE s[i - 1]
  BY <1>1, ConcatProperties
<1>3. Len(s) \in Nat
  BY LenProperties
<1>4. <<e>> \o s # <<>> /\ Head(<<e>> \o s) = e
  BY <1>2, <1>3
<1>5. /\ Tail(<<e>> \o s) \in Seq(S)
      /\ Len(Tail(<<e>> \o s)) = Len(s)
      /\ \A i \in 1..Len(s) : Tail(<<e>> \o s)[i] = s[i]
  <2>1. /\ Tail(<<e>> \o s) \in Seq(S)
        /\ Len(Tail(<<e>> \o s)) = Len(<<e>> \o s) - 1
        /\ \A i \in 1..Len(Tail(<<e>> \o s)) : Tail(<<e>> \o s)[i] = (<<e>> \o s)[i + 1]
    BY <1>2, <1>4, HeadTailProperties
  <2>2. QED BY <1>2, <1>3, <2>1
<1>6. QED BY <1>2, <1>4, <1>5, SeqEqual

\* A non-empty sequence is its head put in front of its tail.
LEMMA HeadTailCons ==
    ASSUME NEW S, NEW s \in Seq(S), s # <<>>
    PROVE  <<Head(s)>> \o Tail(s) = s
<1>1. /\ Head(s) \in S /\ Tail(s) \in Seq(S)
      /\ Len(Tail(s)) = Len(s) - 1
      /\ \A i \in 1..Len(Tail(s)) : Tail(s)[i] = s[i + 1]
  BY HeadTailProperties
<1>2. Len(s) \in Nat /\ Len(s) >= 1
  BY EmptySeq, LenProperties
<1>3. /\ <<Head(s)>> \o Tail(s) \in Seq(S)
      /\ Len(<<Head(s)>> \o Tail(s)) = 1 + Len(Tail(s))
      /\ \A i \in 1..1 + Len(Tail(s)) : (<<Head(s)>> \o Tail(s))[i] =
             IF i <= 1 THEN <<Head(s)>>[i] ELSE Tail(s)[i - 1]
  BY <1>1, ConcatProperties
<1>4. \A i \in 1..Len(s) : (<<Head(s)>> \o Tail(s))[i] = s[i]
  BY <1>1, <1>2, <1>3
<1>5. QED BY <1>1, <1>2, <1>3, <1>4, SeqEqual

\* Appending behind a sequence with an element in front.
LEMMA ConsAppend ==
    ASSUME NEW S, NEW e \in S, NEW s \in Seq(S), NEW x \in S
    PROVE  <<e>> \o Append(s, x) = Append(<<e>> \o s, x)
<1>1. <<e>> \in Seq(S) /\ <<x>> \in Seq(S) /\ <<e>> \o s \in Seq(S)
  BY ConcatProperties
<1>2. Append(s, x) = s \o <<x>> /\ Append(<<e>> \o s, x) = (<<e>> \o s) \o <<x>>
  BY <1>1, AppendIsConcat
<1>3. QED BY <1>1, <1>2, ConcatAssociative

\* Dropping the last element of a non-empty sequence shortens it by one.
LEMMA PrefixLen ==
    ASSUME NEW S, NEW s \in Seq(S), Len(s) >= 1
    PROVE  Len(SubSeq(s, 1, Len(s) - 1)) = Len(s) - 1
<1> DEFINE L == Len(s)
           n == Len(SubSeq(s, 1, L - 1))
<1>1. L \in Nat /\ L >= 1 /\ \A i \in 1..L - 1 : s[i] \in S
  BY ElementOfSeq, LenProperties
<1>2. n = IF 1 <= L - 1 THEN L - 1 - 1 + 1 ELSE 0
  BY <1>1, SubSeqProperties
<1> HIDE DEF L, n
<1>3. n = L - 1
  BY <1>1, <1>2
<1>4. QED BY <1>3 DEF L, n


\* HandledCall depends on the handler, the wire, the token and the result.
LEMMA HandledCallUnchanged ==
    ASSUME HandledCall, UNCHANGED <<handling, wire, token, ret>>
    PROVE  HandledCall'
  BY Zenon DEF HandledCall, AbsRequest

\* The handler's request stays the last on the wire until it is answered,
\* and the result the client leaves is an outcome of its call.
LEMMA HandledCallInductive ==
    ASSUME RfInv, [RouterNext]_allVars PROVE HandledCall'
<1>0. HandledCall
  BY DEF RfInv
<1>1. CASE \E q \in HostRequests : HostCall(q)
  <2>1. UNCHANGED <<handling, wire, token, ret>>
    BY <1>1 DEF HostCall, clientVars
  <2>2. QED BY <1>0, <2>1, HandledCallUnchanged
<1>2. CASE Dispatch
  <2> DEFINE q == Head(inbox)
  <2>1. CASE Immediate(q) /\ handling' = handling /\ UNCHANGED vars
    BY <1>0, <2>1, HandledCallUnchanged DEF vars
  <2>2. CASE /\ ~Immediate(q) /\ Calls(q.tool)
             /\ Invoke(ToolMethod(q.tool), ClientArgs(q.tool, q.opts))
             /\ handling' = q
    <3> DEFINE m == ToolMethod(q.tool)
               args == ClientArgs(q.tool, q.opts)
    <3>1. OptionsOk(q)
      BY <1>2, DispatchShape DEF RfInv, RtInv
    <3>2. m \in Methods /\ args \in SUBSET OptionalArgs(m)
      BY <2>2, <3>1, ToolMethodType DEF OptionsOk
    <3>3. /\ ret' = ret /\ token' = token
          /\ wire' = Append(wire, [id |-> reqId + 1, url |-> UrlOf(m), method |-> m,
                                   auth |-> token # "", flags |-> SentFlags(m, args)])
      BY Zenon, <2>2 DEF Invoke
    <3>4. reqId = Len(wire) /\ wire \in Seq(Request)
      BY DEF RfInv, WireDiscipline, RequestIdsFresh, RtInv, RouterTypeOK, TypeOK
    <3>5. AbsRequest(Len(wire) + 1, m, args) \in Request
      BY <3>2, <3>4, FlagsType, UrlType DEF AbsRequest, Request
    <3>6. wire' = Append(wire, AbsRequest(Len(wire) + 1, m, args))
      BY Zenon, <3>3, <3>4 DEF AbsRequest
    <3>7. Len(wire') = Len(wire) + 1 /\ wire'[Len(wire')] = AbsRequest(Len(wire) + 1, m, args)
      BY <3>4, <3>5, <3>6, AppendRequest
    <3>8. Len(wire) \in Nat
      BY <3>4
    <3>9. handling' = q /\ ~Immediate(q) /\ q # NoCall
      <4>1. q \in Queued
        BY <1>2, DispatchShape, HeadTailProperties DEF RfInv, RtInv, RouterTypeOK
      <4>2. QED BY <2>2, <4>1, NoCallRouterAssumption
    <3>10. Len(wire') >= 1
      BY <3>7, <3>8
    <3>11. wire'[Len(wire')] = [id |-> Len(wire'), url |-> UrlOf(m), method |-> m,
                                auth |-> token' # "", flags |-> SentFlags(m, args)]
      BY Zenon, <3>3, <3>7 DEF AbsRequest
    <3>12. QED BY Zenon, <1>0, <3>3, <3>9, <3>10, <3>11 DEF HandledCall, AbsRequest
  <2>3. \/ Immediate(q) /\ handling' = handling /\ UNCHANGED vars
        \/ /\ ~Immediate(q) /\ Calls(q.tool)
           /\ Invoke(ToolMethod(q.tool), ClientArgs(q.tool, q.opts))
           /\ handling' = q
    BY <1>2, DispatchShape DEF RfInv
  <2>4. QED BY <2>1, <2>2, <2>3
<1>3. CASE \E rep \in Replies : ClientReply(rep)
  <2>1. PICK rep \in Replies : ClientReply(rep)
    BY <1>3
  <2>2. PICK out \in Respond(pending.method, rep) :
          ret' = [method |-> pending.method, reply |-> rep, out |-> out]
    BY <2>1 DEF ClientReply, Reply
  <2>3. ret'.out \in Respond(ret'.method, ret'.reply)
    BY <2>2
  <2>4. UNCHANGED <<handling, wire, token>>
    BY <2>1 DEF ClientReply, Reply, routerVars
  <2>5. QED BY Zenon, <2>3, <2>4 DEF HandledCall, RfInv, AbsRequest
<1>4. CASE Complete
  BY <1>4 DEF Complete, clientVars, HandledCall, RfInv
<1>5. CASE UNCHANGED allVars
  BY <1>0, <1>5, HandledCallUnchanged DEF allVars
<1>6. QED BY <1>1, <1>2, <1>3, <1>4, <1>5 DEF RouterNext

\* The refinement's invariant is inductive.
LEMMA RfInvInductive == RfInv /\ [RouterNext]_allVars => RfInv'
<1> SUFFICES ASSUME RfInv, [RouterNext]_allVars PROVE RfInv'
  OBVIOUS
<1>1. RtInv'
  BY RtInvInductive DEF RfInv
<1>2. WireDiscipline'
  <2>1. [Next]_vars
    BY ClientStep DEF RfInv
  <2>2. IInv
    BY DEF RfInv, IInv, RtInv, RouterTypeOK
  <2>3. QED BY <2>1, <2>2, IInvInductive DEF IInv
<1>3. HandledCall'
  BY HandledCallInductive
<1>4. QED BY <1>1, <1>2, <1>3 DEF RfInv


\* A host request joins the end of the requests waiting for an answer.
LEMMA HostCallRefines ==
    ASSUME RfInv, NEW q \in HostRequests, HostCall(q)
    PROVE  Router!HostCall(q)
<1> DEFINE r == [rid |-> sent + 1, tool |-> q.tool, argsOk |-> q.argsOk, opts |-> q.opts]
<1>1. /\ sent < MaxHostCalls /\ sent' = sent + 1 /\ inbox' = Append(inbox, r)
      /\ UNCHANGED <<handling, responses, token, wire>>
  BY DEF HostCall, clientVars
<1>2. inbox \in Seq(Queued) /\ handling \in Queued \cup {NoCall} /\ sent \in 0..MaxHostCalls
  BY DEF RfInv, RtInv, RouterTypeOK
<1>3. r \in Queued
  BY <1>2, HostRequestType DEF Queued
<1>4. Waiting' = Append(Waiting, r)
  <2>1. CASE handling = NoCall
    BY <1>1, <2>1 DEF Waiting
  <2>2. CASE handling # NoCall
    <3>1. Waiting = <<handling>> \o inbox /\ Waiting' = <<handling>> \o Append(inbox, r)
      BY <1>1, <2>2 DEF Waiting
    <3>2. handling \in Queued
      BY <1>2, <2>2
    <3>3. QED BY <1>2, <1>3, <3>1, <3>2, ConsAppend
  <2>3. QED BY <2>1, <2>2
<1>5. Answered' = Answered
  BY <1>1 DEF Answered
<1>6. QED BY <1>1, <1>4, <1>5 DEF Router!HostCall

\* A client reply moves no request and answers none.
LEMMA ClientReplyStutters ==
    ASSUME NEW rep \in Replies, ClientReply(rep)
    PROVE  UNCHANGED <<token, Answered, Waiting, responses, sent>>
  BY DEF ClientReply, Reply, routerVars, Answered, Waiting


\* Dispatch answers an immediate request as Answer does, and otherwise is
\* a stutter: the request it hands to the handler still waits, at the head,
\* and the request it posts is not yet answered.
LEMMA DispatchRefines ==
    ASSUME RfInv, Dispatch
    PROVE  [Router!Next]_<<token, Answered, Waiting, responses, sent>>
<1> DEFINE q == Head(inbox)
<1>0. RtInv
  BY DEF RfInv
<1>1. /\ handling = NoCall /\ pending = NoCall
      /\ inbox # <<>> /\ inbox' = Tail(inbox) /\ sent' = sent
  BY <1>0, DispatchShape
<1>2. Waiting = inbox /\ Answered = wire
  BY <1>1 DEF Waiting, Answered
<1>3. inbox \in Seq(Queued) /\ q \in Queued
  BY <1>1, HeadTailProperties DEF RfInv, RtInv, RouterTypeOK
<1>4. CASE /\ Immediate(q)
           /\ responses' = Append(responses,
                  [rid |-> q.rid, tool |-> q.tool, text |-> ImmediateText(q), call |-> NoCall])
           /\ handling' = handling
           /\ UNCHANGED vars
  <2>1. Waiting' = Tail(inbox) /\ Answered' = wire /\ token' = token
    BY <1>1, <1>4 DEF Waiting, Answered, vars
  <2>2. Router!Answer
    BY <1>1, <1>2, <1>4, <2>1 DEF Router!Answer
  <2>3. QED BY <2>2 DEF Router!Next
<1>5. CASE /\ ~Immediate(q)
           /\ Calls(q.tool)
           /\ Invoke(ToolMethod(q.tool), ClientArgs(q.tool, q.opts))
           /\ handling' = q
           /\ responses' = responses
  <2> DEFINE m == ToolMethod(q.tool)
             args == ClientArgs(q.tool, q.opts)
  <2>1. q # NoCall
    BY <1>3, NoCallRouterAssumption
  <2>2. Waiting' = Waiting
    <3>1. Waiting' = <<q>> \o Tail(inbox)
      BY <1>1, <1>5, <2>1 DEF Waiting
    <3>2. QED BY <1>1, <1>2, <1>3, <3>1, HeadTailCons
  <2>3. m \in Methods /\ args \in SUBSET OptionalArgs(m)
    <3>1. OptionsOk(q)
      BY <1>1, <1>3, EmptySeq DEF RfInv, RtInv
    <3>2. QED BY <1>5, <3>1, ToolMethodType DEF OptionsOk
  <2>4. RInv
    BY <1>1 DEF RfInv, RInv, IInv, InFlight, RtInv, RouterTypeOK
  <2>5. UNCHANGED <<token, Completed, ret>>
    BY <1>5, <2>3, <2>4, InvokeStutters
  <2>6. pending' # NoCall
    <3>1. pending' = [method |-> m, args |-> args]
      BY Zenon, <1>5 DEF Invoke
    <3>2. args \in SUBSET Flags
      BY <2>3, FlagsType
    <3>3. QED BY <2>3, <3>1, <3>2, NoCallAssumption
  <2>7. Answered' = Completed' /\ Answered = Completed
    BY <1>1, <1>5, <2>1, <2>6 DEF Answered, Completed
  <2>8. QED BY <1>1, <1>5, <2>2, <2>5, <2>7
<1>6. QED BY <1>0, <1>4, <1>5, DispatchShape


\* Complete is Answer of the handled request, which waits at the head: its
\* client request, last on the wire, joins the answered ones, and its
\* answer carries the call the client made and its outcome.
LEMMA CompleteRefines ==
    ASSUME RfInv, Complete
    PROVE  Router!Answer
<1> DEFINE h == handling
           m == ToolMethod(h.tool)
           args == ClientArgs(h.tool, h.opts)
<1>1. /\ h # NoCall /\ pending = NoCall /\ handling' = NoCall
      /\ UNCHANGED <<inbox, sent>> /\ UNCHANGED clientVars
  BY DEF Complete
<1>2. PICK text \in Format(h.tool, ret.out) :
        responses' = Append(responses,
            [rid |-> h.rid, tool |-> h.tool, text |-> text, call |-> ret])
  BY DEF Complete
<1>3. /\ h \in Queued /\ inbox \in Seq(Queued) /\ ret \in Returned \cup {NoCall}
      /\ wire \in Seq(Request) /\ Len(wire) = reqId /\ reqId \in 0..MaxCalls
  BY <1>1 DEF RfInv, RtInv, RouterTypeOK, TypeOK, WireDiscipline, RequestIdsFresh
<1>4. Waiting # <<>> /\ Head(Waiting) = h /\ Tail(Waiting) = Waiting'
  <2>1. Waiting = <<h>> \o inbox /\ Waiting' = inbox
    BY <1>1 DEF Waiting
  <2>2. QED BY <1>3, <2>1, ConsHeadTail
<1>5. /\ ~Immediate(h) /\ Len(wire) >= 1
      /\ wire[Len(wire)] = AbsRequest(Len(wire), m, args)
  BY <1>1 DEF RfInv, HandledCall
<1>6. /\ ret # NoCall /\ ret.method = m
      /\ ret.reply \in Replies /\ ret.out \in Respond(m, ret.reply)
      /\ ret = [method |-> m, reply |-> ret.reply, out |-> ret.out]
  <2>1. ret # NoCall /\ ret.method = m
    BY <1>1 DEF RfInv, RtInv
  <2>2. ret \in Returned
    BY <1>3, <2>1
  <2>3. ret.out \in Respond(ret.method, ret.reply)
    BY <2>1 DEF RfInv, HandledCall
  <2>4. QED BY <2>1, <2>2, <2>3 DEF Returned
<1>7. Answered = SubSeq(wire, 1, Len(wire) - 1) /\ Answered' = wire
  BY <1>1 DEF Answered, clientVars
<1>8. Len(Answered) = Len(wire) - 1 /\ Len(Answered) < MaxCalls
  <2>1. Len(Answered) = Len(wire) - 1
    BY <1>3, <1>5, <1>7, PrefixLen
  <2>2. QED BY <1>3, <2>1, MaxCallsAssumption
<1>9. wire = Append(Answered, AbsRequest(Len(Answered) + 1, m, args))
  <2>1. wire = Append(SubSeq(wire, 1, Len(wire) - 1), wire[Len(wire)])
    BY <1>3, <1>5, AppendLast
  <2>2. wire[Len(wire)] = AbsRequest(Len(Answered) + 1, m, args)
    BY <1>3, <1>5, <1>8
  <2>3. QED BY <1>7, <2>1, <2>2
<1>10. Answered' = Append(Answered, [id |-> Len(Answered) + 1, url |-> UrlOf(m), method |-> m,
                                     auth |-> token # "", flags |-> SentFlags(m, args)])
  BY Zenon, <1>7, <1>9 DEF AbsRequest
<1>11. \E rep \in Replies : \E out \in Respond(m, rep) : \E t \in Format(h.tool, out) :
         responses' = Append(responses,
             [rid |-> h.rid, tool |-> h.tool, text |-> t,
              call |-> [method |-> m, reply |-> rep, out |-> out]])
  BY Zenon, <1>2, <1>6
<1>12. UNCHANGED <<token, sent>>
  BY <1>1 DEF clientVars
<1>13. QED BY Zenon, <1>4, <1>5, <1>8, <1>10, <1>11, <1>12 DEF Router!Answer


\* For every bound on the host's requests and the client's calls, the
\* server implements RouterCall: split into dispatch, the blocking POST,
\* the client's reply and the handler's return (call_tool, handle_tool and
\* _rpc_call on one event loop), its behaviours are those of atomic,
\* in-order answers, each made from one call of its own tool's method,
\* with the request ids and Authorization header RpcCall logs.
THEOREM RouterRefinement == RouterSpec => RouterCallRefined
<1>1. RouterInit => RfInv
  <2> SUFFICES ASSUME RouterInit PROVE RfInv
    OBVIOUS
  <2>1. RtInv
    BY RtInvInit
  <2>2. WireDiscipline
    BY DEF RouterInit, Init, WireDiscipline, RequestIdsFresh, AuthIffToken
  <2>3. HandledCall
    BY Zenon DEF RouterInit, Init, HandledCall
  <2>4. QED BY <2>1, <2>2, <2>3 DEF RfInv
<1>2. RouterInit => Router!Init
  BY DEF RouterInit, Init, Router!Init, Waiting, Answered
<1>3. RfInv /\ [RouterNext]_allVars
        => [Router!Next]_<<token, Answered, Waiting, responses, sent>>
  <2> SUFFICES ASSUME RfInv, [RouterNext]_allVars
               PROVE  [Router!Next]_<<token, Answered, Waiting, responses, sent>>
    OBVIOUS
  <2>1. CASE \E q \in HostRequests : HostCall(q)
    BY <2>1, HostCallRefines DEF Router!Next
  <2>2. CASE Dispatch
    BY <2>2, DispatchRefines
  <2>3. CASE \E rep \in Replies : ClientReply(rep)
    BY <2>3, ClientReplyStutters
  <2>4. CASE Complete
    BY <2>4, CompleteRefines DEF Router!Next
  <2>5. CASE UNCHANGED allVars
    BY <2>5 DEF allVars, Answered, Waiting
  <2>6. QED BY <2>1, <2>2, <2>3, <2>4, <2>5 DEF RouterNext
<1>4. QED
  BY <1>1, <1>2, <1>3, RfInvInductive, PTL
     DEF RouterSpec, RouterCallRefined, Router!Spec, Router!vars


=============================================================================

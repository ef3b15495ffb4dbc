------------------------------ MODULE RouterCall -----------------------------
(***************************************************************************)
(* What the MCP server promises the host (spec 4.2 and 6): the requests   *)
(* it receives are answered one at a time, in the order they were sent,   *)
(* and each answer is one atomic step.  A request the router rejects, or  *)
(* answers from a static table, is answered with no client call; any     *)
(* other request makes exactly one call of its tool's client method,      *)
(* which is logged as RpcCall logs it, and is answered with a text        *)
(* formatted from that call's outcome.  The tool catalog, the methods and *)
(* the formatting are parameters (ToolRouter gives them for server.py).  *)
(***************************************************************************)
EXTENDS Naturals, Sequences

CONSTANTS
    MaxCalls,          \* bound on the client's calls
    MaxHostCalls,      \* bound on the requests the host sends
    NoCall,            \* no client call
    Tokens,            \* the tokens the client can hold
    Replies,           \* the ways a POST can end
    HostRequests,      \* the requests the host can send
    UrlOf(_),          \* the service a method is posted to
    SentFlags(_, _),   \* the boolean keys the params mapping carries
    Respond(_, _),     \* the outcomes a reply can end a method's call in
    ToolMethod(_),     \* the client method a tool calls
    ClientArgs(_, _),  \* the options a tool passes to its method
    Immediate(_),      \* a request answered with no client call
    ImmediateText(_),  \* the text of such an answer
    Format(_, _)       \* the texts a tool's outcome can be formatted as

VARIABLES
    token,      \* the token of the server's one client
    log,        \* the requests of the client calls made, in order
    queue,      \* the requests sent and not yet answered, in order
    responses,  \* the answers returned to the host, in order
    sent        \* number of requests the host has sent

vars == <<token, log, queue, responses, sent>>

Init ==
    /\ token \in Tokens
    /\ log = <<>>
    /\ queue = <<>>
    /\ responses = <<>>
    /\ sent = 0

\* The host sends a request.
HostCall(q) ==
    /\ sent < MaxHostCalls
    /\ sent' = sent + 1
    /\ queue' = Append(queue, [rid |-> sent + 1, tool |-> q.tool,
                               argsOk |-> q.argsOk, opts |-> q.opts])
    /\ UNCHANGED <<token, log, responses>>

\* The oldest request is answered, with no client call or with one call of
\* its method whose outcome the answer is formatted from.
Answer ==
    /\ queue # <<>>
    /\ queue' = Tail(queue)
    /\ UNCHANGED <<token, sent>>
    /\ LET q == Head(queue)
           m == ToolMethod(q.tool)
       IN  IF Immediate(q)
           THEN /\ responses' = Append(responses, [rid |-> q.rid, tool |-> q.tool,
                                                  text |-> ImmediateText(q), call |-> NoCall])
                /\ UNCHANGED log
           ELSE /\ Len(log) < MaxCalls
                /\ log' = Append(log, [id |-> Len(log) + 1, url |-> UrlOf(m), method |-> m,
                                       auth |-> token # "",
                                       flags |-> SentFlags(m, ClientArgs(q.tool, q.opts))])
                /\ \E rep \in Replies : \E out \in Respond(m, rep) :
                   \E text \in Format(q.tool, out) :
                       responses' = Append(responses,
                           [rid |-> q.rid, tool |-> q.tool, text |-> text,
                            call |-> [method |-> m, reply |-> rep, out |-> out]])

Next == (\E q \in HostRequests : HostCall(q)) \/ Answer

Spec == Init /\ [][Next]_vars

=============================================================================

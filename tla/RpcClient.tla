----------------------------- MODULE RpcClient -----------------------------
(***************************************************************************)
(* The BV-BRC JSON-RPC 1.1 client (client.py, class BVBRCClient).          *)
(*                                                                         *)
(* A call of a client method is split at the one point where the caller   *)
(* blocks: Invoke is everything up to the HTTP POST (the request counter  *)
(* is bumped and the envelope leaves the process), Reply is everything    *)
(* after it (raise_for_status, JSON parsing, the "error" check, and the   *)
(* method's own unwrapping and decoding of "result").                     *)
(*                                                                         *)
(* The data and decoders are in RpcWire.                                  *)
(***************************************************************************)
EXTENDS RpcWire

CONSTANTS
    MaxCalls,    \* bound on the request counter (it is unbounded in the code)
    NoCall       \* model value: the client is idle / nothing returned yet

ASSUME MaxCallsAssumption == MaxCalls \in Nat \ {0}

\* NoCall is not a call (a model value, distinct from every record).
ASSUME NoCallAssumption == NoCall \notin [method : Methods, args : SUBSET Flags]


VARIABLES
    token,    \* self.token, fixed at construction
    reqId,    \* self._request_id
    wire,     \* the envelopes posted so far, in order
    pending,  \* the call blocked in the POST, or NoCall
    ret       \* what the last call returned or raised, or NoCall

vars == <<token, reqId, wire, pending, ret>>
-----------------------------------------------------------------------------

\* A constructed client: the token is whatever __init__ resolved, and the
\* request counter is 0.
Init ==
    /\ token \in Tokens
    /\ reqId = 0
    /\ wire = <<>>
    /\ pending = NoCall
    /\ ret = NoCall

\* Mutant: the envelope built from the counter before it is incremented.
InvokeStaleId(m, args) ==
    /\ pending = NoCall
    /\ reqId < MaxCalls
    /\ reqId' = reqId + 1
    /\ wire' = Append(wire, [id |-> reqId, url |-> UrlOf(m), method |-> m,
                             auth |-> token # "", flags |-> SentFlags(m, args)])
    /\ pending' = [method |-> m, args |-> args]
    /\ UNCHANGED <<token, ret>>

\* A caller calls method m: _request_id += 1, the envelope is built with
\* the new id (str() of it, injective on integers) and posted with an
\* Authorization header iff the token is non-empty; the caller blocks.
Invoke(m, args) ==
    /\ pending = NoCall
    /\ reqId < MaxCalls
    /\ reqId' = reqId + 1
    /\ wire' = Append(wire, [id |-> reqId + 1, url |-> UrlOf(m), method |-> m,
                             auth |-> token # "", flags |-> SentFlags(m, args)])
    /\ pending' = [method |-> m, args |-> args]
    /\ UNCHANGED <<token, ret>>

\* The POST ends with reply rep and the method returns or raises.
Reply(rep) ==
    /\ pending # NoCall
    /\ \E out \in Respond(pending.method, rep) :
           ret' = [method |-> pending.method, reply |-> rep, out |-> out]
    /\ pending' = NoCall
    /\ UNCHANGED <<token, reqId, wire>>

Next ==
    \/ \E m \in Methods : \E args \in SUBSET OptionalArgs(m) : Invoke(m, args)
    \/ \E rep \in Replies : Reply(rep)

Spec == Init /\ [][Next]_vars

-----------------------------------------------------------------------------
(* Properties.                                                             *)

Pending == [method : Methods, args : SUBSET Flags]

TypeOK ==
    /\ token \in Tokens
    /\ reqId \in 0..MaxCalls
    /\ wire \in Seq(Request)
    /\ pending \in Pending \cup {NoCall}
    /\ ret \in Returned \cup {NoCall}

\* Request ids (the "id" of the envelope, self._request_id) start at 1, go
\* up by one per posted request of either service, failed calls included,
\* so no two requests of a client share an id.
RequestIdsFresh ==
    /\ reqId = Len(wire)
    /\ \A i \in 1..Len(wire) : wire[i].id = i

\* Every request of a client carries the Authorization header iff the
\* token it was constructed with is non-empty (the "if self.token" of
\* _rpc_call).  The token never changes, so this is part of the wire
\* invariant the refinement proofs carry rather than a property of its own.
AuthIffToken ==
    \A i \in 1..Len(wire) : wire[i].auth = (token # "")

WireDiscipline == RequestIdsFresh /\ AuthIffToken

\* The replies the remote API documents for each method: its payload
\* wrapped in a one-element list, and the absent or empty results the
\* decoders are written to accept.
Documented(m) ==
    CASE m \in {"AppService.enumerate_apps", "AppService.enumerate_tasks",
                "Workspace.get", "Workspace.copy", "Workspace.move"}
                -> {Bare("null"), Bare("elist"), Wrap("elist"), Wrap("recs")}
      [] m = "AppService.query_app_description" -> {Bare("null"), Bare("elist"), Wrap("rec")}
      [] m \in {"AppService.start_app"}          -> {Wrap("rec")}
      [] m \in {"AppService.query_tasks", "Workspace.ls", "Workspace.get_download_url"}
                -> {Bare("null"), Bare("elist"), Wrap("edict"), Wrap("map")}
      [] m = "AppService.kill_task"             -> {Bare("null"), Bare("elist"), Wrap("zero"), Wrap("one")}
      [] m = "AppService.query_app_log"         -> {Bare("null"), Bare("str"), Wrap("str")}
      [] m = "Workspace.create"                 -> {Wrap("recs")}
      [] OTHER                                  -> Results

\* Error taxonomy of the client (spec 4.1 and 7): a call raises only when
\* the transport failed, the server sent an error or a malformed body, or
\* its result is not one the remote API documents for the method; and every
\* transport or RPC failure does reach the caller as an exception (no
\* decoder of client.py swallows one).
RaisesOnlyOnBadReply ==
    ret # NoCall =>
        /\ ~ret.out.ok => \/ ret.reply.kind \in Failures
                          \/ ret.reply.result \notin Documented(ret.method)
        /\ ret.reply.kind \in Failures => ~ret.out.ok

\* Spec 4.1: absent or empty results, including a null payload, yield empty
\* collections and never errors for the listing and query methods
\* (enumerate_apps: "a list, or null -> empty list").
EmptyResultNeverRaises ==
    (/\ ret # NoCall
     /\ ret.method \in {"AppService.enumerate_apps", "AppService.enumerate_tasks",
                        "AppService.query_tasks", "AppService.start_app",
                        "Workspace.ls", "Workspace.get", "Workspace.copy",
                        "Workspace.move", "Workspace.get_download_url"}
     /\ ret.reply.kind = "result"
     /\ ret.reply.result \in {Bare("null"), Bare("elist"), Wrap("null")})
    => ret.out.ok

\* Spec 4.1 and 8: kill_task returns True iff the unwrapped result strictly
\* equals 1, and False for any other value without raising.
KillTaskStrictSentinel ==
    (/\ ret # NoCall
     /\ ret.method = "AppService.kill_task"
     /\ ret.reply.kind = "result")
    => ret.out = Ok(IF ret.reply.result = Wrap("one") THEN "true" ELSE "false")


-----------------------------------------------------------------------------
(* Refinement: the client implements the atomic calls of RpcCall.  The     *)
(* abstract log is the wire without the request still in flight, so an    *)
(* Invoke is a stutter and the Reply that ends a call is its atomic Call. *)

Completed == IF pending = NoCall THEN wire ELSE SubSeq(wire, 1, Len(wire) - 1)

Abs == INSTANCE RpcCall WITH log <- Completed

\* Every behaviour of the client, split at the blocking POST, is one of
\* atomic calls: each reply is decoded by the method of the request it
\* answers, and that request's id is its position among the calls.
RpcCallRefined == Abs!Spec

=============================================================================

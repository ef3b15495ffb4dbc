------------------------------- MODULE RpcCall -------------------------------
(***************************************************************************)
(* What a BV-BRC client call promises its caller (spec 4.1), with no      *)
(* blocking POST in between: a call of method m is one atomic step that   *)
(* records the request it sent and ends in one of the outcomes the reply  *)
(* and m's decoder allow.  A request's id is its position among the       *)
(* requests of the client (starting at 1, never reused), and it carries   *)
(* the Authorization header iff the client has a token.  The wire data   *)
(* and the decoders are parameters (RpcWire gives them for BVBRCClient). *)
(***************************************************************************)
EXTENDS Naturals, Sequences

CONSTANTS
    MaxCalls,         \* bound on the number of calls
    NoCall,           \* nothing returned yet
    Methods,          \* the RPC methods of the two services
    Replies,          \* the ways the POST can end
    Tokens,           \* the tokens a client can hold
    OptionalArgs(_),  \* the boolean options a caller can set on a method
    UrlOf(_),         \* the service a method is posted to
    SentFlags(_, _),  \* the boolean keys the params mapping carries
    Respond(_, _)     \* the outcomes a reply can end a method's call in

VARIABLES
    token,   \* the token the client holds
    log,     \* the requests of the calls that have ended, in order
    ret      \* how the last call ended, or NoCall

vars == <<token, log, ret>>

Init ==
    /\ token \in Tokens
    /\ log = <<>>
    /\ ret = NoCall

\* A call of m with the boolean options args; the POST ends in some reply
\* rep of the network's choosing.
Call(m, args) ==
    /\ Len(log) < MaxCalls
    /\ log' = Append(log, [id |-> Len(log) + 1, url |-> UrlOf(m), method |-> m,
                           auth |-> token # "", flags |-> SentFlags(m, args)])
    /\ \E rep \in Replies : \E out \in Respond(m, rep) :
           ret' = [method |-> m, reply |-> rep, out |-> out]
    /\ UNCHANGED token

Next == \E m \in Methods : \E args \in SUBSET OptionalArgs(m) : Call(m, args)

Spec == Init /\ [][Next]_vars

=============================================================================

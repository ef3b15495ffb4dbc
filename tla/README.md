# Formal models of the BV-BRC MCP server

This directory holds TLA+ models of the Python BV-BRC MCP server in
`src/mcp-servers/python/src/bvbrc_mcp/`. It has TLC configurations that check
the models on small instances and TLAPS proofs that hold for every value of
the constants. `PROJECT.json` maps every modelled definition to the source
lines it translates. It also lists the runs, the mutants that show each
property can fail, the findings and the hazards.

## 1. The system

There are two source files.

- **`client.py`, the RPC client (`BVBRCClient`).** Its state is:
  - the two base URLs;
  - the token, resolved once in `__init__` by `_load_token`;
  - the request counter `_request_id`.

  `_rpc_call` does the following:
  1. increments the counter;
  2. builds a JSON-RPC 1.1 envelope whose id is the new counter value;
  3. adds `Authorization: <token>` only when the token is non-empty;
  4. makes one blocking `httpx` POST with a 30 s timeout;
  5. calls `raise_for_status()`, then `response.json()`;
  6. raises if `error` is non-empty;
  7. otherwise returns `result`.

  Fourteen wrapper methods unwrap `result` (usually `[payload]`) and decode it
  into `Task`, `AppDescription` or `WorkspaceObject`, the last through
  `_parse_workspace_object`. The unwrapping is done with Python idioms
  (`result[0] if result else []`, `.items()`, `.get`, `== 1`). Which inputs
  they accept is the real logic of the client.
- **`server.py`, the tool router.** The module creates one client at import
  time.
  - `call_tool` awaits `handle_tool` and turns any exception into the text
    `Error: ...`.
  - `handle_tool` matches on the tool name (16 tools), calls one client
    method, and formats the result as JSON or as a fixed sentence.
  - The handlers call the synchronous client without awaiting anything. While
    a POST is in flight the asyncio loop is blocked, so tool calls are
    handled one at a time, in the order they arrive. This is why the counter's
    read-modify-write is safe.
  - `read_resource` serves two resources on the same event loop and through
    the same client: `bvbrc://apps` calls `enumerate_apps`, and
    `bvbrc://workspace-types` returns a static table. Any other URI raises.
  - The catalog and `main` are thin.

The two parts interact like this: host → `call_tool` → `handle_tool` → client
method → `_rpc_call` → server reply → decoder → formatting → text to the host.

## 2. Modules

| Module | Models | State | Actions |
|---|---|---|---|
| `RpcWire` | The data of a call: methods, URLs, replies, outcomes, the Python semantics the decoders use (`Truthy`, `At0Error`, `Iterable`, `Elements`, `IsDict`), and the 14 decoders (`client.py` 87-273, 277-304) | constants only | |
| `RpcClient` (extends `RpcWire`) | `_rpc_call` split at the blocking POST (`client.py` 58-68, 283-304) | `token`, `reqId` (`_request_id`), `wire` (posted envelopes), `pending` (call in flight), `ret` (how the last call ended) | `Invoke(m, args)`: the counter, the envelope, the header and the POST. `Reply(rep)`: how the POST ends, and the method's decoder. |
| `RpcCall` | The abstract client: each call is one atomic step | `token`, `log` (completed requests), `ret` | `Call(m, args)` (the reply is chosen inside) |
| `RouterCall` | The abstract router: each host request is answered in one atomic step, in arrival order | `token`, `log` (client requests of answered calls), `queue`, `responses`, `sent` | `HostCall(q)`, `Answer` |
| `ToolRouter` (extends `RpcClient`) | `call_tool`, `handle_tool`, `read_resource` (`server.py` 18-363) | `inbox` (host requests not yet handled), `handling`, `responses`, `sent`, plus the client's variables | `HostCall(q)`, `Dispatch` (using `Serve(q)`), `ClientReply(rep)`, `Complete` |
| `TokenLoad` | `_load_token`, `__init__` (`client.py` 58-66, 307-324) | `env`, `files`, `token` | `Construct` |
| `WorkspaceTuple` | `_parse_workspace_object`, offset by offset (`client.py` 327-340) | `tup` (the tuple received), `out` (the outcome) | `Decode` |
| `RpcClientProofs`, `RpcErrorProofs`, `TokenLoadProofs`, `WorkspaceTupleProofs`, `ToolRouterProofs` | TLAPS proofs | | |
| `MCRpcClient`, `MCToolRouter` | TLC instances | | |

### How the data is abstracted

A JSON result is represented by its shape, which is all the decoders look at:
`null`, `0`, `1`, `true`, a string, `[]`, `{}`, a record, a list of records or
a mapping. A shape is either bare (`Bare(x)`) or wrapped in a one-element list
(`Wrap(x)`).

A decoder maps a result to the *set* of outcomes the call can end in. An
outcome is `Ok(shape)` or `Raise(exception)`. A set is needed because, for
example, a string element may or may not parse as an integer.

The decoders are IF/ELSE chains in the order of the code's `if`s. A TLA+
`CASE` whose guards overlap denotes an *arbitrary* true arm, not the first
one, so it is used only where the guards are disjoint.

The ways a POST can end are modelled as `Replies`: transport error, HTTP
status, non-JSON body, non-object body, RPC error, or a result.

A host request is a tool name or a resource URI, whether the arguments the
handler indexes are present, and its boolean options. An unknown tool name
and an unknown URI are included, because the router does not re-validate
its input. `Format(t, out)` is `handle_tool`'s formatting of the client
outcome: JSON, `Deleted`, `Permissions set`, `Cancelled`/`Failed to cancel`,
`Task … not found`, or `error` for any exception. An exception of
`read_resource` reaches the host as an MCP error reply, which is also written
`error`.

In `WorkspaceTuple`, a tuple is a sequence of abstract JSON values: `None`,
`0`, a positive integer, a numeric string, another string, `""`, and a
non-empty or empty dict. Each offset carries the values the protocol puts
there (strings, metadata dicts or `None`, the size). The size field can also
carry the malformed values that `int()` rejects.

### Refinement: `RpcClient` implements `RpcCall`

`RpcCall` is what a caller of the client may assume: each call atomically
appends a request with the next id and the current token's header, and
returns or raises with an outcome of its method's decoder.

`RpcClient` splits the call in two steps. Between them, the request is on the
wire but no outcome is recorded yet. The refinement mapping hides that
request:

- `Completed == IF pending = NoCall THEN wire ELSE SubSeq(wire, 1, Len(wire) - 1)`
- `Abs == INSTANCE RpcCall WITH log <- Completed`

Under this mapping, `Invoke` is a stutter, and the `Reply` that ends a call is
`Abs!Call(pending.method, pending.args)`. `RpcCall` takes `Methods`,
`Replies`, `UrlOf`, `SentFlags`, `Respond` and the other parameters as
constants. The instance therefore reuses the client's own operators.

### Refinement: `ToolRouter` implements `RouterCall`

`RouterCall` is what the host may assume of the server. Requests are answered
one at a time, oldest first, each in one step. A request the router rejects
(`Rejected`: unknown tool or URI, missing argument) or answers from the static
workspace-types table (`Immediate`) is answered with no client call. Any other
request makes one call of `ToolMethod(tool)`. That call is logged as
`RpcCall` logs it (next id, header iff token), and the answer is formatted
from the call's outcome.

`ToolRouter` splits an answer into `Dispatch`, the POST, `ClientReply` and
`Complete`. The mapping keeps the handled request at the head of the queue,
and keeps its request, already on the wire, out of the log until the answer
is returned:

- `Waiting == IF handling = NoCall THEN inbox ELSE <<handling>> \o inbox`
- `Answered == IF handling = NoCall THEN wire ELSE SubSeq(wire, 1, Len(wire) - 1)`
- `Router == INSTANCE RouterCall WITH log <- Answered, queue <- Waiting`

`Dispatch` of a calling request and `ClientReply` are stutters. `Complete`,
and `Dispatch` of an immediate request, are `Answer`.

## 3. Runs

| Run | Config | Checks | Result |
|---|---|---|---|
| `rpc_client` | `MCRpcClient.cfg`, MaxCalls = 2 | `TypeOK`, `RequestIdsFresh`, `RaisesOnlyOnBadReply` | passes, 37,792 states |
| `empty_result` | `MCRpcClient_EmptyResultNeverRaises.cfg` | `EmptyResultNeverRaises` | violated: `enumerate_apps` raises on `[null]` |
| `kill_sentinel` | `MCRpcClient_KillTaskStrictSentinel.cfg` | `KillTaskStrictSentinel` | violated: `kill_task` raises on a bare truthy result, and returns True for `[true]` |
| `tool_router` | `MCToolRouter.cfg`, 2 host requests, 2 client calls, all 24 replies | `RouterTypeOK`, `ResponsesInOrder`, `NoErrorOnDocumentedReply`, `JobLogsNotFoundIsNotAnError` | passes, about 1.26 M states, under 1 min |
| `tool_router_liveness` | `MCToolRouterLive.cfg`, 2 host requests, 2 client calls, `Replies <- MCLiveReplies` (one POST failure, and null, `[1]`, `[[tuple]]`, `[map]`, `[{}]`) | `EveryCallAnswered` | passes in under 30 s; the full reply set makes the liveness check take over 3 min, and the six replies still make every handler both raise and return, and job_logs meet a task and no task |
| `tool_router_refinement` | `MCToolRouterRefine.cfg`, 2 host requests, 2 client calls, `Replies <- MCLiveReplies` | `RouterCallRefined` | passes, 115,386 states, in about 13 s; with 3 host requests the check takes over 7 min |
| `workspace_tuple` | `WorkspaceTuple.cfg` | `TupleTypeOK`, `DecodesPerSpec`, `FailsExactlyOnMalformedSize` | passes, 2,086 states (every tuple of length 0..12) |
| `token_load` | `TokenLoad.cfg` | `TokenTypeOK`, `TokenPerSpec` | passes, 10,800 states (every combination of sources) |

### Why these bounds are enough

- **Two calls.** Every method meets every reply shape in every state: the
  reply and the method are chosen freely on each step, and a client keeps no
  state between calls except the counter. Two calls are enough to see an id
  reused.
- **Two host requests.** These exercise queueing behind an in-flight call,
  answering a rejected call after an accepted one, and a tool call after a
  resource read on the shared client. Every tool meets every reply, so each
  documented empty result reaches each handler's formatting.
- **The token.** It is either `""` or a token, the only distinction
  `_rpc_call` makes.
- **`TokenLoad`** enumerates every combination of the five sources.
- **`WorkspaceTuple`** enumerates every length from 0 to 12. That covers
  every `len(tuple_data) > k` test of the code, one past the last offset
  read. Every field the decoder tests takes every value kind. The proofs
  remove the length bound.

`CHECK_DEADLOCK FALSE` is set because the bounded runs stop by design once the
call budget is spent, and a tuple is decoded once.

### Fairness (`RouterFairness`)

Weak fairness is assumed on three actions:

- `Dispatch`: the event loop runs the next queued handler once the previous
  one returned.
- `ClientReply`: every POST ends in a response or an exception. This is an
  assumption, not a consequence of the code. httpx's 30 s timeout applies to
  each phase (connect, write, each read), not to the whole exchange, so a
  server that keeps sending a byte at a time can hold the call, and the event
  loop with it, for ever. `EveryCallAnswered` holds for servers that answer
  or stall outright.
- `Complete`: `call_tool` returns as soon as `handle_tool` does.

No fairness is assumed for `HostCall`, because the host need not send
anything.

## 4. Properties and what they show

### Safety and liveness

- **`RequestIdsFresh`**: request ids are 1..n in posting order, failed calls
  included.
- **`RaisesOnlyOnBadReply`**: the error taxonomy of spec §4.1 and §7. A call
  raises only on a transport or RPC failure, a malformed body, or a result the
  API does not document for that method (`Documented(m)`), and every failure
  does raise.
- **`ResponsesInOrder`**: the host gets exactly one answer per request, in
  order. Rejected calls (unknown tool or URI, missing argument) are answered
  in turn.
- **`NoErrorOnDocumentedReply`**: spec §4.1 and §4.2 end to end. A reply
  the API documents for the method a tool calls, empty results included,
  never reaches the host as an error. It needs the decoder to accept the
  reply and the handler to format its return as a normal text:
  `download_url` looks the path up with `.get`, `job_cancel` reports `False`
  as "Failed to cancel", `job_logs` reports an unknown id as "not found".
  A handler that indexed the download mapping breaks it.
- **`JobLogsNotFoundIsNotAnError`**: `job_logs` of an unknown task gives the
  "not found" sentence.
- **`RouterCallRefined`**: the router implements `RouterCall`. No request is
  served while another one's handler has not returned. Each answer is made
  from the one client call of its own request. The log of calls is that of
  the answered requests, in order.
- **`EveryCallAnswered`** (liveness): every request sent is eventually
  answered.
- **`TokenPerSpec`**: the token is the one spec §6's order gives.
  `SpecToken` is written from the spec: `BVBRC_TOKEN`, then `P3_AUTH_TOKEN`,
  then the first existing dotfile, the first non-empty source winning,
  stripped. `LoadToken` is written from the code. The two agree on every
  combination. An empty first existing dotfile ends the search with `""`.
  A whitespace-only variable is non-empty, so it wins and strips to `""`.
  A dotfile that exists but fails to read (it vanished after `exists()`)
  hands over to the next one; the runs include it as the state
  `"unreadable"`.
- **`DecodesPerSpec`**: a well-typed tuple of any length decodes to the §3
  reference object. Each offset goes to its field, and each missing offset to
  its default.
- **`FailsExactlyOnMalformedSize`**: decoding a tuple never indexes past its
  end. It fails (ValueError or TypeError) exactly when the size is present,
  truthy and not numeric. This failure fails the whole listing.

### Mutants

Each property has a mutant in `PROJECT.json`: a plausible bug that TLC
catches. Examples:

- an envelope built from the counter before the increment;
- `query_tasks` without its `if not result` guard;
- `download_url` indexing the mapping instead of `.get`;
- the event loop serving the next request before the previous handler has
  returned;
- `shock_ref` read from the reserved offset 10;
- `int()` taking any string as numeric;
- a dotfile whose content strips to `""` passed over.

### Findings

The two violation runs are divergences between the code and the spec. The
details are in `PROJECT.json`.

- **Null results.** The listing and query decoders raise on a `[null]`
  result, and `start_app` on any empty one. Spec §4.1 says these are empty
  collections and never errors.
- **`kill_task`.** It is not a strict, non-raising `== 1`. It raises on a
  bare truthy non-list result and accepts `True`.

## 5. Proofs (checked by `tlapm`)

Every theorem holds for every value of the constants. The only assumption is
`MaxCallsAssumption` (`MaxCalls \in Nat \ {0}`), plus `NoCallAssumption` (the
sentinel `NoCall` is not a call). The router proofs also use
`MaxHostCallsAssumption` and `NoCallRouterAssumption` (`NoCall` is neither a
queued request nor a returned call).

- **`RpcClientProofs`**
  - `TypeCorrect`: `Spec => []TypeOK`. Each decoder has a lemma that its
    outcomes are in `Outcomes`, `RespondType` combines them, and
    `TypeOKInductive` proves the step with one case per action.
  - `WireDisciplineHolds`, `RequestIdsFreshHolds`: the wire discipline (ids
    1..n in order, the header iff the token). `WireDiscipline` is not inductive alone, because the
    `Append` step needs `wire \in Seq(Request)` and `reqId \in Nat`. The
    inductive invariant is `IInv == TypeOK /\ WireDiscipline`.
  - `Refinement`: `Spec => RpcCallRefined`. It is kept for its lemmas, which
    `RouterRefinement` reuses. It is not listed as a result: the client
    blocks on its one call, so the refinement follows from the shape of
    `Reply` and says little the wire invariant does not. The inductive invariant is
    `RInv == IInv /\ InFlight`. `InFlight` says that while a call is pending,
    the last request on the wire is exactly the request `RpcCall` would log
    for it (`AbsRequest`). This is needed so that the `Reply` step can show
    `Append(Completed, …) = wire'`. `AppendLast` and `SubSeqAppend` are the
    sequence lemmas behind this. `InvokeStutters` and `ReplyIsCall` map the
    two actions.
- **`RpcErrorProofs`**: `ErrorTaxonomy`, `Spec => []RaisesOnlyOnBadReply`.
  - One lemma per decoder shows that it returns normally on each result
    documented for its method (`EnumerateDocumented` … `NothingDocumented`).
  - `DecodeDocumented` combines them per method, and `RespondErrors` adds the
    transport and RPC failures.
  - The invariant is inductive together with `TypeOK`: only `Reply` changes
    `ret`.
- **`WorkspaceTupleProofs`**: `DecoderCorrect`, `Spec => [](TupleTypeOK /\
  DecodesPerSpec /\ FailsExactlyOnMalformedSize)`.
  - The lemmas `ParseType`, `ParsePerSpec` and `ParseFails` hold for every
    sequence of JSON values of any length, not only the 12 offsets the run
    enumerates.
  - The inductive invariant says that the outcome, once set, is
    `ParseWorkspaceObject(tup)`.
- **`TokenLoadProofs`**: `TokenLoadCorrect`, `Spec => [](TokenTypeOK /\
  TokenPerSpec)`.
  - `LoadTokenType`: `_load_token` returns a source's token or `""`.
  - `LoadTokenSpec`: `LoadToken(e, f) = SpecToken(e, f)` for every content
    of the sources. It is split into four cases: a truthy first variable, a
    truthy second one, a readable dotfile, and none. `FirstReadable` shows
    that the file the code's loop returns from is the first readable one,
    and `LeastOfThree` and `FirstIsOne` pin down the minimum of a subset of
    1..3.
- **`ToolRouterProofs`**: `RouterSafety`, `RouterSpec => [](RouterTypeOK /\
  ResponsesInOrder /\ NoErrorOnDocumentedReply /\
  JobLogsNotFoundIsNotAnError)`.
  - The properties are not inductive alone. `Dispatch` needs to know the id of
    the request it dequeues, and `Complete` needs to know that the result left
    in the client is that of the handled request's method. The inductive
    invariant `RtInv` adds five facts:
    - every queued request has the id that follows the answered and handled
      ones;
    - no client call is in flight unless a handler waits for it;
    - the call in flight, or the result it left, is of the method
      `ToolMethod(handling.tool)`;
    - the result the client left is an outcome of its method for its
      reply (`Respond`);
    - the client's error taxonomy `RaisesOnlyOnBadReply`. With the previous
      fact this is what `NoErrorOnDocumentedReply` and
      `JobLogsNotFoundIsNotAnError` rest on. A documented reply does not
      raise. `FormatOkNoError` shows that every normal return is formatted
      as a text other than "error", except a `download_url` result that is
      not a mapping. `DownloadDocumented` shows that `get_download_url`
      decodes every documented result to a mapping. `JobLogsFormat` shows
      that `job_logs` formats a normal return as the hint or "not found".
  - `ClientStep` shows that every router step is a client step or a client
    stutter, so `TypeOK` carries over from `TypeOKInductive`.
  - `DispatchShape` splits `Serve` into "answered at once" and "calls the
    client".
  - `HostCallPreserves`, `DispatchPreserves`, `ClientReplyPreserves` and
    `CompletePreserves` give one lemma per action.
  - `FormatType` says that the formatted text is one of the texts.
- **`ToolRouterProofs`**: `RouterRefinement`, `RouterSpec =>
  RouterCallRefined`.
  - The inductive invariant is `RfInv == RtInv /\ WireDiscipline /\
    HandledCall`. `HandledCall` is needed because `Complete` is mapped to
    `Answer`. It says two things. While a handler waits, its request does
    call the client, and the last request on the wire is the one `Answer`
    would log for it. The result the client left is an outcome of its
    method for the reply it got.
  - `DispatchRefines`, `ClientReplyStutters`, `CompleteRefines` and
    `HostCallRefines` map the four actions.
  - `ConsHeadTail`, `HeadTailCons`, `ConsAppend` and `PrefixLen` are the
    sequence lemmas about `Waiting` and `Answered`.
  - `DispatchRefines` reuses `RpcClientProofs`' `InvokeStutters`.

### Only model-checked

- Liveness (`EveryCallAnswered`), because TLAPS does not handle fairness and
  ENABLED here.
- The violation runs, which are counterexamples, not theorems.

## 6. Not modelled

- `username` and `is_authenticated`: string parsing for the startup banner.
  No state changes.
- `_to_json`, `main`, `run_server`, and the contents of the static tables
  (`TOOLS` descriptions and schemas, the 14 workspace types): pure I/O and
  static data.
- The `job_list` clamp `min(limit, 100)` at `server.py:290`. It is what spec
  §5 states as the policy (limits ≤ 100 pass unchanged), and nothing else in
  the system reads the limit. A property would only restate that one
  expression. The hazard is listed, and the fact that a non-positive limit
  passes through is recorded there.
- The remote server's state. A timeout after the server acted (`start_app`,
  `create`) is seen only as an error reported to the host.

## 7. Plan for later work

1. Composing `TokenLoad` into `RpcClient`'s `Init`, so the token the router
   uses is the one `_load_token` resolves.
2. One abstract specification for the whole server, in which `RouterCall`'s
   `Answer` is itself an `RpcCall` call.

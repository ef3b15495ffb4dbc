------------------------------ MODULE RpcWire ------------------------------
(***************************************************************************)
(* The data of the BV-BRC JSON-RPC 1.1 client (client.py, BVBRCClient):   *)
(* methods, replies, outcomes, and the Python semantics of the decoders,  *)
(* shared by the detailed client (RpcClient) and the abstract call        *)
(* specification (RpcCall).  Constant-level only.                         *)
(*                                                                         *)
(* JSON data is abstracted to the shapes the decoders tell apart:         *)
(*   "null" "zero" "one" "true" "str"  scalars (None, 0, 1, True, "x")    *)
(*   "elist" "edict"                  [] and {}                           *)
(*   "rec"   a well-formed record (an app/task dict or an object tuple)   *)
(*   "recs"  a non-empty list of "rec"                                    *)
(*   "map"   a non-empty dict whose values are well formed for the method *)
(* A "result" is such a shape, bare or wrapped in a one-element list      *)
(* (Wrap(x)); the remote API wraps every payload, e.g. Wrap("recs").      *)
(***************************************************************************)
EXTENDS Naturals, Sequences

AppMethods == {"AppService.enumerate_apps", "AppService.query_app_description",
               "AppService.start_app", "AppService.query_tasks",
               "AppService.enumerate_tasks", "AppService.kill_task",
               "AppService.query_app_log"}
WsMethods  == {"Workspace.ls", "Workspace.get", "Workspace.create",
               "Workspace.delete", "Workspace.copy", "Workspace.move",
               "Workspace.set_permissions", "Workspace.get_download_url"}
Methods == AppMethods \cup WsMethods

\* The two base URLs of __init__ (lines 64-65).
Urls == {"app_service_url", "workspace_url"}

\* Tokens after construction: absent ("") or some token string.
Tokens == {"", "tok"}

\* Boolean options that are sent only when true ("omit when false").
Flags == {"recursive", "metadata_only", "overwrite", "force", "deleteDirectories"}

Inner   == {"null", "zero", "one", "true", "str", "elist", "edict", "rec", "recs", "map"}
Wrap(x)  == [wrapped |-> TRUE, v |-> x]
Bare(x)  == [wrapped |-> FALSE, v |-> x]
Results == {Bare(x) : x \in Inner \ {"rec"}} \cup {Wrap(x) : x \in Inner}

\* What the POST can end in: a transport failure (connection error or the
\* 30 s timeout of httpx), a non-2xx status, a body that is not JSON, a
\* JSON body that is not an object, an object with a non-empty "error",
\* or an object whose "result" (absent = "null") is handed to the decoder.
Failures == {"transport_error", "http_status", "not_json", "not_object", "rpc_error"}
Replies  == [kind : Failures, result : {Bare("null")}] \cup [kind : {"result"}, result : Results]

Errors == {"TransportError", "HTTPStatusError", "JSONDecodeError", "RpcError",
           "TypeError", "IndexError", "KeyError", "AttributeError", "ValueError"}
Values == {"none", "true", "false", "record", "list", "empty_list", "map",
           "empty_map", "text", "empty_text", "other"}
Ok(v)    == [ok |-> TRUE,  val |-> v,      err |-> "none"]
Raise(e) == [ok |-> FALSE, val |-> "none", err |-> e]
Outcomes == {Ok(v) : v \in Values} \cup {Raise(e) : e \in Errors}

Request  == [id : Nat, url : Urls, method : Methods, auth : BOOLEAN, flags : SUBSET Flags]
Returned == [method : Methods, reply : Replies, out : Outcomes]


-----------------------------------------------------------------------------
(* Python semantics of the operations the decoders apply to JSON data.    *)

\* bool(x) of a shape, and of a result.
Truthy(x) == x \notin {"null", "zero", "elist", "edict"}
TruthyResult(r) == r.wrapped \/ Truthy(r.v)

\* The exception raised by x[0], or "none".
At0Error(x) ==
    CASE x \in {"recs", "str"}         -> "none"
      [] x = "elist"                   -> "IndexError"
      [] x \in {"edict", "map", "rec"} -> "KeyError"
      [] OTHER                         -> "TypeError"

\* x[0] when At0Error(x) = "none".
At0(x) == IF x = "recs" THEN "rec" ELSE "str"

\* result[0], and the exception it raises, of a result.
ResultAt0Error(r) == IF r.wrapped THEN "none" ELSE At0Error(r.v)
ResultAt0(r)      == IF r.wrapped THEN r.v ELSE At0(r.v)

\* The elements "for e in x" visits: a dict yields its keys and a string
\* its characters; "iterable" is FALSE where iter(x) raises TypeError.
Iterable(x) == x \in {"elist", "edict", "rec", "recs", "map", "str"}
Elements(x) == CASE x = "recs"               -> {"rec"}
                 [] x \in {"elist", "edict"} -> {}
                 [] OTHER                    -> {"str"}

\* x has .get / .items (is a dict).
IsDict(x) == x \in {"rec", "edict", "map"}

-----------------------------------------------------------------------------
(* The decoders: the outcomes a method can end in given the "result".     *)

\* Outcomes of _parse_workspace_object(t): len() of a scalar raises
\* TypeError, indexing a non-empty dict KeyError, int() of a non-numeric
\* string field ValueError and of a list field TypeError.
ParseWorkspaceObject(t) ==
    CASE t \in {"rec", "elist", "edict"} -> {"ok"}
      [] t = "str"                       -> {"ok", "ValueError"}
      [] t = "recs"                      -> {"ok", "TypeError"}
      [] t = "map"                       -> {"KeyError"}
      [] OTHER                           -> {"TypeError"}

\* [_parse_workspace_object(t) for t in x], x iterable.
ParseAll(x) ==
    LET outs == UNION {ParseWorkspaceObject(t) : t \in Elements(x)}
    IN  {Raise(e) : e \in outs \ {"ok"}}
        \cup (IF \A t \in Elements(x) : "ok" \in ParseWorkspaceObject(t)
              THEN {Ok(IF Elements(x) = {} THEN "empty_list" ELSE "list")}
              ELSE {})

\* [Record(a.get(...)) for a in x]: iteration, then .get on every element.
MapRecords(x) ==
    IF ~Iterable(x) THEN {Raise("TypeError")}
    ELSE IF \E a \in Elements(x) : ~IsDict(a) THEN {Raise("AttributeError")}
    ELSE IF Elements(x) = {} THEN {Ok("empty_list")}
    ELSE {Ok("list")}

\* enumerate_apps, enumerate_tasks: apps = result[0] if result else [].
DecodeEnumerate(r) ==
    IF ~TruthyResult(r) THEN {Ok("empty_list")}
    ELSE IF ResultAt0Error(r) # "none" THEN {Raise(ResultAt0Error(r))}
    ELSE MapRecords(ResultAt0(r))

\* query_app_description: None on a falsy result, else result[0].get(...).
DecodeQueryAppDescription(r) ==
    IF ~TruthyResult(r) THEN {Ok("none")}
    ELSE IF ResultAt0Error(r) # "none" THEN {Raise(ResultAt0Error(r))}
    ELSE IF IsDict(ResultAt0(r)) THEN {Ok("record")}
    ELSE {Raise("AttributeError")}

\* start_app: t = result[0] with no guard, then t.get(...).
DecodeStartApp(r) ==
    IF ResultAt0Error(r) # "none" THEN {Raise(ResultAt0Error(r))}
    ELSE IF IsDict(ResultAt0(r)) THEN {Ok("record")}
    ELSE {Raise("AttributeError")}

\* Mutant: query_tasks without its "if not result: return {}" guard.
DecodeQueryTasksUnguarded(r) ==
    IF ResultAt0Error(r) # "none" THEN {Raise(ResultAt0Error(r))}
    ELSE IF ResultAt0(r) = "edict" THEN {Ok("empty_map")}
    ELSE IF ResultAt0(r) = "map" THEN {Ok("map")}
    ELSE {Raise("AttributeError")}

\* query_tasks: {} on a falsy result, else a Task per value of result[0].items().
DecodeQueryTasks(r) ==
    IF ~TruthyResult(r) THEN {Ok("empty_map")}
    ELSE IF ResultAt0Error(r) # "none" THEN {Raise(ResultAt0Error(r))}
    ELSE IF ResultAt0(r) = "edict" THEN {Ok("empty_map")}
    ELSE IF ResultAt0(r) = "map" THEN {Ok("map")}
    ELSE {Raise("AttributeError")}  \* .items() of a non-dict, or t.get on a record's field

\* workspace_ls: {} on a falsy result, else parse every tuple of every path.
DecodeLs(r) ==
    IF ~TruthyResult(r) THEN {Ok("empty_map")}
    ELSE IF ResultAt0Error(r) # "none" THEN {Raise(ResultAt0Error(r))}
    ELSE IF ~IsDict(ResultAt0(r)) THEN {Raise("AttributeError")}
    ELSE IF ResultAt0(r) = "edict" THEN {Ok("empty_map")}
    ELSE IF ResultAt0(r) = "map" THEN {Ok("map")}
    ELSE {Ok("map"), Raise("TypeError")}  \* a record's fields iterated as tuples

\* kill_task: result[0] == 1 if result else False (True == 1 in Python).
DecodeKillTask(r) ==
    IF ~TruthyResult(r) THEN {Ok("false")}
    ELSE IF ResultAt0Error(r) # "none" THEN {Raise(ResultAt0Error(r))}
    ELSE {Ok(IF ResultAt0(r) \in {"one", "true"} THEN "true" ELSE "false")}

\* query_app_log: a str as is, str(result[0]) of a non-empty list, else "".
DecodeQueryAppLog(r) ==
    IF r = Bare("str") \/ r.wrapped \/ r = Bare("recs") THEN {Ok("text")} ELSE {Ok("empty_text")}

\* workspace_get, workspace_copy, workspace_move:
\* [] if not result or not result[0], else parse every element.
DecodeObjects(r) ==
    IF ~TruthyResult(r) THEN {Ok("empty_list")}
    ELSE IF ResultAt0Error(r) # "none" THEN {Raise(ResultAt0Error(r))}
    ELSE IF ~Truthy(ResultAt0(r)) THEN {Ok("empty_list")}
    ELSE IF ~Iterable(ResultAt0(r)) THEN {Raise("TypeError")}
    ELSE ParseAll(ResultAt0(r))

\* Mutant: workspace_create passing the parser's verdict on as an exception.
DecodeCreateRaising(r) ==
    IF ResultAt0Error(r) # "none" THEN {Raise(ResultAt0Error(r))}
    ELSE IF At0Error(ResultAt0(r)) # "none" THEN {Raise(At0Error(ResultAt0(r)))}
    ELSE {Raise(o) : o \in ParseWorkspaceObject(At0(ResultAt0(r)))}

\* workspace_create: _parse_workspace_object(result[0][0]).
DecodeCreate(r) ==
    IF ResultAt0Error(r) # "none" THEN {Raise(ResultAt0Error(r))}
    ELSE IF At0Error(ResultAt0(r)) # "none" THEN {Raise(At0Error(ResultAt0(r)))}
    ELSE {IF o = "ok" THEN Ok("record") ELSE Raise(o)
            : o \in ParseWorkspaceObject(At0(ResultAt0(r)))}

\* workspace_delete, workspace_set_permissions: the result is ignored.
DecodeNothing(r) == {Ok("none")}

\* workspace_get_download_url: result[0] if result else {}.
DecodeDownloadUrl(r) ==
    IF ~TruthyResult(r) THEN {Ok("empty_map")}
    ELSE IF ResultAt0Error(r) # "none" THEN {Raise(ResultAt0Error(r))}
    ELSE CASE ResultAt0(r) = "map"   -> {Ok("map")}
           [] ResultAt0(r) = "edict" -> {Ok("empty_map")}
           [] ResultAt0(r) = "null"  -> {Ok("none")}
           [] OTHER                  -> {Ok("other")}

Decode(m, r) ==
    CASE m \in {"AppService.enumerate_apps", "AppService.enumerate_tasks"} -> DecodeEnumerate(r)
      [] m = "AppService.query_app_description" -> DecodeQueryAppDescription(r)
      [] m = "AppService.start_app"             -> DecodeStartApp(r)
      [] m = "AppService.query_tasks"           -> DecodeQueryTasks(r)
      [] m = "Workspace.ls"                     -> DecodeLs(r)
      [] m = "AppService.kill_task"             -> DecodeKillTask(r)
      [] m = "AppService.query_app_log"         -> DecodeQueryAppLog(r)
      [] m \in {"Workspace.get", "Workspace.copy", "Workspace.move"} -> DecodeObjects(r)
      [] m = "Workspace.create"                 -> DecodeCreate(r)
      [] m = "Workspace.get_download_url"       -> DecodeDownloadUrl(r)
      [] OTHER                                  -> DecodeNothing(r)

-----------------------------------------------------------------------------
(* _rpc_call: the base URL a method is posted to, and the params mapping. *)

\* _call_app_service / _call_workspace (lines 277-281).
UrlOf(m) == IF m \in AppMethods THEN "app_service_url" ELSE "workspace_url"

\* The boolean arguments a caller can set on a method.
OptionalArgs(m) ==
    CASE m = "Workspace.ls"     -> {"recursive"}
      [] m = "Workspace.get"    -> {"metadata_only"}
      [] m = "Workspace.create" -> {"overwrite"}
      [] m = "Workspace.delete" -> {"force"}
      [] OTHER                  -> {}

\* The boolean keys the params mapping carries (set only when true).
SentFlags(m, args) ==
    CASE m = "Workspace.delete" -> {"deleteDirectories"} \cup args
      [] m = "Workspace.copy"   -> {"recursive"}
      [] OTHER                  -> args

\* How the reply to the POST ends the call: raise_for_status, response.json,
\* the "error" check, or the method's decoder applied to "result".  A body
\* that is JSON but not an object raises TypeError at "error" in data (a
\* number or null, or a string holding "error" indexed by data["error"])
\* or AttributeError at data.get (a list, or any other string).
Respond(m, rep) ==
    CASE rep.kind = "transport_error" -> {Raise("TransportError")}
      [] rep.kind = "http_status"     -> {Raise("HTTPStatusError")}
      [] rep.kind = "not_json"        -> {Raise("JSONDecodeError")}
      [] rep.kind = "not_object"      -> {Raise("TypeError"), Raise("AttributeError")}
      [] rep.kind = "rpc_error"       -> {Raise("RpcError")}
      [] OTHER                        -> Decode(m, rep.result)

=============================================================================

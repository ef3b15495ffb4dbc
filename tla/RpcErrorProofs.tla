--------------------------- MODULE RpcErrorProofs ----------------------------
(***************************************************************************)
(* The error taxonomy of the client (RaisesOnlyOnBadReply) for every      *)
(* bound on the number of calls.  Its argument: each decoder of client.py *)
(* returns normally on every result the API documents for its method, and *)
(* every transport or RPC failure ends the call in an exception; a call   *)
(* records its outcome in one step, so the invariant is inductive with    *)
(* TypeOK.                                                                 *)
(***************************************************************************)
EXTENDS RpcClientProofs

\* None of the outcomes in S is an exception.
NoRaise(S) == \A o \in S : o.ok

\* The documented results of the listing methods: null, [], [[]] and a
\* list of records.
ListDocs == {Bare("null"), Bare("elist"), Wrap("elist"), Wrap("recs")}

\* The documented results of the mapping methods: null, [], [{}] and a
\* mapping.
MapDocs == {Bare("null"), Bare("elist"), Wrap("edict"), Wrap("map")}

\* enumerate_apps and enumerate_tasks return a list for every documented
\* result: [] when it is falsy, one record per element otherwise.
LEMMA EnumerateDocumented ==
    ASSUME NEW r \in ListDocs PROVE NoRaise(DecodeEnumerate(r))
  BY DEF ListDocs, NoRaise, DecodeEnumerate, Ok, Raise, Wrap, Bare, TruthyResult,
         Truthy, ResultAt0Error, ResultAt0, MapRecords, Iterable, Elements, IsDict

\* workspace_get, copy and move parse every tuple of a documented listing.
LEMMA ObjectsDocumented ==
    ASSUME NEW r \in ListDocs PROVE NoRaise(DecodeObjects(r))
  BY DEF ListDocs, NoRaise, DecodeObjects, Ok, Raise, Wrap, Bare, TruthyResult,
         Truthy, ResultAt0Error, ResultAt0, Iterable, ParseAll, Elements,
         ParseWorkspaceObject

\* query_app_description returns None or a record.
LEMMA QueryAppDescriptionDocumented ==
    ASSUME NEW r \in {Bare("null"), Bare("elist"), Wrap("rec")}
    PROVE  NoRaise(DecodeQueryAppDescription(r))
  BY DEF NoRaise, DecodeQueryAppDescription, Ok, Raise, Wrap, Bare, TruthyResult,
         Truthy, ResultAt0Error, ResultAt0, IsDict

\* start_app returns the Task of a wrapped record.
LEMMA StartAppDocumented ==
    ASSUME NEW r \in {Wrap("rec")} PROVE NoRaise(DecodeStartApp(r))
  BY DEF NoRaise, DecodeStartApp, Ok, Raise, Wrap, ResultAt0Error, ResultAt0, IsDict

\* query_tasks, workspace_ls and get_download_url return a mapping.
LEMMA QueryTasksDocumented ==
    ASSUME NEW r \in MapDocs PROVE NoRaise(DecodeQueryTasks(r))
  BY DEF MapDocs, NoRaise, DecodeQueryTasks, Ok, Raise, Wrap, Bare, TruthyResult,
         Truthy, ResultAt0Error, ResultAt0, IsDict

LEMMA LsDocumented ==
    ASSUME NEW r \in MapDocs PROVE NoRaise(DecodeLs(r))
  BY DEF MapDocs, NoRaise, DecodeLs, Ok, Raise, Wrap, Bare, TruthyResult,
         Truthy, ResultAt0Error, ResultAt0, IsDict

LEMMA DownloadUrlDocumented ==
    ASSUME NEW r \in MapDocs PROVE NoRaise(DecodeDownloadUrl(r))
  BY DEF MapDocs, NoRaise, DecodeDownloadUrl, Ok, Raise, Wrap, Bare, TruthyResult,
         Truthy, ResultAt0Error, ResultAt0

\* kill_task returns a boolean for null, [], [0] and [1].
LEMMA KillTaskDocumented ==
    ASSUME NEW r \in {Bare("null"), Bare("elist"), Wrap("zero"), Wrap("one")}
    PROVE  NoRaise(DecodeKillTask(r))
  BY DEF NoRaise, DecodeKillTask, Ok, Raise, Wrap, Bare, TruthyResult, Truthy,
         ResultAt0Error, ResultAt0

\* query_app_log never raises.
LEMMA QueryAppLogDocumented ==
    ASSUME NEW r PROVE NoRaise(DecodeQueryAppLog(r))
  BY DEF NoRaise, DecodeQueryAppLog, Ok

\* workspace_create parses the first tuple of [[tuple]].
LEMMA CreateDocumented ==
    ASSUME NEW r \in {Wrap("recs")} PROVE NoRaise(DecodeCreate(r))
  BY DEF NoRaise, DecodeCreate, Ok, Raise, Wrap, ResultAt0Error, ResultAt0,
         At0Error, At0, ParseWorkspaceObject

\* workspace_delete and set_permissions ignore the result.
LEMMA NothingDocumented ==
    ASSUME NEW r PROVE NoRaise(DecodeNothing(r))
  BY DEF NoRaise, DecodeNothing, Ok

\* Every method returns normally on every result documented for it.
LEMMA DecodeDocumented ==
    ASSUME NEW m \in Methods, NEW r \in Documented(m) PROVE NoRaise(Decode(m, r))
<1>1. CASE m \in {"AppService.enumerate_apps", "AppService.enumerate_tasks"}
  <2>1. r \in ListDocs /\ Decode(m, r) = DecodeEnumerate(r)
    BY <1>1, Zenon DEF Documented, Decode, ListDocs
  <2>2. QED BY <2>1, EnumerateDocumented
<1>2. CASE m \in {"Workspace.get", "Workspace.copy", "Workspace.move"}
  <2>1. r \in ListDocs /\ Decode(m, r) = DecodeObjects(r)
    BY <1>2, Zenon DEF Documented, Decode, ListDocs
  <2>2. QED BY <2>1, ObjectsDocumented
<1>3. CASE m = "AppService.query_app_description"
  <2>1. r \in {Bare("null"), Bare("elist"), Wrap("rec")}
        /\ Decode(m, r) = DecodeQueryAppDescription(r)
    BY <1>3, Zenon DEF Documented, Decode
  <2>2. QED BY <2>1, QueryAppDescriptionDocumented
<1>4. CASE m = "AppService.start_app"
  <2>1. r \in {Wrap("rec")} /\ Decode(m, r) = DecodeStartApp(r)
    BY <1>4, Zenon DEF Documented, Decode
  <2>2. QED BY <2>1, StartAppDocumented
<1>5. CASE m = "AppService.query_tasks"
  <2>1. r \in MapDocs /\ Decode(m, r) = DecodeQueryTasks(r)
    BY <1>5, Zenon DEF Documented, Decode, MapDocs
  <2>2. QED BY <2>1, QueryTasksDocumented
<1>6. CASE m = "Workspace.ls"
  <2>1. r \in MapDocs /\ Decode(m, r) = DecodeLs(r)
    BY <1>6, Zenon DEF Documented, Decode, MapDocs
  <2>2. QED BY <2>1, LsDocumented
<1>7. CASE m = "Workspace.get_download_url"
  <2>1. r \in MapDocs /\ Decode(m, r) = DecodeDownloadUrl(r)
    BY <1>7, Zenon DEF Documented, Decode, MapDocs
  <2>2. QED BY <2>1, DownloadUrlDocumented
<1>8. CASE m = "AppService.kill_task"
  <2>1. r \in {Bare("null"), Bare("elist"), Wrap("zero"), Wrap("one")}
        /\ Decode(m, r) = DecodeKillTask(r)
    BY <1>8, Zenon DEF Documented, Decode
  <2>2. QED BY <2>1, KillTaskDocumented
<1>9. CASE m = "AppService.query_app_log"
  <2>1. Decode(m, r) = DecodeQueryAppLog(r)
    BY <1>9, Zenon DEF Decode
  <2>2. QED BY <2>1, QueryAppLogDocumented
<1>10. CASE m = "Workspace.create"
  <2>1. r \in {Wrap("recs")} /\ Decode(m, r) = DecodeCreate(r)
    BY <1>10, Zenon DEF Documented, Decode
  <2>2. QED BY <2>1, CreateDocumented
<1>11. CASE m \in {"Workspace.delete", "Workspace.set_permissions"}
  <2>1. Decode(m, r) = DecodeNothing(r)
    BY <1>11, Zenon DEF Decode
  <2>2. QED BY <2>1, NothingDocumented
<1>12. QED
  BY <1>1, <1>2, <1>3, <1>4, <1>5, <1>6, <1>7, <1>8, <1>9, <1>10, <1>11
     DEF Methods, AppMethods, WsMethods

\* How a reply ends a call (_rpc_call, lines 296-304): a failure of the
\* transport, the status, the body or the RPC raises, and a documented
\* result does not.
LEMMA RespondErrors ==
    ASSUME NEW m \in Methods, NEW rep \in Replies, NEW out \in Respond(m, rep)
    PROVE  /\ ~out.ok => \/ rep.kind \in Failures
                         \/ rep.result \notin Documented(m)
           /\ rep.kind \in Failures => ~out.ok
<1>1. CASE rep.kind \in Failures
  <2>1. out \in {Raise(e) : e \in Errors}
    BY <1>1, Zenon DEF Respond, Failures, Errors
  <2>2. QED BY <1>1, <2>1 DEF Raise
<1>2. CASE rep.kind \notin Failures
  <2>1. out \in Decode(m, rep.result)
    BY <1>2, Zenon DEF Respond, Failures
  <2>2. rep.result \in Documented(m) => out.ok
    BY <2>1, DecodeDocumented DEF NoRaise
  <2>3. QED BY <1>2, <2>2
<1>3. QED BY <1>1, <1>2

\* The taxonomy is inductive together with TypeOK: Invoke leaves the last
\* outcome alone, and Reply records one that RespondErrors describes.
LEMMA TaxonomyInductive ==
    TypeOK /\ RaisesOnlyOnBadReply /\ [Next]_vars => RaisesOnlyOnBadReply'
<1> SUFFICES ASSUME TypeOK, RaisesOnlyOnBadReply, [Next]_vars
             PROVE  RaisesOnlyOnBadReply'
  OBVIOUS
<1>1. ASSUME NEW m \in Methods, NEW args \in SUBSET OptionalArgs(m), Invoke(m, args)
      PROVE  RaisesOnlyOnBadReply'
  BY <1>1 DEF Invoke, RaisesOnlyOnBadReply
<1>2. ASSUME NEW rep \in Replies, Reply(rep) PROVE RaisesOnlyOnBadReply'
  <2>1. pending \in Pending
    BY <1>2 DEF Reply, TypeOK
  <2>2. PICK out \in Respond(pending.method, rep) :
               ret' = [method |-> pending.method, reply |-> rep, out |-> out]
    BY <1>2 DEF Reply
  <2>3. pending.method \in Methods
    BY <2>1 DEF Pending
  <2>4. QED
    BY <2>2, <2>3, RespondErrors DEF RaisesOnlyOnBadReply
<1>3. CASE UNCHANGED vars
  BY <1>3 DEF vars, RaisesOnlyOnBadReply
<1>4. QED BY <1>1, <1>2, <1>3 DEF Next

\* Error taxonomy of spec 4.1 and 7, for every bound on the calls: a call
\* of client.py raises only on a transport or RPC failure, a malformed
\* body or an undocumented result, and every failure raises.
THEOREM ErrorTaxonomy == Spec => []RaisesOnlyOnBadReply
<1>1. Init => RaisesOnlyOnBadReply
  BY DEF Init, RaisesOnlyOnBadReply
<1>2. QED
  BY <1>1, TaxonomyInductive, TypeCorrect, PTL DEF Spec
=============================================================================

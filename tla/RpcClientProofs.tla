------------------------- MODULE RpcClientProofs ----------------------------
(* Proofs about RpcClient: type correctness, and the wire discipline      *)
(* (request ids 1..n in posting order, Authorization iff token), for      *)
(* every bound on the number of calls.                                    *)
EXTENDS RpcClient, SequenceTheorems, TLAPS


\* Each decoder of client.py ends in an outcome of the type, whatever the result.
LEMMA DecodeEnumerateType ==
    ASSUME NEW r \in Results PROVE DecodeEnumerate(r) \subseteq Outcomes
  BY DEF DecodeEnumerate, Outcomes, Ok, Raise, Errors, Values, Results, Wrap, Bare, Inner,
         ResultAt0Error, ResultAt0, At0Error, At0, TruthyResult, Truthy, MapRecords,
         ParseAll, ParseWorkspaceObject, Iterable, Elements, IsDict

LEMMA DecodeQueryAppDescriptionType ==
    ASSUME NEW r \in Results PROVE DecodeQueryAppDescription(r) \subseteq Outcomes
  BY DEF DecodeQueryAppDescription, Outcomes, Ok, Raise, Errors, Values, Results, Wrap, Bare, Inner,
         ResultAt0Error, ResultAt0, At0Error, At0, TruthyResult, Truthy, MapRecords,
         ParseAll, ParseWorkspaceObject, Iterable, Elements, IsDict

LEMMA DecodeStartAppType ==
    ASSUME NEW r \in Results PROVE DecodeStartApp(r) \subseteq Outcomes
  BY DEF DecodeStartApp, Outcomes, Ok, Raise, Errors, Values, Results, Wrap, Bare, Inner,
         ResultAt0Error, ResultAt0, At0Error, At0, TruthyResult, Truthy, MapRecords,
         ParseAll, ParseWorkspaceObject, Iterable, Elements, IsDict

LEMMA DecodeQueryTasksType ==
    ASSUME NEW r \in Results PROVE DecodeQueryTasks(r) \subseteq Outcomes
  BY DEF DecodeQueryTasks, Outcomes, Ok, Raise, Errors, Values, Results, Wrap, Bare, Inner,
         ResultAt0Error, ResultAt0, At0Error, At0, TruthyResult, Truthy, MapRecords,
         ParseAll, ParseWorkspaceObject, Iterable, Elements, IsDict

LEMMA DecodeLsType ==
    ASSUME NEW r \in Results PROVE DecodeLs(r) \subseteq Outcomes
  BY DEF DecodeLs, Outcomes, Ok, Raise, Errors, Values, Results, Wrap, Bare, Inner,
         ResultAt0Error, ResultAt0, At0Error, At0, TruthyResult, Truthy, MapRecords,
         ParseAll, ParseWorkspaceObject, Iterable, Elements, IsDict

LEMMA DecodeKillTaskType ==
    ASSUME NEW r \in Results PROVE DecodeKillTask(r) \subseteq Outcomes
  BY DEF DecodeKillTask, Outcomes, Ok, Raise, Errors, Values, Results, Wrap, Bare, Inner,
         ResultAt0Error, ResultAt0, At0Error, At0, TruthyResult, Truthy, MapRecords,
         ParseAll, ParseWorkspaceObject, Iterable, Elements, IsDict

LEMMA DecodeQueryAppLogType ==
    ASSUME NEW r \in Results PROVE DecodeQueryAppLog(r) \subseteq Outcomes
  BY DEF DecodeQueryAppLog, Outcomes, Ok, Raise, Errors, Values, Results, Wrap, Bare, Inner,
         ResultAt0Error, ResultAt0, At0Error, At0, TruthyResult, Truthy, MapRecords,
         ParseAll, ParseWorkspaceObject, Iterable, Elements, IsDict

LEMMA DecodeObjectsType ==
    ASSUME NEW r \in Results PROVE DecodeObjects(r) \subseteq Outcomes
  BY DEF DecodeObjects, Outcomes, Ok, Raise, Errors, Values, Results, Wrap, Bare, Inner,
         ResultAt0Error, ResultAt0, At0Error, At0, TruthyResult, Truthy, MapRecords,
         ParseAll, ParseWorkspaceObject, Iterable, Elements, IsDict

LEMMA DecodeCreateType ==
    ASSUME NEW r \in Results PROVE DecodeCreate(r) \subseteq Outcomes
  BY DEF DecodeCreate, Outcomes, Ok, Raise, Errors, Values, Results, Wrap, Bare, Inner,
         ResultAt0Error, ResultAt0, At0Error, At0, TruthyResult, Truthy, MapRecords,
         ParseAll, ParseWorkspaceObject, Iterable, Elements, IsDict

LEMMA DecodeNothingType ==
    ASSUME NEW r \in Results PROVE DecodeNothing(r) \subseteq Outcomes
  BY DEF DecodeNothing, Outcomes, Ok, Raise, Errors, Values, Results, Wrap, Bare, Inner,
         ResultAt0Error, ResultAt0, At0Error, At0, TruthyResult, Truthy, MapRecords,
         ParseAll, ParseWorkspaceObject, Iterable, Elements, IsDict

LEMMA DecodeDownloadUrlType ==
    ASSUME NEW r \in Results PROVE DecodeDownloadUrl(r) \subseteq Outcomes
  BY DEF DecodeDownloadUrl, Outcomes, Ok, Raise, Errors, Values, Results, Wrap, Bare, Inner,
         ResultAt0Error, ResultAt0, At0Error, At0, TruthyResult, Truthy, MapRecords,
         ParseAll, ParseWorkspaceObject, Iterable, Elements, IsDict

\* Every way a call can end is an outcome of the type.
LEMMA RespondType ==
    ASSUME NEW m \in Methods, NEW rep \in Replies
    PROVE  Respond(m, rep) \subseteq Outcomes
<1>1. CASE rep.kind \in Failures
  BY <1>1 DEF Respond, Failures, Outcomes, Raise, Errors
<1>2. CASE rep.kind \notin Failures
  <2>1. rep.result \in Results /\ Respond(m, rep) = Decode(m, rep.result)
    BY <1>2 DEF Replies, Failures, Respond
  <2>2. Decode(m, rep.result) \subseteq Outcomes
    BY <2>1, DecodeEnumerateType, DecodeQueryAppDescriptionType, DecodeStartAppType, DecodeQueryTasksType, DecodeLsType, DecodeKillTaskType, DecodeQueryAppLogType, DecodeObjectsType, DecodeCreateType, DecodeNothingType, DecodeDownloadUrlType DEF Decode
  <2>3. QED BY <2>1, <2>2
<1>3. QED BY <1>1, <1>2

-----------------------------------------------------------------------------
\* The options a caller sets, and the keys sent for them, are boolean keys.
LEMMA FlagsType ==
    ASSUME NEW m \in Methods, NEW args \in SUBSET OptionalArgs(m)
    PROVE  /\ args \in SUBSET Flags
           /\ SentFlags(m, args) \in SUBSET Flags
  BY DEF OptionalArgs, SentFlags, Flags

LEMMA UrlType == \A m \in Methods : UrlOf(m) \in Urls
  BY DEF UrlOf, Urls

\* TypeOK is inductive.
LEMMA TypeOKInductive == TypeOK /\ [Next]_vars => TypeOK'
<1> SUFFICES ASSUME TypeOK, [Next]_vars PROVE TypeOK'
  OBVIOUS
<1>1. ASSUME NEW m \in Methods, NEW args \in SUBSET OptionalArgs(m), Invoke(m, args)
      PROVE  TypeOK'
  <2>1. args \in SUBSET Flags /\ SentFlags(m, args) \in SUBSET Flags
    BY FlagsType
  <2>2. UrlOf(m) \in Urls
    BY UrlType
  <2>3. reqId' \in 0..MaxCalls
    <3>1. reqId < MaxCalls /\ reqId' = reqId + 1
      BY <1>1, Zenon DEF Invoke
    <3>2. reqId \in 0..MaxCalls
      BY DEF TypeOK
    <3>3. QED BY <3>1, <3>2, MaxCallsAssumption
  <2>4. wire' \in Seq(Request)
    <3>1. [id |-> reqId + 1, url |-> UrlOf(m), method |-> m, auth |-> token # "",
           flags |-> SentFlags(m, args)] \in Request
      BY <2>1, <2>2 DEF TypeOK, Request
    <3>2. wire \in Seq(Request)
      BY DEF TypeOK
    <3>3. QED BY <1>1, <3>1, <3>2, AppendProperties DEF Invoke
  <2>5. pending' \in Pending \cup {NoCall}
    BY <1>1, <2>1, Zenon DEF Invoke, Pending
  <2>6. QED BY <1>1, <2>3, <2>4, <2>5 DEF Invoke, TypeOK
<1>2. ASSUME NEW rep \in Replies, Reply(rep) PROVE TypeOK'
  <2>1. pending \in Pending
    BY <1>2 DEF Reply, TypeOK
  <2>2. Respond(pending.method, rep) \subseteq Outcomes
    BY <2>1, RespondType DEF Pending
  <2>3. ret' \in Returned
    BY <1>2, <2>1, <2>2 DEF Reply, Returned, Pending
  <2>4. QED BY <1>2, <2>3 DEF Reply, TypeOK
<1>3. CASE UNCHANGED vars
  BY <1>3 DEF vars, TypeOK
<1>4. QED BY <1>1, <1>2, <1>3 DEF Next

\* Type correctness of the client.
THEOREM TypeCorrect == Spec => []TypeOK
<1>1. Init => TypeOK
  BY MaxCallsAssumption DEF Init, TypeOK
<1>2. QED BY <1>1, TypeOKInductive, PTL DEF Spec

-----------------------------------------------------------------------------
\* The wire discipline is inductive together with TypeOK: every step
\* appends the envelope with id reqId + 1 and auth = (token # "") while
\* the token never changes.
IInv == TypeOK /\ WireDiscipline

\* Appending an envelope to the wire keeps the earlier ones in place.
LEMMA AppendRequest ==
    ASSUME NEW s \in Seq(Request), NEW x \in Request
    PROVE  /\ Len(Append(s, x)) = Len(s) + 1
           /\ \A i \in 1..Len(s) : Append(s, x)[i] = s[i]
           /\ Append(s, x)[Len(s) + 1] = x
  BY AppendProperties

LEMMA IInvInductive == IInv /\ [Next]_vars => IInv'
<1> SUFFICES ASSUME IInv, [Next]_vars PROVE IInv'
  OBVIOUS
<1>0. TypeOK'
  BY TypeOKInductive DEF IInv
<1>1. ASSUME NEW m \in Methods, NEW args \in SUBSET OptionalArgs(m), Invoke(m, args)
      PROVE  WireDiscipline'
  <2>1. wire \in Seq(Request) /\ reqId \in Nat
    BY MaxCallsAssumption DEF IInv, TypeOK
  <2> DEFINE e == [id |-> reqId + 1, url |-> UrlOf(m), method |-> m,
                   auth |-> token # "", flags |-> SentFlags(m, args)]
  <2>2. wire' = Append(wire, e) /\ reqId' = reqId + 1 /\ token' = token
    BY <1>1 DEF Invoke
  <2>0. e \in Request
    BY <2>1, UrlType, FlagsType DEF Request
  <2>3. /\ Len(wire') = Len(wire) + 1
        /\ \A i \in 1..Len(wire) : wire'[i] = wire[i]
        /\ wire'[Len(wire) + 1] = e
    <3>1. /\ Len(Append(wire, e)) = Len(wire) + 1
          /\ \A i \in 1..Len(wire) : Append(wire, e)[i] = wire[i]
          /\ Append(wire, e)[Len(wire) + 1] = e
      BY <2>0, <2>1, AppendRequest
    <3>2. QED BY <3>1, <2>2, Zenon
  <2>7. e.id = reqId + 1 /\ e.auth = (token # "")
    OBVIOUS
  <2> HIDE DEF e
  <2>8. RequestIdsFresh /\ AuthIffToken
    BY DEF IInv, WireDiscipline
  <2>4. RequestIdsFresh'
    <3>1. reqId' = Len(wire')
      BY <2>2, <2>3, <2>8 DEF RequestIdsFresh
    <3>2. ASSUME NEW i \in 1..Len(wire') PROVE wire'[i].id = i
      <4>1. CASE i \in 1..Len(wire)
        BY <4>1, <2>3, <2>8 DEF RequestIdsFresh
      <4>2. CASE i = Len(wire) + 1
        BY <4>2, <2>3, <2>7, <2>8 DEF RequestIdsFresh
      <4>3. QED BY <4>1, <4>2, <2>1, <2>3
    <3>3. QED BY <3>1, <3>2 DEF RequestIdsFresh
  <2>5. AuthIffToken'
    <3>1. ASSUME NEW i \in 1..Len(wire') PROVE wire'[i].auth = (token' # "")
      <4>1. CASE i \in 1..Len(wire)
        BY <4>1, <2>2, <2>3, <2>8 DEF AuthIffToken
      <4>2. CASE i = Len(wire) + 1
        BY <4>2, <2>2, <2>3, <2>7
      <4>0. i \in 1..Len(wire) \/ i = Len(wire) + 1
        BY <2>1, <2>3
      <4>3. QED BY <4>0, <4>1, <4>2, Zenon
    <3>2. QED BY <3>1 DEF AuthIffToken
  <2>6. QED BY <2>4, <2>5 DEF WireDiscipline
<1>2. ASSUME NEW rep \in Replies, Reply(rep) PROVE WireDiscipline'
  BY <1>2 DEF Reply, IInv, WireDiscipline, RequestIdsFresh, AuthIffToken
<1>3. ASSUME UNCHANGED vars PROVE WireDiscipline'
  BY <1>3 DEF vars, IInv, WireDiscipline, RequestIdsFresh, AuthIffToken
<1>5. WireDiscipline'
  BY <1>1, <1>2, <1>3 DEF Next
<1>4. QED BY <1>0, <1>5 DEF IInv

\* Request ids are fresh and the Authorization header follows the token,
\* in every reachable state of a client.
THEOREM WireDisciplineHolds == Spec => []WireDiscipline
<1>1. Init => IInv
  BY MaxCallsAssumption DEF Init, IInv, TypeOK, WireDiscipline,
                                        RequestIdsFresh, AuthIffToken
<1>2. IInv => WireDiscipline
  BY DEF IInv
<1>3. QED BY <1>1, <1>2, IInvInductive, PTL DEF Spec


\* Request ids start at 1 and go up by one per posted request, so no two
\* requests of a client share an id (the _request_id counter of _rpc_call).
THEOREM RequestIdsFreshHolds == Spec => []RequestIdsFresh
<1>1. WireDiscipline => RequestIdsFresh
  BY DEF WireDiscipline
<1>2. QED BY <1>1, WireDisciplineHolds, PTL

-----------------------------------------------------------------------------
(* Refinement of RpcCall.  The step that ends a call is mapped to the     *)
(* abstract Call, so the request in flight must be the last one on the    *)
(* wire and must be the one the abstract call would have sent.           *)

\* The request RpcCall's Call of m with options args sends as the n-th one.
AbsRequest(n, m, args) ==
    [id |-> n, url |-> UrlOf(m), method |-> m, auth |-> token # "",
     flags |-> SentFlags(m, args)]

InFlight ==
    pending # NoCall =>
        /\ Len(wire) >= 1
        /\ pending.args \in SUBSET OptionalArgs(pending.method)
        /\ wire[Len(wire)] = AbsRequest(Len(wire), pending.method, pending.args)

RInv == IInv /\ InFlight


\* Dropping the last element of an Append gives the sequence back.
LEMMA SubSeqAppend ==
    ASSUME NEW S, NEW s \in Seq(S), NEW e \in S
    PROVE  SubSeq(Append(s, e), 1, Len(s)) = s
<1>1. Append(s, e) \in Seq(S) /\ Len(Append(s, e)) = Len(s) + 1
  BY AppendProperties
<1>2. /\ SubSeq(Append(s, e), 1, Len(s)) \in Seq(S)
      /\ Len(SubSeq(Append(s, e), 1, Len(s))) = Len(s)
      /\ \A i \in 1..Len(s) : SubSeq(Append(s, e), 1, Len(s))[i] = Append(s, e)[i]
  BY <1>1, SubSeqProperties
<1>3. \A i \in 1..Len(s) : Append(s, e)[i] = s[i]
  BY AppendProperties
<1>4. QED BY <1>2, <1>3, SeqEqual

\* A non-empty sequence is its prefix with its last element appended.
LEMMA AppendLast ==
    ASSUME NEW S, NEW s \in Seq(S), Len(s) >= 1
    PROVE  s = Append(SubSeq(s, 1, Len(s) - 1), s[Len(s)])
<1> DEFINE L == Len(s)
           p == SubSeq(s, 1, L - 1)
<1>1. L \in Nat /\ L >= 1 /\ \A i \in 1..L - 1 : s[i] \in S
  BY ElementOfSeq, LenProperties
<1>2. /\ p \in Seq(S)
      /\ Len(p) = IF 1 <= L - 1 THEN L - 1 - 1 + 1 ELSE 0
      /\ \A i \in 1..L - 1 - 1 + 1 : p[i] = s[1 + i - 1]
  BY <1>1, SubSeqProperties
<1>3. s[L] \in S
  BY <1>1, ElementOfSeq
<1> HIDE DEF L, p
<1>4. Len(p) = L - 1 /\ \A i \in 1..L - 1 : p[i] = s[i]
  BY <1>1, <1>2
<1>5. /\ Append(p, s[L]) \in Seq(S)
      /\ Len(Append(p, s[L])) = L
      /\ \A i \in 1..L : Append(p, s[L])[i] = s[i]
  <2>1. /\ Append(p, s[L]) \in Seq(S)
        /\ Len(Append(p, s[L])) = Len(p) + 1
        /\ \A i \in 1..Len(p) : Append(p, s[L])[i] = p[i]
        /\ Append(p, s[L])[Len(p) + 1] = s[L]
    BY <1>2, <1>3, AppendProperties
  <2>2. QED BY <2>1, <1>1, <1>4
<1>6. QED BY <1>5, SeqEqual DEF L, p

\* The request in flight stays the last one on the wire.
LEMMA RInvInductive == RInv /\ [Next]_vars => RInv'
<1> SUFFICES ASSUME RInv, [Next]_vars PROVE RInv'
  OBVIOUS
<1>1. IInv'
  BY IInvInductive DEF RInv
<1>2. ASSUME NEW m \in Methods, NEW args \in SUBSET OptionalArgs(m), Invoke(m, args)
      PROVE  InFlight'
  <2>1. /\ pending' = [method |-> m, args |-> args]
        /\ token' = token
        /\ wire' = Append(wire, [id |-> reqId + 1, url |-> UrlOf(m), method |-> m,
                                 auth |-> token # "", flags |-> SentFlags(m, args)])
    BY <1>2, Zenon DEF Invoke
  <2>2. reqId = Len(wire) /\ wire \in Seq(Request)
    BY DEF RInv, IInv, WireDiscipline, RequestIdsFresh, TypeOK
  <2>3. AbsRequest(Len(wire) + 1, m, args) \in Request
    BY FlagsType, UrlType DEF AbsRequest, Request
  <2>4. wire' = Append(wire, AbsRequest(Len(wire) + 1, m, args))
    BY <2>1, <2>2 DEF AbsRequest
  <2>5. Len(wire') = Len(wire) + 1 /\ wire'[Len(wire')] = AbsRequest(Len(wire) + 1, m, args)
    BY <2>2, <2>3, <2>4, AppendRequest
  <2>6. pending'.method = m /\ pending'.args = args
    BY <2>1
  <2>7. Len(wire) \in Nat
    BY <2>2
  <2>8. Len(wire') >= 1
    BY <2>5, <2>7
  <2>9. pending'.args \in SUBSET OptionalArgs(pending'.method)
    BY <2>6
  <2>10. (wire[Len(wire)] = AbsRequest(Len(wire), m, args))'
    BY <2>1, <2>5 DEF AbsRequest
  <2>11. QED
    BY <2>6, <2>8, <2>9, <2>10, Zenon DEF InFlight
<1>3. ASSUME NEW rep \in Replies, Reply(rep) PROVE InFlight'
  BY <1>3 DEF Reply, InFlight
<1>4. ASSUME UNCHANGED vars PROVE InFlight'
  BY <1>4 DEF vars, RInv, InFlight, AbsRequest
<1>5. InFlight'
  BY <1>2, <1>3, <1>4 DEF Next
<1>6. QED BY <1>1, <1>5 DEF RInv


\* An Invoke is an abstract stutter: the request it posts is in flight, so
\* the completed calls are unchanged.
LEMMA InvokeStutters ==
    ASSUME RInv, NEW m \in Methods, NEW args \in SUBSET OptionalArgs(m), Invoke(m, args)
    PROVE  UNCHANGED <<token, Completed, ret>>
<1>1. /\ pending = NoCall
      /\ pending' = [method |-> m, args |-> args]
      /\ wire' = Append(wire, [id |-> reqId + 1, url |-> UrlOf(m), method |-> m,
                               auth |-> token # "", flags |-> SentFlags(m, args)])
      /\ token' = token /\ ret' = ret
  BY Zenon DEF Invoke
<1>2. pending' # NoCall
  <2>1. args \in SUBSET Flags
    BY FlagsType
  <2>2. pending' \in [method : Methods, args : SUBSET Flags]
    BY <1>1, <2>1
  <2>3. QED BY <2>2, NoCallAssumption
<1>3. wire \in Seq(Request)
  BY DEF RInv, IInv, TypeOK
<1>4. [id |-> reqId + 1, url |-> UrlOf(m), method |-> m,
       auth |-> token # "", flags |-> SentFlags(m, args)] \in Request
  <2>1. reqId \in Nat
    BY MaxCallsAssumption DEF RInv, IInv, TypeOK
  <2>2. QED BY <2>1, FlagsType, UrlType DEF Request
<1>5. Len(wire') - 1 = Len(wire)
  <2>1. Len(wire') = Len(wire) + 1
    BY <1>1, <1>3, <1>4, AppendRequest
  <2>2. Len(wire) \in Nat
    BY <1>3, LenProperties
  <2>3. QED BY <2>1, <2>2
<1>6. Completed' = SubSeq(wire', 1, Len(wire))
  BY <1>2, <1>5 DEF Completed
<1>7. Completed' = wire
  BY <1>1, <1>3, <1>4, <1>6, SubSeqAppend
<1>8. Completed = wire
  BY <1>1 DEF Completed
<1>9. QED BY <1>1, <1>7, <1>8

\* The Reply that ends a call is the abstract Call of the method and
\* options of the request in flight.
LEMMA ReplyIsCall ==
    ASSUME RInv, NEW rep \in Replies, Reply(rep)
    PROVE  Abs!Next
<1> DEFINE m == pending.method
           args == pending.args
<1>1. /\ pending # NoCall
      /\ pending' = NoCall
      /\ \E out \in Respond(m, rep) : ret' = [method |-> m, reply |-> rep, out |-> out]
      /\ UNCHANGED <<token, reqId, wire>>
  BY Zenon DEF Reply
<1>2. /\ Len(wire) >= 1
      /\ args \in SUBSET OptionalArgs(m)
      /\ wire[Len(wire)] = AbsRequest(Len(wire), m, args)
  BY <1>1 DEF RInv, InFlight
<1>3. m \in Methods
  BY <1>1 DEF RInv, IInv, TypeOK, Pending
<1>4. wire \in Seq(Request)
  BY DEF RInv, IInv, TypeOK
<1>5. Len(wire) = reqId /\ reqId \in 0..MaxCalls
  BY DEF RInv, IInv, TypeOK, WireDiscipline, RequestIdsFresh
<1>6. Completed = SubSeq(wire, 1, Len(wire) - 1) /\ Completed' = wire
  BY <1>1 DEF Completed
<1>7. wire = Append(Completed, wire[Len(wire)])
  BY <1>2, <1>4, <1>6, AppendLast
<1>8. Len(Completed) = Len(wire) - 1
  <2> DEFINE L == Len(wire)
             n == Len(SubSeq(wire, 1, L - 1))
  <2>1. \A i \in 1..L - 1 : wire[i] \in Request
    BY <1>4, ElementOfSeq
  <2>2. L \in Nat /\ L >= 1
    BY <1>2, <1>4, LenProperties
  <2>3. n = IF 1 <= L - 1 THEN L - 1 - 1 + 1 ELSE 0
    BY <2>1, <2>2, SubSeqProperties
  <2> HIDE DEF L, n
  <2>4. n = L - 1
    BY <2>2, <2>3
  <2>5. QED BY <1>6, <2>4 DEF L, n
<1>9. Abs!Call(m, args)
  <2>1. Len(Completed) < MaxCalls
    BY <1>5, <1>8, MaxCallsAssumption
  <2>2. wire[Len(wire)] = AbsRequest(Len(Completed) + 1, m, args)
    BY <1>2, <1>8
  <2>3. Completed' = Append(Completed, [id |-> Len(Completed) + 1, url |-> UrlOf(m), method |-> m,
                                        auth |-> token # "", flags |-> SentFlags(m, args)])
    BY <1>6, <1>7, <2>2 DEF AbsRequest
  <2>4. QED BY <1>1, <2>1, <2>3, Zenon DEF Abs!Call
<1>10. QED BY <1>2, <1>3, <1>9 DEF Abs!Next

\* The client implements the atomic calls of RpcCall: every behaviour of
\* _rpc_call split at its blocking POST is a behaviour of atomic calls whose
\* request ids are their positions (spec 4.1, refinement mapping Completed).
THEOREM Refinement == Spec => RpcCallRefined
<1>1. Init => RInv
  BY MaxCallsAssumption DEF Init, RInv, IInv, TypeOK, WireDiscipline,
                             RequestIdsFresh, AuthIffToken, InFlight
<1>2. Init => Abs!Init
  BY DEF Init, Abs!Init, Completed
<1>3. RInv /\ [Next]_vars => [Abs!Next]_<<token, Completed, ret>>
  <2> SUFFICES ASSUME RInv, [Next]_vars PROVE [Abs!Next]_<<token, Completed, ret>>
    OBVIOUS
  <2>1. CASE \E m \in Methods : \E args \in SUBSET OptionalArgs(m) : Invoke(m, args)
    BY <2>1, InvokeStutters
  <2>2. CASE \E rep \in Replies : Reply(rep)
    BY <2>2, ReplyIsCall
  <2>3. CASE UNCHANGED vars
    BY <2>3 DEF vars, Completed
  <2>4. QED BY <2>1, <2>2, <2>3 DEF Next
<1>4. QED BY <1>1, <1>2, <1>3, RInvInductive, PTL DEF Spec, RpcCallRefined, Abs!Spec, Abs!vars

=============================================================================

------------------------- MODULE WorkspaceTupleProofs -------------------------
(***************************************************************************)
(* Proofs about the workspace tuple decoder.  The three facts are stated  *)
(* for every sequence of JSON values, of any length, not just the tuples  *)
(* of length 0..12 that the run enumerates.                                *)
(***************************************************************************)
EXTENDS WorkspaceTuple, SequenceTheorems, TLAPS

\* Every tuple the server can send is a sequence of JSON values.
LEMMA TuplesAreSeqs == Tuples \subseteq Seq(JsonValues)
<1> SUFFICES ASSUME NEW x \in Tuples PROVE x \in Seq(JsonValues)
    OBVIOUS
<1> PICK n \in 0..MaxLen, f \in FullTuples : x = SubSeq(f, 1, n)
    BY DEF Tuples
<1>1. \A i \in 1..n : f[i] \in JsonValues
    <2>1. \A k \in 1..MaxLen : OffsetValues(k) \subseteq JsonValues
        BY DEF OffsetValues, SizeValues, JsonValues
    <2>2. PICK size \in OffsetValues(6), user \in OffsetValues(7), auto \in OffsetValues(8),
               shock \in OffsetValues(9), data \in OffsetValues(11) :
            f = <<"text", "text", "text", "text", "text", "text", size, user, auto,
                  shock, "text", data>>
        BY DEF FullTuples
    <2>3. f \in [1..MaxLen -> JsonValues]
        BY <2>1, <2>2 DEF MaxLen, OffsetValues
    <2>4. QED
        BY <2>3 DEF MaxLen
<1>2. QED
    BY <1>1, SubSeqProperties

\* _parse_workspace_object raises exactly when int() is called on a size
\* that is present, truthy and neither an integer nor a numeric string.
LEMMA ParseFails ==
    ASSUME NEW t \in Seq(JsonValues)
    PROVE  ~ParseWorkspaceObject(t).ok <=> (Len(t) > 6 /\ t[7] \in {"text", "dict"})
<1>1. Len(t) > 6 => t[7] \in JsonValues
    BY ElementOfSeq
<1>2. QED
    BY <1>1 DEF ParseWorkspaceObject, SizePresent, IntError, Truthy, JsonValues

\* Its outcome is a WorkspaceObject or one of the two exceptions.
LEMMA ParseType ==
    ASSUME NEW t \in Seq(JsonValues)
    PROVE  ParseWorkspaceObject(t) \in Outcome
<1>1. \A k \in 1..Len(t) : t[k] \in JsonValues
    BY ElementOfSeq
<1>2. QED
    BY <1>1 DEF ParseWorkspaceObject, SizePresent, IntError, Truthy, JsonValues,
                ShockRef, StrOf, Outcome, Object

\* A well-typed tuple of any length decodes to the reference object of
\* spec 3: each offset to its field, each missing one to its default.
LEMMA ParsePerSpec ==
    ASSUME NEW t \in Seq(JsonValues), WellTyped(t)
    PROVE  ParseWorkspaceObject(t) = [ok |-> TRUE, obj |-> ReferenceObject(t)]
<1>1. \A k \in 1..Len(t) : t[k] \in JsonValues
    BY ElementOfSeq
<1>2. ~(SizePresent(t) /\ IntError(t[7]) # "none")
    BY <1>1 DEF WellTyped, SizePresent, IntError, Truthy
<1>3. Truthy(Field(t, 6, "zero")) <=> SizePresent(t)
    BY DEF Field, SizePresent, Truthy
<1>4. (IF Truthy(Field(t, 9, "none")) THEN "str" ELSE "None") = ShockRef(t)
    BY DEF Field, ShockRef, StrOf, Truthy
<1>5. (IF Truthy(Field(t, 11, "none")) THEN "str" ELSE "None")
        = (IF Len(t) > 11 /\ Truthy(t[12]) THEN StrOf(t[12]) ELSE "None")
    BY DEF Field, StrOf, Truthy
<1>6. 7 + 1 = 8 /\ 8 + 1 = 9
    OBVIOUS
<1>7. QED
    BY <1>2, <1>3, <1>4, <1>5, <1>6, Zenon DEF ParseWorkspaceObject, ReferenceObject, Field, StrOf

\* The inductive invariant: the decoder has not run, or its outcome is
\* that of _parse_workspace_object on the tuple received.
IInv == tup \in Tuples /\ out \in {NotDecoded, ParseWorkspaceObject(tup)}

LEMMA IInvInductive == Init /\ [][Decode]_vars => []IInv
<1>1. Init => IInv
    BY DEF Init, IInv
<1>2. IInv /\ [Decode]_vars => IInv'
    BY DEF IInv, Decode, vars
<1>3. QED
    BY <1>1, <1>2, PTL

\* For every tuple the server can send, the decoder's outcome is well
\* typed, agrees with the spec 3 reference on well-typed tuples, and is a
\* failure exactly when the size field is malformed.
THEOREM DecoderCorrect ==
    Spec => [](TupleTypeOK /\ DecodesPerSpec /\ FailsExactlyOnMalformedSize)
<1>1. IInv => TupleTypeOK /\ DecodesPerSpec /\ FailsExactlyOnMalformedSize
    <2> SUFFICES ASSUME IInv
                 PROVE  TupleTypeOK /\ DecodesPerSpec /\ FailsExactlyOnMalformedSize
        OBVIOUS
    <2>1. tup \in Seq(JsonValues)
        BY TuplesAreSeqs DEF IInv
    <2>2. TupleTypeOK
        BY <2>1, ParseType DEF IInv, TupleTypeOK
    <2>3. DecodesPerSpec
        BY <2>1, ParsePerSpec DEF IInv, DecodesPerSpec
    <2>4. FailsExactlyOnMalformedSize
        BY <2>1, ParseFails DEF IInv, FailsExactlyOnMalformedSize
    <2>5. QED
        BY <2>2, <2>3, <2>4
<1>2. QED
    BY <1>1, IInvInductive, PTL DEF Spec
=============================================================================

--------------------------- MODULE WorkspaceTuple ---------------------------
(***************************************************************************)
(* The workspace object tuple decoder (client.py, _parse_workspace_object) *)
(* offset by offset, against the decoding spec 3 describes.  A tuple is a  *)
(* sequence of abstract JSON values; Python's tuple_data[k] is t[k + 1].  *)
(***************************************************************************)
EXTENDS Naturals, Sequences

\* Abstract JSON values: None, 0, a positive integer, a numeric string
\* ("1024"), another non-empty string, "", and a non-empty or empty dict.
JsonValues == {"none", "zero", "int", "numstr", "text", "estr", "dict", "edict"}

\* Python truthiness of a value.
Truthy(x) == x \notin {"none", "zero", "estr", "edict"}

\* The values the remote protocol puts at each offset (spec 3), and the
\* malformed ones a size field can also carry.
SizeValues == {"none", "zero", "int", "numstr", "text", "estr", "dict"}
OffsetValues(k) ==
    IF k = 6 THEN SizeValues
    ELSE IF k \in {7, 8} THEN {"dict", "edict", "none"}
    ELSE IF k \in {9, 11} THEN {"text", "estr", "none"}
    ELSE {"text"}

MaxLen == 12

\* The full-length tuples, and every tuple as one of their prefixes.
FullTuples ==
    {<<"text", "text", "text", "text", "text", "text", size, user, auto, shock, "text", data>> :
        size \in OffsetValues(6), user \in OffsetValues(7), auto \in OffsetValues(8),
        shock \in OffsetValues(9), data \in OffsetValues(11)}
Tuples == UNION {{SubSeq(f, 1, n) : f \in FullTuples} : n \in 0..MaxLen}

\* str(x) of a present value is some string; "" is the decoder's default.
StrOf(x) == "str"

\* Mutant: a dict size reported as a KeyError, as if it were indexed.
IntErrorKeyed(x) ==
    IF x \in {"zero", "int", "numstr"} THEN "none"
    ELSE IF x = "dict" THEN "KeyError" ELSE "ValueError"

\* Mutant: a size string taken as numeric without checking its digits.
IntErrorLenient(x) == IF x = "dict" THEN "TypeError" ELSE "none"

\* int(x): integers and numeric strings convert, any other string ("" too)
\* raises ValueError and a dict TypeError.
IntError(x) ==
    IF x \in {"zero", "int", "numstr"} THEN "none"
    ELSE IF x = "dict" THEN "TypeError" ELSE "ValueError"

Object == [path : {"", "str"}, type : {"", "str"}, owner : {"", "str"},
           creation_time : {"", "str"}, id : {"", "str"}, size : {"0", "n"},
           user_metadata : JsonValues, auto_metadata : JsonValues,
           shock_ref : {"None", "str"}, data : {"None", "str"}]
Outcome == [ok : {TRUE}, obj : Object] \cup [ok : {FALSE}, err : {"ValueError", "TypeError"}]

\* Mutant: shock_ref read from the reserved offset 10 instead of 9.
ShockRefOffByOne(t) ==
    IF Len(t) > 10 /\ Truthy(t[11]) THEN StrOf(t[11]) ELSE "None"

\* shock_ref=str(tuple_data[9]) if len(tuple_data) > 9 and tuple_data[9] else None
ShockRef(t) ==
    IF Len(t) > 9 /\ Truthy(t[10]) THEN StrOf(t[10]) ELSE "None"

\* len(tuple_data) > 6 and tuple_data[6]: whether int() is called.
SizePresent(t) == Len(t) > 6 /\ Truthy(t[7])

\* _parse_workspace_object, lines 327-340: the fields in order; the first
\* exception (only int() of the size field can raise) ends the call.
ParseWorkspaceObject(t) ==
    LET str(k) == IF Len(t) > k THEN StrOf(t[k + 1]) ELSE ""
    IN  IF SizePresent(t) /\ IntError(t[7]) # "none"
        THEN [ok |-> FALSE, err |-> IntError(t[7])]
        ELSE [ok |-> TRUE,
              obj |-> [path |-> str(0), type |-> str(1), owner |-> str(2),
                       creation_time |-> str(3), id |-> str(4),
                       size |-> IF SizePresent(t) THEN "n" ELSE "0",
                       user_metadata |-> IF Len(t) > 7 THEN t[8] ELSE "edict",
                       auto_metadata |-> IF Len(t) > 8 THEN t[9] ELSE "edict",
                       shock_ref |-> ShockRef(t),
                       data |-> IF Len(t) > 11 /\ Truthy(t[12]) THEN StrOf(t[12]) ELSE "None"]]

\* The outcome before the decoder has run.
NotDecoded == [ok |-> FALSE, err |-> "none"]

VARIABLES
    tup,   \* the tuple the server sent
    out    \* the decoder's outcome, or NotDecoded

vars == <<tup, out>>

Init == tup \in Tuples /\ out = NotDecoded

\* One call of _parse_workspace_object (from workspace_get, ls, copy, move
\* or create).
Decode == out = NotDecoded /\ out' = ParseWorkspaceObject(tup) /\ UNCHANGED tup

Spec == Init /\ [][Decode]_vars

-----------------------------------------------------------------------------

TupleTypeOK == tup \in Tuples /\ out \in Outcome \cup {NotDecoded}

\* Spec 3: the field at offset k, or its default when the tuple is shorter.
Field(t, k, default) == IF Len(t) > k THEN t[k + 1] ELSE default

\* Spec 3 and 8: a tuple whose fields are well typed (size an integer or
\* numeric string, or null/0; metadata mappings) decodes without error, each
\* offset to its field and every omitted field to its default: "", size 0,
\* empty mappings, shock_ref and data absent.
WellTyped(t) ==
    /\ \A k \in {6} : Len(t) > k => t[k + 1] \in {"none", "zero", "int", "numstr"}
    /\ \A k \in {7, 8} : Len(t) > k => t[k + 1] \in {"dict", "edict"}

ReferenceObject(t) ==
    [path |-> IF Len(t) > 0 THEN "str" ELSE "", type |-> IF Len(t) > 1 THEN "str" ELSE "",
     owner |-> IF Len(t) > 2 THEN "str" ELSE "", creation_time |-> IF Len(t) > 3 THEN "str" ELSE "",
     id |-> IF Len(t) > 4 THEN "str" ELSE "",
     size |-> IF Truthy(Field(t, 6, "zero")) THEN "n" ELSE "0",
     user_metadata |-> Field(t, 7, "edict"), auto_metadata |-> Field(t, 8, "edict"),
     shock_ref |-> IF Truthy(Field(t, 9, "none")) THEN "str" ELSE "None",
     data |-> IF Truthy(Field(t, 11, "none")) THEN "str" ELSE "None"]

DecodesPerSpec ==
    out # NotDecoded /\ WellTyped(tup) => out = [ok |-> TRUE, obj |-> ReferenceObject(tup)]

\* Whatever the tuple's length, decoding never indexes past its end, and
\* the call to _parse_workspace_object (and with it the whole listing)
\* fails exactly when int() meets a present, truthy, non-numeric size.
FailsExactlyOnMalformedSize ==
    out # NotDecoded =>
        (~out.ok <=> Len(tup) > 6 /\ tup[7] \in {"text", "dict"})

=============================================================================

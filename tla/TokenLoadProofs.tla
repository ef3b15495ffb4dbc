--------------------------- MODULE TokenLoadProofs ---------------------------
(***************************************************************************)
(* Proofs about token resolution (_load_token): for every content of the *)
(* two environment variables and the three dotfiles, the token is the    *)
(* name of a source that holds one or "", and it is the token spec 6 resolves.  *)
(*                                                                         *)
(***************************************************************************)
EXTENDS TokenLoad, TLAPS

\* A dotfile's stripped content is that file's token or "".
LEMMA FileTokenType ==
    ASSUME NEW k \in 1..3, NEW c
    PROVE  Strip(Files[k], c) \in SourceNames \cup {NoToken}
<1>1. Files[k] \in SourceNames
    BY DEF Files, SourceNames
<1>2. QED
    BY <1>1 DEF Strip

\* _load_token returns the token of one of the five sources, or "": the
\* file it reads is one that exists, so Files[i] is defined.
LEMMA LoadTokenType ==
    ASSUME NEW e \in [1..2 -> EnvStates], NEW f \in [1..3 -> FileStates]
    PROVE  LoadToken(e, f) \in SourceNames \cup {NoToken}
<1> DEFINE envTok == IF Truthy(e[1]) THEN 1 ELSE 2
           readable == {i \in 1..3 : f[i] \in Contents}
           existing == {i \in 1..3 : f[i] # "absent"}
           first == {i \in readable : \A j \in existing : j < i => f[j] = "unreadable"}
<1>1. CASE Truthy(e[envTok])
    <2>1. envTok \in 1..2
        OBVIOUS
    <2>2. Strip(EnvVars[envTok], e[envTok]) \in SourceNames \cup {NoToken}
        BY <2>1 DEF Strip, EnvVars, SourceNames
    <2>3. QED
        BY <1>1, <2>2 DEF LoadToken
<1>2. CASE ~Truthy(e[envTok]) /\ first # {}
    <2> DEFINE i == CHOOSE k \in first : TRUE
    <2>0. i \in first
        BY <1>2
    <2>1. i \in 1..3
        BY <2>0
    <2>4. Strip(Files[i], f[i]) \in SourceNames \cup {NoToken}
        BY <2>1, FileTokenType
    <2>3. QED
        BY <1>2, <2>4 DEF LoadToken
<1>3. CASE ~Truthy(e[envTok]) /\ first = {}
    BY <1>3 DEF LoadToken
<1>4. QED
    BY <1>1, <1>2, <1>3

\* FirstOf picks the least element of a non-empty set of source positions:
\* the source that comes first in priority order.
LEMMA LeastOfThree ==
    ASSUME NEW S \in SUBSET (1..3), S # {}
    PROVE  /\ FirstOf(S) \in S
           /\ \A j \in S : FirstOf(S) <= j
<1>1. \E i \in S : \A j \in S : i <= j
    <2>1. CASE 1 \in S
        BY <2>1
    <2>2. CASE 1 \notin S /\ 2 \in S
        BY <2>2
    <2>3. CASE 1 \notin S /\ 2 \notin S
        <3>1. \A x \in S : x = 3
            BY <2>3
        <3>2. PICK x \in S : TRUE
            OBVIOUS
        <3>3. \A j \in S : x <= j
            BY <3>1
        <3>4. QED BY <3>2, <3>3
    <2>4. QED BY <2>1, <2>2, <2>3
<1>2. QED BY <1>1 DEF FirstOf

\* A set of positions holding position p has a first element no later
\* than p; holding 1, its first element is 1.
LEMMA FirstIsOne ==
    ASSUME NEW S \in SUBSET (1..3), 1 \in S
    PROVE  FirstOf(S) = 1
<1>1. FirstOf(S) \in S /\ FirstOf(S) <= 1
    BY LeastOfThree
<1>2. FirstOf(S) \in 1..3
    BY <1>1, Zenon
<1>3. QED BY <1>1, <1>2

\* A variable's content is a non-empty source exactly when Python finds it
\* truthy: "or" and "if token" test the raw value, before strip().
LEMMA TruthyNonEmpty ==
    ASSUME NEW c \in EnvStates
    PROVE  Truthy(c) <=> NonEmpty(c)
    BY DEF Truthy, NonEmpty, EnvStates, Contents

\* The stripped content of a source that is not a non-empty one is "".
LEMMA StripEmpty ==
    ASSUME NEW s, NEW c, ~NonEmpty(c) \/ c = "ws"
    PROVE  Strip(s, c) = NoToken
    BY DEF Strip, NonEmpty

\* The dotfile _load_token reads, once both variables are falsy: the first
\* existing file that can be read, every earlier existing one failing.
LEMMA FirstReadable ==
    ASSUME NEW f \in [1..3 -> FileStates],
           NEW k \in {i \in 1..3 : f[i] \in Contents},
           \A j \in {i \in 1..3 : f[i] \in Contents} : k <= j
    PROVE  {i \in {i2 \in 1..3 : f[i2] \in Contents} :
              \A j \in {j2 \in 1..3 : f[j2] # "absent"} : j < i => f[j] = "unreadable"} = {k}
<1> DEFINE R == {i \in 1..3 : f[i] \in Contents}
           E == {i \in 1..3 : f[i] # "absent"}
<1>1. k \in 1..3 /\ f[k] \in Contents
    OBVIOUS
<1>2. ASSUME NEW j \in 1..3, f[j] # "absent", j < k PROVE f[j] = "unreadable"
    <2>1. f[j] \notin Contents
        BY <1>2
    <2>2. f[j] \in FileStates
        OBVIOUS
    <2>3. QED BY <1>2, <2>1, <2>2 DEF FileStates
<1>3. k \in {i \in R : \A j \in E : j < i => f[j] = "unreadable"}
    BY <1>1, <1>2
<1>4. ASSUME NEW i \in R, \A j \in E : j < i => f[j] = "unreadable" PROVE i = k
    <2>1. k <= i
        BY <1>4
    <2>2. k \in E
        BY <1>1 DEF Contents
    <2>3. ~(k < i)
        BY <1>1, <1>4, <2>2 DEF Contents
    <2>4. QED BY <1>1, <2>1, <2>3
<1>5. QED BY <1>3, <1>4

\* _load_token computes spec 6's token, for every content of the sources.
LEMMA LoadTokenSpec ==
    ASSUME NEW e \in [1..2 -> EnvStates], NEW f \in [1..3 -> FileStates]
    PROVE  LoadToken(e, f) = SpecToken(e, f)
<1> DEFINE readable == {i \in 1..3 : f[i] \in Contents}
           existing == {i \in 1..3 : f[i] # "absent"}
           first == {i \in readable : \A j \in existing : j < i => f[j] = "unreadable"}
<1>0. /\ Truthy(e[1]) <=> NonEmpty(e[1])
      /\ Truthy(e[2]) <=> NonEmpty(e[2])
    BY TruthyNonEmpty
<1>a. /\ SpecSources(e, f)[1] = <<EnvVars[1], e[1]>>
      /\ SpecSources(e, f)[2] = <<EnvVars[2], e[2]>>
      /\ readable = {} => SpecSources(e, f)[3] = <<NoToken, "unset">>
      /\ readable # {} => SpecSources(e, f)[3] = <<Files[FirstOf(readable)], f[FirstOf(readable)]>>
    BY DEF SpecSources
<1>b. /\ NonEmptySources(e, f) \in SUBSET (1..3)
      /\ \A i \in 1..3 : i \in NonEmptySources(e, f) <=> NonEmpty(SpecSources(e, f)[i][2])
    BY DEF NonEmptySources
<1>c. NonEmptySources(e, f) # {} => SpecToken(e, f) = Strip(SpecSources(e, f)[FirstOf(NonEmptySources(e, f))][1], SpecSources(e, f)[FirstOf(NonEmptySources(e, f))][2])
    BY DEF SpecToken
<1>1. CASE NonEmpty(e[1])
    <2>1. LoadToken(e, f) = Strip(EnvVars[1], e[1])
        BY <1>0, <1>1 DEF LoadToken
    <2>2. 1 \in NonEmptySources(e, f)
        BY <1>1, <1>a, <1>b
    <2>3. FirstOf(NonEmptySources(e, f)) = 1
        BY <1>b, <2>2, FirstIsOne
    <2>4. QED BY <1>a, <1>c, <2>1, <2>2, <2>3
<1>2. CASE ~NonEmpty(e[1]) /\ NonEmpty(e[2])
    <2>1. LoadToken(e, f) = Strip(EnvVars[2], e[2])
        BY <1>0, <1>2 DEF LoadToken
    <2>2. 2 \in NonEmptySources(e, f) /\ 1 \notin NonEmptySources(e, f)
        BY <1>2, <1>a, <1>b
    <2>3. FirstOf(NonEmptySources(e, f)) = 2
        BY <1>b, <2>2, LeastOfThree
    <2>4. QED BY <1>a, <1>c, <2>1, <2>2, <2>3
<1>3. CASE ~NonEmpty(e[1]) /\ ~NonEmpty(e[2]) /\ readable = {}
    <2>1. first = {}
        BY <1>3
    <2>2. LoadToken(e, f) = NoToken
        BY <1>0, <1>3, <2>1 DEF LoadToken
    <2>3. NonEmptySources(e, f) = {}
        BY <1>3, <1>a, <1>b DEF NonEmpty
    <2>4. SpecToken(e, f) = NoToken
        BY <2>3 DEF SpecToken
    <2>5. QED BY <2>2, <2>4
<1>4. CASE ~NonEmpty(e[1]) /\ ~NonEmpty(e[2]) /\ readable # {}
    <2>0. PICK k \in 1..3 : k = FirstOf(readable)
        BY <1>4, LeastOfThree
    <2>1. k \in readable /\ \A j \in readable : k <= j
        BY <1>4, <2>0, LeastOfThree
    <2>2. first = {k}
        BY <2>1, FirstReadable
    <2>3. LoadToken(e, f) = Strip(Files[k], f[k])
        BY <1>0, <1>4, <2>2 DEF LoadToken
    <2>4. SpecSources(e, f)[3] = <<Files[k], f[k]>>
        BY <1>4, <1>a, <2>0
    <2>5. NonEmptySources(e, f) \subseteq {3}
        BY <1>4, <1>a, <1>b
    <2>6. CASE NonEmpty(f[k])
        <3>1. NonEmptySources(e, f) = {3}
            BY <1>b, <2>4, <2>5, <2>6
        <3>2. FirstOf(NonEmptySources(e, f)) = 3
            BY <1>b, <3>1, LeastOfThree
        <3>3. QED BY <1>c, <2>3, <2>4, <3>1, <3>2
    <2>7. CASE ~NonEmpty(f[k])
        <3>1. NonEmptySources(e, f) = {}
            BY <1>b, <2>4, <2>5, <2>7
        <3>2. SpecToken(e, f) = NoToken
            BY <3>1 DEF SpecToken
        <3>3. Strip(Files[k], f[k]) = NoToken
            BY <2>7, StripEmpty
        <3>4. QED BY <2>3, <3>2, <3>3
    <2>8. QED BY <2>6, <2>7
<1>5. QED BY <1>1, <1>2, <1>3, <1>4

\* The inductive invariant: before construction there is no token, after
\* it the token is what _load_token returns for the sources' contents.
IInv == TokenTypeOK /\ (token # "none" => token = LoadToken(env, files))

LEMMA IInvInductive == Spec => []IInv
<1>1. Init => IInv
    BY DEF Init, IInv, TokenTypeOK
<1>2. IInv /\ [Next]_vars => IInv'
    <2> SUFFICES ASSUME IInv, [Next]_vars PROVE IInv'
        OBVIOUS
    <2>1. CASE Construct
        BY <2>1, LoadTokenType DEF IInv, TokenTypeOK, Construct
    <2>2. CASE UNCHANGED vars
        BY <2>2 DEF IInv, TokenTypeOK, vars
    <2>3. QED
        BY <2>1, <2>2 DEF Next
<1>3. QED
    BY <1>1, <1>2, PTL DEF Spec

\* Every client, whatever its environment and dotfiles, ends with a token
\* of the expected kind, and with the token spec 6 resolves: the variables
\* before the files, the first existing dotfile even when it is empty, a
\* whitespace-only variable winning as "", and a file that cannot be read
\* passed over (client.py _load_token, lines 307-324).
THEOREM TokenLoadCorrect == Spec => [](TokenTypeOK /\ TokenPerSpec)
<1>1. IInv => TokenTypeOK /\ TokenPerSpec
    <2> SUFFICES ASSUME IInv PROVE TokenTypeOK /\ TokenPerSpec
        OBVIOUS
    <2>1. TokenTypeOK
        BY DEF IInv
    <2>2. token # "none" => token = SpecToken(env, files)
        BY <2>1, LoadTokenSpec DEF IInv, TokenTypeOK
    <2>3. QED
        BY <2>1, <2>2 DEF TokenPerSpec
<1>2. QED
    BY <1>1, IInvInductive, PTL
====

----------------------------- MODULE TokenLoad ------------------------------
(***************************************************************************)
(* Token resolution at client construction (client.py, _load_token and   *)
(* BVBRCClient.__init__).  The sources, in priority order, are two        *)
(* environment variables and three dotfiles under the home directory.    *)
(* A source's content is abstracted to what strip() and truthiness tell *)
(* apart; a non-blank token is identified by the source it came from.    *)
(***************************************************************************)
EXTENDS Naturals, Sequences

EnvVars == <<"BVBRC_TOKEN", "P3_AUTH_TOKEN">>
Files   == <<".bvbrc_token", ".patric_token", ".p3_token">>

\* Content of a variable or file: "empty" the empty string, "ws" whitespace
\* only, "tok" a token, "pad" a token with surrounding whitespace (e.g. a
\* newline).
Contents  == {"empty", "ws", "tok", "pad"}
EnvStates  == Contents \cup {"unset"}
FileStates == Contents \cup {"absent", "unreadable"}

\* The empty token: the client sends no Authorization header.
NoToken == ""

\* str.strip() of the content of source s: the token of s, or "".
Strip(s, c) == IF c \in {"tok", "pad"} THEN s ELSE NoToken

\* Unset or empty is falsy for "or"/"if"; whitespace is truthy.
Truthy(c) == c \notin {"unset", "empty"}

VARIABLES
    env,     \* value of each environment variable
    files,   \* state of each dotfile
    token    \* self.token, "none" before construction

vars == <<env, files, token>>

\* Mutant: a dotfile whose content strips to "" is passed over, as if
\* the loop read "if content.strip(): return content.strip()".
LoadTokenSkipsEmpty(e, f) ==
    LET envTok == IF Truthy(e[1]) THEN 1 ELSE 2
        withToken == {i \in 1..3 : f[i] \in {"tok", "pad"}}
    IN  IF Truthy(e[envTok]) THEN Strip(EnvVars[envTok], e[envTok])
        ELSE IF withToken # {} THEN Files[CHOOSE i \in withToken : \A j \in withToken : i <= j]
        ELSE NoToken

\* Mutant: the environment token is returned without strip().
LoadTokenUnstripped(e, f) ==
    LET envTok == IF Truthy(e[1]) THEN 1 ELSE 2
    IN  IF Truthy(e[envTok]) THEN e[envTok] ELSE NoToken

\* _load_token, lines 307-324:
\*   token = BVBRC_TOKEN or P3_AUTH_TOKEN; if token: return token.strip()
\*   then the first existing file is read and stripped; a read error
\*   (e.g. the file vanished after exists()) moves on to the next file.
LoadToken(e, f) ==
    LET envTok == IF Truthy(e[1]) THEN 1 ELSE 2
        readable == {i \in 1..3 : f[i] \in Contents}
        existing == {i \in 1..3 : f[i] # "absent"}
        \* index of the file whose read returns, if any: the first existing
        \* file that is readable, with every earlier existing file unreadable
        first == {i \in readable : \A j \in existing : j < i => f[j] = "unreadable"}
    IN  IF Truthy(e[envTok]) THEN Strip(EnvVars[envTok], e[envTok])
        ELSE IF first # {} THEN LET i == CHOOSE k \in first : TRUE
                                IN  Strip(Files[i], f[i])
        ELSE NoToken

\* __init__: self.token = token or _load_token() (no explicit token here).
Init ==
    /\ env \in [1..2 -> EnvStates]
    /\ files \in [1..3 -> FileStates]
    /\ token = "none"

Construct ==
    /\ token = "none"
    /\ token' = LoadToken(env, files)
    /\ UNCHANGED <<env, files>>

Next == Construct

Spec == Init /\ [][Next]_vars

-----------------------------------------------------------------------------

SourceNames == {EnvVars[1], EnvVars[2], Files[1], Files[2], Files[3]}

TokenTypeOK ==
    /\ env \in [1..2 -> EnvStates]
    /\ files \in [1..3 -> FileStates]
    /\ token \in SourceNames \cup {NoToken, "none"}

\* A variable or file is a non-empty source when it holds some character,
\* whitespace included: spec 6 trims only the source that won.
NonEmpty(c) == c \in {"ws", "tok", "pad"}

\* The source that comes first, in priority order, of a set of positions.
FirstOf(S) == CHOOSE i \in S : \A j \in S : i <= j

\* The sources of spec 6 in priority order, each as its name and content:
\* the primary and the secondary environment variable, and the first
\* existing dotfile.  The spec does not speak of a dotfile that exists but
\* cannot be read; like the code (except: continue), it is passed over.
SpecSources(e, f) ==
    LET readable == {i \in 1..3 : f[i] \in Contents}
    IN  << <<EnvVars[1], e[1]>>, <<EnvVars[2], e[2]>>,
           IF readable = {} THEN <<NoToken, "unset">>
           ELSE <<Files[FirstOf(readable)], f[FirstOf(readable)]>> >>

\* The positions of the non-empty sources.
NonEmptySources(e, f) == {i \in 1..3 : NonEmpty(SpecSources(e, f)[i][2])}

\* The token of spec 6: the first non-empty source wins and is trimmed;
\* no such source gives "".
SpecToken(e, f) ==
    IF NonEmptySources(e, f) = {} THEN NoToken
    ELSE LET w == FirstOf(NonEmptySources(e, f))
         IN  Strip(SpecSources(e, f)[w][1], SpecSources(e, f)[w][2])

\* Spec 6 against _load_token (client.py 307-324), for every content of the
\* two variables and the three dotfiles: the environment beats the files,
\* an empty first existing dotfile ends the search (it does not fall
\* through to a later file), a whitespace-only variable wins and strips to
\* the unauthenticated "", and a file that vanishes or cannot be read
\* between exists() and read_text() hands over to the next file.
TokenPerSpec ==
    token # "none" => token = SpecToken(env, files)

====

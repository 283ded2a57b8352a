---------------------------- MODULE RequestGate ----------------------------
(***************************************************************************)
(* The way of a request to its handler: the CORS layer, the CSRF check     *)
(* (csrf.rs), and require_auth or optional_auth (auth.rs), in the order in *)
(* which lib.rs stacks them, under every configuration of origins the      *)
(* server starts with.  Two checks that know nothing of each other decide  *)
(* together: csrf.rs lets a request without Origin and Referer pass if it  *)
(* has a Bearer token, and auth.rs decides which token counts.             *)
(*                                                                         *)
(* Requests share nothing but the immutable list of allowed origins, so    *)
(* one at a time is enough.                                                *)
(***************************************************************************)
EXTENDS Naturals

CONSTANTS
    Hosts,
    Urls,          \* the URLs that appear in headers and in the config
    Star,          \* "*": any origin, as a setting; no URL, as a header
    Configs,       \* the origin settings the deployments use
    Users,         \* users; also the valid token of each
    Forged,        \* a token that does not verify
    Unreadable,    \* a header value to_str() refuses
    Basic,         \* an Authorization header that is not "Bearer .."
    None           \* no such header, or not configured

\* A URL in lower case.  odd: the authority holds '@', '\', whitespace or a
\* control character, or is empty; tail: a path, query or fragment follows.
Url == [scheme : {"https", "http", "other"}, host : Hosts,
        port : Nat \cup {None}, odd : BOOLEAN, tail : BOOLEAN]

Tokens == Users \cup {Forged}
Values == Urls \cup {Star}

\* csrf_origins, if it is set at all, and cors_origins
Config == [set : BOOLEAN, csrf : SUBSET Values, cors : SUBSET Values]

ASSUME GateAssumption ==
    /\ Configs \subseteq Config
    /\ Urls \subseteq Url
    /\ None \notin Nat
    /\ Forged \notin Users
    /\ \A v \in {Star, Unreadable, None} : v \notin Urls
    /\ Star # None /\ Star # Unreadable /\ Unreadable # None
    /\ \A v \in {Unreadable, Basic, None} : v \notin Tokens

VARIABLES
    config,        \* the origin settings of the server
    allowed,       \* CsrfGuard.allowed
    pc,            \* "down", or how far the request has come
    req,           \* the request
    grant,         \* who may read the answer: the CORS headers it will carry
    claims         \* the user the handler runs for, or None

vars == <<config, allowed, pc, req, grant, claims>>

\* What the routes ask of a request: reads of comments look at a token if
\* there is one, the other reads do not, all writes need one.
Routes == {<<"read", "none">>, <<"read", "optional">>,
           <<"preflight", "none">>, <<"write", "required">>}

Request == [method : {"read", "preflight", "write"},
            auth : {"none", "optional", "required"},
            origin : Values \cup {None, Unreadable},
            referer : Values \cup {None, Unreadable},
            authorization : Tokens \cup {Basic, Unreadable, None},
            cookie : Tokens \cup {None}]        \* auth_access

-----------------------------------------------------------------------------
Http(v) == v \in Urls /\ v.scheme # "other" /\ ~v.odd

DefaultPort(scheme) == IF scheme = "https" THEN 443 ELSE 80

\* Mutant: the default port stays.
NormalizeVerbatim(v) ==
    IF ~Http(v) THEN None
    ELSE [scheme |-> v.scheme, host |-> v.host, port |-> v.port]

normalize_origin(v) ==
    IF ~Http(v) THEN None
    ELSE [scheme |-> v.scheme, host |-> v.host,
          port |-> IF v.port = DefaultPort(v.scheme) THEN None ELSE v.port]

Origin == [scheme : {"https", "http"}, host : Hosts, port : Nat \cup {None}]

ASSUME NullAssumption == None \notin Origin /\ None \notin Request

\* Mutant: without csrf_origins nobody is allowed.
NoFallback(c) == c.csrf

effective_csrf_origins(c) ==
    IF c.set THEN c.csrf ELSE c.cors \ {Star}

Init == /\ config \in Configs
        /\ allowed = {}
        /\ pc = "down"
        /\ req = None
        /\ grant = "nobody"
        /\ claims = None

\* build_cors panics if "*" is one of several cors_origins.
CorsBuilds(c) == Star \in c.cors => c.cors = {Star}

\* Mutant: in Start, origins that do not normalize are kept as they are.
NewLenient ==
    /\ pc = "down"
    /\ CorsBuilds(config)
    /\ allowed' = {normalize_origin(o) : o \in effective_csrf_origins(config)}
    /\ pc' = "idle"
    /\ UNCHANGED <<config, req, grant, claims>>

\* `app`: a list that CorsLayer does not take, or an origin in CsrfGuard::new
\* that is none, keeps the server from starting.
Start ==
    LET origins == effective_csrf_origins(config) IN
    /\ pc = "down"
    /\ CorsBuilds(config)
    /\ \A o \in origins : normalize_origin(o) # None
    /\ allowed' = {normalize_origin(o) : o \in origins}
    /\ pc' = "idle"
    /\ UNCHANGED <<config, req, grant, claims>>

\* The server stops; the next one may have another configuration.
Stop(c) ==
    /\ config' = c
    /\ allowed' = {} /\ pc' = "down" /\ req' = None
    /\ grant' = "nobody" /\ claims' = None

Arrive(q) ==
    /\ pc = "idle"
    /\ <<q.method, q.auth>> \in Routes
    /\ req' = q
    /\ pc' = "cors"
    /\ UNCHANGED <<config, allowed, grant, claims>>

\* "*" alone lets every page read what is there for everybody; an origin on
\* the list, as it is written there, may also read what the cookie gets.
Grant(v) == IF config.cors = {Star} THEN "anybody"
            ELSE IF v \in config.cors THEN "page" ELSE "nobody"

\* CorsLayer answers preflights itself and adds its headers to the answers
\* the inner layers give to the rest.
Cors ==
    /\ pc = "cors"
    /\ grant' = Grant(req.origin)
    /\ pc' = IF req.method = "preflight" THEN "answered" ELSE "csrf"
    /\ UNCHANGED <<config, allowed, req, claims>>

is_allowed(v) ==
    /\ v # Unreadable
    /\ normalize_origin(v) # None
    /\ normalize_origin(v) \in allowed

HasBearer(q) == q.authorization \in Tokens

\* Mutant: any Authorization header will do.
CheckAnyToken(q) ==
    \/ q.method # "write"
    \/ q.origin # None /\ is_allowed(q.origin)
    \/ q.origin = None /\ q.referer # None /\ is_allowed(q.referer)
    \/ q.origin = None /\ q.referer = None /\ q.authorization # None

\* CsrfGuard::check
check(q) ==
    \/ q.method # "write"
    \/ q.origin # None /\ is_allowed(q.origin)
    \/ q.origin = None /\ q.referer # None /\ is_allowed(q.referer)
    \/ q.origin = None /\ q.referer = None /\ HasBearer(q)

Csrf ==
    /\ pc = "csrf"
    /\ pc' = IF check(req) THEN "auth" ELSE "refused"
    /\ UNCHANGED <<config, allowed, req, grant, claims>>

\* Mutant: a Bearer token that does not verify gives way to the cookie.
TokenThatVerifies(q) ==
    IF q.authorization \in Users THEN q.authorization ELSE q.cookie

\* The Bearer token if there is one, else the cookie.
extract_token(q) == IF HasBearer(q) THEN q.authorization ELSE q.cookie

verify(token) == IF token \in Users THEN token ELSE None

\* require_auth, optional_auth or none; the handler runs, or 401.
Auth ==
    LET user == verify(extract_token(req)) IN
    /\ pc = "auth"
    /\ IF req.auth = "required" /\ user = None
       THEN pc' = "refused" /\ claims' = claims
       ELSE /\ pc' = "handler"
            /\ claims' = IF req.auth = "none" THEN None ELSE user
    /\ UNCHANGED <<config, allowed, req, grant>>

Finish ==
    /\ pc \in {"answered", "refused", "handler"}
    /\ pc' = "idle" /\ req' = None /\ grant' = "nobody" /\ claims' = None
    /\ UNCHANGED <<config, allowed>>

Next ==
    \/ Start \/ Cors \/ Csrf \/ Auth \/ Finish
    \/ \E q \in Request : Arrive(q)
    \/ \E c \in Configs : Stop(c)

Spec == Init /\ [][Next]_vars

-----------------------------------------------------------------------------
TypeOK ==
    /\ config \in Configs
    /\ allowed \subseteq Origin
    /\ pc \in {"down", "idle", "cors", "csrf", "auth", "handler", "refused",
               "answered"}
    /\ req \in Request \cup {None}
    /\ pc \in {"cors", "csrf", "auth", "handler", "refused"} => req # None
    /\ grant \in {"nobody", "anybody", "page"}
    /\ claims \in Users \cup {None}

\* The same scheme, host and port in the sense of URLs.
Port(v) == IF v.port = None THEN DefaultPort(v.scheme) ELSE v.port
SameOrigin(v, w) == /\ Http(v) /\ Http(w)
                    /\ v.scheme = w.scheme /\ v.host = w.host
                    /\ Port(v) = Port(w)

\* The configured site an address belongs to.
OnSite(v) == \E o \in effective_csrf_origins(config) : SameOrigin(v, o)

\* Where the request says it comes from.
Source(q) == IF q.origin # None THEN q.origin ELSE q.referer

(***************************************************************************)
(* A write that runs on the strength of the cookie comes from a page of a  *)
(* configured site: same scheme, host and port, whatever other headers it  *)
(* carries.  (What csrf.rs:1-17 sets out to do; it takes csrf.rs and       *)
(* auth.rs to agree on which requests have a Bearer token.)                *)
(***************************************************************************)
CookieWritesFromSite ==
    pc = "handler" /\ req.method = "write" /\ ~HasBearer(req) =>
       OnSite(Source(req))

(***************************************************************************)
(* A write runs for somebody, and nobody acts for two: with a Bearer token *)
(* the handler runs for its user or for nobody, never for the user of the  *)
(* cookie.                                                                 *)
(***************************************************************************)
OneIdentity ==
    pc = "handler" =>
       /\ req.method = "write" => claims # None
       /\ HasBearer(req) => claims \in {req.authorization, None}

(***************************************************************************)
(* Nobody is turned away without cause: a request is refused only if its   *)
(* token does not verify, or if it writes and comes from elsewhere or from *)
(* nowhere without a Bearer token.  In particular writing an origin with   *)
(* its default port, or with a path, makes no difference.                  *)
(***************************************************************************)
RefusedForCause ==
    pc = "refused" =>
       \/ verify(extract_token(req)) = None
       \/ /\ req.method = "write"
          /\ ~OnSite(Source(req))
          /\ Source(req) = None => ~HasBearer(req)

(***************************************************************************)
(* The two origin checks fit together: a page whose origin is listed in    *)
(* cors_origins gets to read every answer, refusals too ("403s carry CORS  *)
(* headers", lib.rs:158), and where csrf_origins is left out, what one     *)
(* check lets through the other does not stop, although CORS compares      *)
(* origins as they are written and CSRF after normalizing them.            *)
(***************************************************************************)
ListedSiteServed ==
    /\ pc \in {"answered", "refused", "handler"}
    /\ req.origin \in config.cors \ {Star}
    => /\ grant = "page"
       /\ pc = "refused" /\ ~config.set => verify(extract_token(req)) = None
=============================================================================

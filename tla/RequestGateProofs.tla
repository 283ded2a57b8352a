------------------------- MODULE RequestGateProofs -------------------------
(***************************************************************************)
(* For every set of addresses, every configuration and every request:      *)
(* cookies write only from the configured site, and no handler acts for    *)
(* anybody but the user of the token that counts.                          *)
(***************************************************************************)
EXTENDS RequestGate, TLAPS

\* What a request past the CSRF check, and past authentication, has shown;
\* what one that was refused lacks; and what CORS has said of it.
Checked == pc \in {"auth", "handler"} => check(req)

Refused == pc = "refused" => \/ ~check(req)
                             \/ verify(extract_token(req)) = None

Granted == pc \in {"csrf", "auth", "handler", "refused", "answered"} =>
              grant = Grant(req.origin)

Authenticated ==
    pc = "handler" =>
       /\ req.auth = "none" => claims = None
       /\ req.auth # "none" => claims = verify(extract_token(req))
       /\ req.auth = "required" => claims # None

Guarded ==
    /\ pc # "down" => allowed = {normalize_origin(o) :
                                   o \in effective_csrf_origins(config)}
    /\ pc \in {"cors", "csrf", "auth", "handler"} =>
          <<req.method, req.auth>> \in Routes
    /\ Checked
    /\ Authenticated
    /\ Refused
    /\ Granted
    /\ config \in Configs
    /\ pc # "down" => /\ CorsBuilds(config)
                      /\ \A o \in effective_csrf_origins(config) :
                            normalize_origin(o) # None

(***************************************************************************)
(* normalize_origin is sound: two addresses with the same normal form have *)
(* the same scheme, host and port.                                         *)
(***************************************************************************)
LEMMA NormalFormSound ==
    ASSUME NEW v, NEW w, normalize_origin(v) # None,
           normalize_origin(v) = normalize_origin(w)
    PROVE  SameOrigin(v, w)
<1>1. Http(v) /\ Http(w)
  BY DEF normalize_origin
<1>2. normalize_origin(v).scheme = v.scheme /\ normalize_origin(v).host = v.host
      /\ normalize_origin(v).port =
           IF v.port = DefaultPort(v.scheme) THEN None ELSE v.port
  BY <1>1 DEF normalize_origin
<1>3. normalize_origin(w).scheme = w.scheme /\ normalize_origin(w).host = w.host
      /\ normalize_origin(w).port =
           IF w.port = DefaultPort(w.scheme) THEN None ELSE w.port
  BY <1>1 DEF normalize_origin
<1>4. v.scheme = w.scheme /\ v.host = w.host
  BY <1>2, <1>3
<1>5. Port(v) = Port(w)
  BY <1>2, <1>3, <1>4 DEF Port
<1> QED
  BY <1>1, <1>4, <1>5 DEF SameOrigin

LEMMA GuardedInit == Init => Guarded
BY DEF Init, Guarded, Checked, Authenticated, Refused, Granted

LEMMA GuardedStep == Guarded /\ [Next]_vars => Guarded'
<1> SUFFICES ASSUME Guarded, [Next]_vars PROVE Guarded'
  OBVIOUS
<1>1. CASE Start
  BY <1>1 DEF Start, Guarded, Checked, Authenticated, Refused, Granted
<1>2. ASSUME NEW c \in Configs, Stop(c) PROVE Guarded'
  BY <1>2 DEF Stop, Guarded, Checked, Authenticated, Refused, Granted
<1>3. ASSUME NEW q \in Request, Arrive(q) PROVE Guarded'
  BY <1>3 DEF Arrive, Guarded, Checked, Authenticated, Refused, Granted
<1>4. CASE Cors
  BY <1>4 DEF Cors, Guarded, Checked, Authenticated, Refused, Granted, Grant
<1>5. CASE Csrf
  BY <1>5 DEF Csrf, Guarded, Checked, Authenticated, Refused, Granted, Grant,
     check, is_allowed
<1>6. CASE Auth
  <2>1. check(req)'
    BY <1>6 DEF Auth, Guarded, Checked, check, is_allowed
  <2>2. Authenticated'
    BY <1>6 DEF Auth, Guarded, Authenticated
  <2>3. Refused' /\ Granted'
    BY <1>6 DEF Auth, Guarded, Refused, Granted, Grant
  <2> QED
    BY <1>6, <2>1, <2>2, <2>3 DEF Auth, Guarded, Checked
<1>7. CASE Finish
  BY <1>7 DEF Finish, Guarded, Checked, Authenticated, Refused, Granted
<1>8. CASE UNCHANGED vars
  BY <1>8 DEF vars, Guarded, Checked, Authenticated, Refused, Granted, Grant,
     check, is_allowed
<1> QED
  BY <1>1, <1>2, <1>3, <1>4, <1>5, <1>6, <1>7, <1>8 DEF Next

LEMMA AlwaysGuarded == Spec => []Guarded
BY GuardedInit, GuardedStep, PTL DEF Spec

\* An address the guard allows is on the configured site.
LEMMA AllowedOnSite ==
    ASSUME Guarded, pc # "down", NEW v, is_allowed(v)
    PROVE  OnSite(v)
<1>1. PICK o \in effective_csrf_origins(config) :
         normalize_origin(v) = normalize_origin(o)
  BY DEF Guarded, is_allowed
<1> QED
  BY <1>1, NormalFormSound DEF OnSite, is_allowed

(***************************************************************************)
(* A write that runs on the strength of the cookie comes from a configured *)
(* site, for every configuration and every combination of headers.         *)
(***************************************************************************)
THEOREM CookieWritesSafe == Spec => []CookieWritesFromSite
<1>1. Guarded => CookieWritesFromSite
  <2> SUFFICES ASSUME Guarded, pc = "handler", req.method = "write",
                      ~HasBearer(req)
               PROVE  OnSite(Source(req))
    BY DEF CookieWritesFromSite
  <2>1. check(req)
    BY DEF Guarded, Checked
  <2>2. CASE req.origin # None
    BY <2>1, <2>2, AllowedOnSite DEF check, Source
  <2>3. CASE req.origin = None
    BY <2>1, <2>3, AllowedOnSite DEF check, Source
  <2> QED
    BY <2>2, <2>3
<1> QED
  BY <1>1, AlwaysGuarded, PTL

(***************************************************************************)
(* Every write runs for somebody, and a Bearer token never gives way to    *)
(* the cookie's user.                                                      *)
(***************************************************************************)
THEOREM NobodyActsForTwo == Spec => []OneIdentity
<1>1. Guarded => OneIdentity
  <2> SUFFICES ASSUME Guarded, pc = "handler" PROVE OneIdentity
    BY DEF OneIdentity
  <2>1. req.method = "write" => req.auth = "required"
    BY DEF Guarded, Routes
  <2>2. HasBearer(req) => extract_token(req) = req.authorization
    BY DEF extract_token
  <2> QED
    BY <2>1, <2>2 DEF Guarded, Authenticated, OneIdentity, verify
<1> QED
  BY <1>1, AlwaysGuarded, PTL

-----------------------------------------------------------------------------
\* Only Http addresses have a normal form, and it is an origin.
LEMMA NormalForm ==
    ASSUME NEW v, Http(v)
    PROVE  normalize_origin(v) \in Origin /\ normalize_origin(v) # None
<1>1. v \in Url /\ v.scheme \in {"https", "http"}
  BY GateAssumption DEF Http, Url
<1>2. normalize_origin(v) \in Origin
  BY <1>1 DEF normalize_origin, Origin, Url
<1> QED
  BY <1>2, NullAssumption

(***************************************************************************)
(* normalize_origin is complete: two addresses with the same scheme, host  *)
(* and port have the same normal form, written with the default port or    *)
(* without.                                                                *)
(***************************************************************************)
LEMMA NormalFormComplete ==
    ASSUME NEW v, NEW w, SameOrigin(v, w)
    PROVE  normalize_origin(v) = normalize_origin(w)
<1>1. /\ Http(v) /\ Http(w) /\ v.scheme = w.scheme /\ v.host = w.host
      /\ Port(v) = Port(w)
  BY DEF SameOrigin
<1>2. DefaultPort(v.scheme) # None
  BY GateAssumption DEF DefaultPort
<1>3. (IF v.port = DefaultPort(v.scheme) THEN None ELSE v.port) =
      (IF w.port = DefaultPort(w.scheme) THEN None ELSE w.port)
  BY <1>1, <1>2 DEF Port
<1> QED
  BY <1>1, <1>3 DEF normalize_origin

\* So the guard allows every address on a configured site.
LEMMA OnSiteAllowed ==
    ASSUME Guarded, pc # "down", NEW v, OnSite(v)
    PROVE  is_allowed(v)
<1>1. PICK o \in effective_csrf_origins(config) : SameOrigin(v, o)
  BY DEF OnSite
<1>2. v # Unreadable /\ Http(v)
  BY <1>1, GateAssumption DEF SameOrigin, Http
<1> QED
  BY <1>1, <1>2, NormalForm, NormalFormComplete DEF Guarded, is_allowed

(***************************************************************************)
(* Nobody is turned away without cause: a refused request has no valid     *)
(* token, or writes and comes from elsewhere, or from nowhere without a    *)
(* Bearer token.                                                           *)
(***************************************************************************)
THEOREM NobodyRefusedWithoutCause == Spec => []RefusedForCause
<1>1. Guarded => RefusedForCause
  <2> SUFFICES ASSUME Guarded, pc = "refused", ~check(req)
               PROVE  /\ req.method = "write"
                      /\ ~OnSite(Source(req))
                      /\ Source(req) = None => ~HasBearer(req)
    BY DEF Guarded, Refused, RefusedForCause
  <2>1. ~is_allowed(Source(req)) \/ Source(req) = None
    BY DEF check, Source
  <2>2. ~OnSite(None)
    BY GateAssumption DEF OnSite, SameOrigin, Http
  <2>3. Source(req) = None => ~HasBearer(req)
    BY DEF check, Source
  <2> QED
    BY <2>1, <2>2, <2>3, OnSiteAllowed DEF check
<1> QED
  BY <1>1, AlwaysGuarded, PTL

(***************************************************************************)
(* CORS and the CSRF check fit together: a page of a listed origin may     *)
(* read every answer, and without csrf_origins only its token can be the   *)
(* reason for a refusal.                                                   *)
(***************************************************************************)
THEOREM ListedSitesServed == Spec => []ListedSiteServed
<1>1. Guarded => ListedSiteServed
  <2> SUFFICES ASSUME Guarded, pc \in {"answered", "refused", "handler"},
                      req.origin \in config.cors \ {Star}
               PROVE  /\ grant = "page"
                      /\ pc = "refused" /\ ~config.set =>
                            verify(extract_token(req)) = None
    BY DEF ListedSiteServed
  <2>1. config.cors # {Star}
    OBVIOUS
  <2>2. grant = "page"
    BY <2>1 DEF Guarded, Granted, Grant
  <2>3. ASSUME pc = "refused", ~config.set
        PROVE  verify(extract_token(req)) = None
    <3>1. req.origin \in Urls
      BY GateAssumption DEF Guarded, Config, Values
    <3>2. req.origin # Unreadable /\ req.origin # None
      BY <3>1, GateAssumption
    <3>3. req.origin \in effective_csrf_origins(config)
      BY <2>3 DEF effective_csrf_origins
    <3>4. is_allowed(req.origin)
      BY <3>2, <3>3 DEF Guarded, is_allowed
    <3>5. check(req)
      BY <3>2, <3>4 DEF check
    <3> QED
      BY <2>3, <3>5 DEF Guarded, Refused
  <2> QED
    BY <2>2, <2>3
<1> QED
  BY <1>1, AlwaysGuarded, PTL

(***************************************************************************)
(* The variables keep their types.                                         *)
(***************************************************************************)
THEOREM GateTyped == Spec => []TypeOK
<1>1. Init => TypeOK
  BY DEF Init, TypeOK
<1>2. TypeOK /\ [Next]_vars => TypeOK'
  <2> SUFFICES ASSUME TypeOK, [Next]_vars PROVE TypeOK'
    OBVIOUS
  <2> USE DEF TypeOK
  <2>1. CASE Start
    <3>1. allowed' \subseteq Origin
      BY <2>1, NormalForm DEF Start, normalize_origin
    <3> QED
      BY <2>1, <3>1 DEF Start
  <2>2. ASSUME NEW c \in Configs, Stop(c) PROVE TypeOK'
    BY <2>2 DEF Stop
  <2>3. ASSUME NEW q \in Request, Arrive(q) PROVE TypeOK'
    BY <2>3, NullAssumption DEF Arrive
  <2>4. CASE Cors
    BY <2>4 DEF Cors, Grant
  <2>5. CASE Csrf
    BY <2>5 DEF Csrf
  <2>6. CASE Auth
    BY <2>6 DEF Auth, verify
  <2>7. CASE Finish
    BY <2>7 DEF Finish
  <2>8. CASE UNCHANGED vars
    BY <2>8 DEF vars
  <2> QED
    BY <2>1, <2>2, <2>3, <2>4, <2>5, <2>6, <2>7, <2>8 DEF Next
<1> QED
  BY <1>1, <1>2, PTL DEF Spec
=============================================================================

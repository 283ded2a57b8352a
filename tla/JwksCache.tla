----------------------------- MODULE JwksCache -----------------------------
(***************************************************************************)
(* The signing keys of riley-auth as the server sees them (auth.rs): a     *)
(* fetch before the server starts to listen, then a background task that   *)
(* fetches them again and sleeps an hour, for ever.  riley-auth rotates    *)
(* its keys whenever it likes.                                             *)
(***************************************************************************)
EXTENDS Integers

CONSTANTS
    Signing,       \* keys the server can use: EC or RSA, and not use = "enc"
    Other          \* keys it skips

ASSUME JwksAssumption == Signing \cap Other = {}

VARIABLES
    phase,         \* "down", "starting" or "up": how far `serve` has come
    published,     \* what the JWKS endpoint serves
    cache,         \* JwksCache.keys
    fetch,         \* of `serve` and of the refresh task: where refresh() is
    got,           \* the usable keys of the response it holds
    \* History, not in the code:
    since,         \* keys published at some time since the last refresh
    recent         \* the same, at the moment of the last refresh

vars == <<phase, published, cache, fetch, got, since, recent>>

Fetchers == {"serve", "task"}

\* Mutant: keys the server can not use are kept.
AllPublished == published

Usable == published \cap Signing

Init == /\ phase = "down"
        /\ published \in SUBSET (Signing \cup Other)
        /\ cache = {}
        /\ fetch = [f \in Fetchers |-> "none"]
        /\ got = [f \in Fetchers |-> {}]
        /\ since = published /\ recent = {}

-----------------------------------------------------------------------------
\* riley-auth rotates, adds or withdraws keys.
Publish(S) ==
    /\ published' = S
    /\ since' = since \cup S
    /\ UNCHANGED <<phase, cache, fetch, got, recent>>

\* Mutant: the task is spawned before the first fetch is back.
SpawnedEarly == "asking"

\* The refresh task before the first fetch is back.
SpawnedAtStart == "none"

\* serve begins with refresh().
Start ==
    /\ phase = "down"
    /\ phase' = "starting"
    /\ cache' = {}
    /\ fetch' = [f \in Fetchers |-> IF f = "serve" THEN "asking"
                                    ELSE SpawnedAtStart]
    /\ since' = published
    /\ UNCHANGED <<published, got, recent>>

\* The response arrives: the keys as they are published at this moment.
Reply(f) ==
    /\ fetch[f] = "asking"
    /\ fetch' = [fetch EXCEPT ![f] = "replied"]
    /\ got' = [got EXCEPT ![f] = Usable]
    /\ UNCHANGED <<phase, published, cache, since, recent>>

\* Mutant: the task gives up after an error.
StopsTask == [fetch EXCEPT !["task"] = "none"]

Sleeps == [fetch EXCEPT !["task"] = "sleeping"]

\* refresh() returns an error: serve gives up, the task only logs it.
Fails(f) ==
    /\ IF f = "serve"
       THEN /\ phase' = "down"
            /\ fetch' = [g \in Fetchers |-> "none"]
       ELSE phase' = phase /\ fetch' = Sleeps
    /\ UNCHANGED <<published, cache, got, since, recent>>

\* Connection refused or lost, or a response that is not a JWKS.
FetchFails(f) == fetch[f] = "asking" /\ Fails(f)

\* Mutant: an empty key set replaces the old keys.
AnyKeys(S) == TRUE

SomeKeys(S) == S # {}

\* The keys are replaced, unless there are none.
Replace(f) ==
    /\ fetch[f] = "replied"
    /\ IF SomeKeys(got[f])
       THEN /\ cache' = got[f]
            /\ recent' = since /\ since' = published
            /\ IF f = "serve"
               THEN /\ phase' = "up"
                    /\ fetch' = [serve |-> "none", task |-> "asking"]
               ELSE phase' = phase /\ fetch' = Sleeps
            /\ UNCHANGED <<published, got>>
       ELSE Fails(f)

\* An hour has passed.
Wake ==
    /\ fetch["task"] = "sleeping"
    /\ fetch' = [fetch EXCEPT !["task"] = "asking"]
    /\ UNCHANGED <<phase, published, cache, got, since, recent>>

\* The server is stopped or crashes.
Stop ==
    /\ phase # "down"
    /\ phase' = "down"
    /\ fetch' = [f \in Fetchers |-> "none"]
    /\ UNCHANGED <<published, cache, got, since, recent>>

Next ==
    \/ \E S \in SUBSET (Signing \cup Other) : Publish(S)
    \/ Start \/ Wake \/ Stop
    \/ \E f \in Fetchers : Reply(f) \/ FetchFails(f) \/ Replace(f)

Spec == Init /\ [][Next]_vars

(***************************************************************************)
(* What the code's own scheduling gives: tokio runs a task whose response  *)
(* has arrived or whose hour is over.  It does not give an answer from     *)
(* riley-auth: the client has no timeout.                                  *)
(***************************************************************************)
OwnFairness == WF_vars(Wake) /\ \A f \in Fetchers : WF_vars(Replace(f))

CodeSpec == Spec /\ OwnFairness

(***************************************************************************)
(* A network in which no request hangs for ever and not every one fails.   *)
(***************************************************************************)
NetworkFairness ==
    \A f \in Fetchers : /\ WF_vars(Reply(f) \/ FetchFails(f))
                        /\ SF_vars(Reply(f))

FairSpec == Spec /\ OwnFairness /\ NetworkFairness

-----------------------------------------------------------------------------
(***************************************************************************)
(* verify: what a well-formed, unexpired token signed with key k gets.     *)
(***************************************************************************)
Verify(k) == IF cache = {} THEN "503"
             ELSE IF k \in cache THEN "ok" ELSE "401"

TypeOK ==
    /\ phase \in {"down", "starting", "up"}
    /\ published \subseteq Signing \cup Other
    /\ cache \subseteq Signing
    /\ fetch \in [Fetchers -> {"none", "asking", "replied", "sleeping"}]
    /\ got \in [Fetchers -> SUBSET Signing]
    /\ since \subseteq Signing \cup Other
    /\ recent \subseteq Signing \cup Other

(***************************************************************************)
(* A server that takes requests always has keys to check tokens with: no   *)
(* request is ever answered with "auth keys not loaded", whatever          *)
(* riley-auth serves or however its endpoint fails.                        *)
(***************************************************************************)
NeverWithoutKeys == phase = "up" => \A k \in Signing : Verify(k) # "503"

(***************************************************************************)
(* Refreshes take effect in the order they were made: a key the server     *)
(* accepts was published at some time after the refresh before last, so a  *)
(* late response can not bring back a key that a newer one had dropped.    *)
(***************************************************************************)
RefreshesInOrder == phase = "up" => cache \subseteq recent

(***************************************************************************)
(* Key rotation reaches the server: once riley-auth settles on a set of    *)
(* keys, a server that stays up ends up accepting just these.              *)
(***************************************************************************)
KeysCatchUp ==
    \A S \in (SUBSET Signing) \ {{}} :
       <>[](phase = "up" /\ Usable = S) => <>[](cache = S)

(***************************************************************************)
(* "Spawn a background task that refreshes JWKS periodically."             *)
(* (auth.rs:316): while the server is up, the task comes round to its next *)
(* pause again and again.  Refuted: without a timeout, one request that is *)
(* never answered ends all refreshing.                                     *)
(***************************************************************************)
RefreshesPeriodically ==
    phase = "up" ~> (fetch["task"] = "sleeping" \/ phase # "up")
=============================================================================

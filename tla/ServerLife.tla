----------------------------- MODULE ServerLife -----------------------------
(***************************************************************************)
(* The life of a server process around the requests of CommentThreads:     *)
(* `main` (riley-comments-cli) reads the configuration, connects and       *)
(* migrates, `serve` (lib.rs) fetches the keys, builds the clients and     *)
(* listens; SIGTERM or SIGINT ends the listening, requests in progress are *)
(* finished, and when the last is answered `main` returns.  With it go the *)
(* spawned notifications that are still being sent.  A crash or SIGKILL    *)
(* also takes the requests.                                                *)
(*                                                                         *)
(* CommentThreads knows of all this only that the server restarts now and  *)
(* then.  Here a restart takes several steps, and the promise is about     *)
(* requests: one that was accepted is answered.                            *)
(***************************************************************************)
EXTENDS CommentThreads

VARIABLES
    stage,         \* how far the process has come
    killed         \* history: the last process did not end by itself

lifeVars == <<vars, stage, killed>>

Idle(r) == req[r].pc = "idle"

LifeInit == Init /\ stage = "off" /\ killed = FALSE

-----------------------------------------------------------------------------
\* The process starts: main loads the configuration.
Boot(m) ==
    /\ stage = "off"
    /\ stage' = "starting"
    /\ killed' = FALSE
    /\ maxDepth' = m
    /\ UNCHANGED <<rows, req, issued, admins, outbox>>

\* A setting, the database, a migration, the keys or the port fail.  Signals
\* are handled only when the listener is up: before, one ends the process.
StartFails ==
    /\ stage = "starting"
    /\ stage' = "off"
    /\ UNCHANGED <<vars, killed>>

\* All of that has worked: the listener is bound.
Listen ==
    /\ stage = "starting"
    /\ stage' = "open"
    /\ UNCHANGED <<vars, killed>>

\* Mutant: the port is bound before the rest is ready.
AcceptEarly(r) ==
    /\ stage \in {"starting", "open"}
    /\ Arrival(r)
    /\ UNCHANGED <<stage, killed>>

\* While the listener is up, requests come in.
Accept(r) == stage = "open" /\ Arrival(r) /\ UNCHANGED <<stage, killed>>

\* Requests in progress go on during the drain.
Serve(r) ==
    /\ stage \in {"open", "draining"}
    /\ Progress(r)
    /\ UNCHANGED <<stage, killed>>

ServeUnevenly(r) ==
    /\ stage \in {"open", "draining"}
    /\ RoleAnswer(r) \/ QueryFails(r)
    /\ UNCHANGED <<stage, killed>>

\* The world outside takes no notice of the stages.
Outside ==
    /\ \/ \E n \in outbox : NotificationEnds(n)
       \/ \E u \in Moderators : ChangeRole(u)
    /\ UNCHANGED <<stage, killed>>

\* shutdown_signal returns.  A second signal changes nothing.
Signal ==
    /\ stage = "open"
    /\ stage' = "draining"
    /\ UNCHANGED <<vars, killed>>

\* Mutants: the server does not wait for its requests; it also waits for its
\* notifications.
ExitAtOnce ==
    /\ stage = "draining"
    /\ stage' = "off"
    /\ Restart(maxDepth)
    /\ UNCHANGED killed
ExitAfterNotifications ==
    /\ stage = "draining"
    /\ outbox = {} /\ \A r \in Requests : Idle(r)
    /\ stage' = "off"
    /\ Restart(maxDepth)
    /\ UNCHANGED killed

\* Every connection is closed: serve and main return, and the runtime drops
\* the tasks that are left.
Exit ==
    /\ stage = "draining"
    /\ \A r \in Requests : Idle(r)
    /\ stage' = "off"
    /\ Restart(maxDepth)
    /\ UNCHANGED killed

\* A crash, or the patience of whoever stops the server is at an end.
Kill ==
    /\ stage # "off"
    /\ stage' = "off"
    /\ killed' = TRUE
    /\ Restart(maxDepth)

LifeNext ==
    \/ \E m \in MaxDepths : Boot(m)
    \/ StartFails \/ Listen \/ Signal \/ Exit \/ Kill \/ Outside
    \/ \E r \in Requests : Accept(r) \/ Serve(r) \/ ServeUnevenly(r)

LifeSpec == LifeInit /\ [][LifeNext]_lifeVars

(***************************************************************************)
(* tokio polls every request, PostgreSQL answers every statement or its    *)
(* connection breaks, and the role check has a timeout of 5 s: a request   *)
(* always has a next step.  When none is left, hyper closes the            *)
(* connections and axum::serve returns; this takes clients to send what    *)
(* they have begun to send, as neither sets a limit.  riley-auth and the   *)
(* notifier need never answer.                                             *)
(***************************************************************************)
FairLife == /\ LifeSpec
            /\ \A r \in Requests : WF_lifeVars(Serve(r))
            /\ WF_lifeVars(Exit)

-----------------------------------------------------------------------------
(***************************************************************************)
(* A request is only ever in progress at a server that listens or drains,  *)
(* and what a dead process was sending is gone with it.                    *)
(***************************************************************************)
LifeOK ==
    /\ TypeOK
    /\ stage \in {"off", "starting", "open", "draining"}
    /\ killed \in BOOLEAN
    /\ stage \in {"off", "starting"} =>
          outbox = {} /\ \A r \in Requests : Idle(r)

(***************************************************************************)
(* Every request that was accepted gets an answer, although the server is  *)
(* told to stop meanwhile and whether or not riley-auth and the notifier   *)
(* ever respond; only a kill or a crash loses it.                          *)
(***************************************************************************)
AcceptedAreAnswered ==
    \A r \in Requests :
       ~Idle(r) ~> \/ Idle(r) /\ req[r].status # None
                   \/ killed

(***************************************************************************)
(* A shutdown comes to its end: nothing that may hang - the role check,    *)
(* the notifier - can keep a draining server from exiting.                 *)
(***************************************************************************)
DrainEnds == stage = "draining" ~> stage = "off"
=============================================================================

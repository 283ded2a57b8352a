------------------------------ MODULE Service ------------------------------
(***************************************************************************)
(* The whole service on its database: a process as in ServerLife, with the *)
(* handlers that write comments (CommentThreads), and beside them, in the  *)
(* same process and on the same table, the reader who walks through the    *)
(* pages (ThreadListing), the requests to react (Reactions) and those for  *)
(* user cards (UserCard).                                                  *)
(*                                                                         *)
(* The readers' modules describe the writers by ForestNext, as if any      *)
(* comment might be posted or deleted at any time, and know nothing of     *)
(* starts and shutdowns.  Here the writers are the handlers, requests come *)
(* in only while the listener is up, a drain waits for every one of them   *)
(* and a kill takes them all.                                              *)
(***************************************************************************)
EXTENDS ServerLife

CONSTANTS
    Entity, Limits,                  \* of ThreadListing
    Emojis, ReactSlots, MaxReactions, MaxBirths    \* of Reactions

VARIABLES
    phase, cursor, top, more, page, counts, returned,    \* of ThreadListing
    steady, gone, quiet,
    reactions, reacting, born, told,                     \* of Reactions
    card, known                                          \* of UserCard

Reader == INSTANCE ThreadListing
Profile == INSTANCE UserCard WITH Requests <- ReactSlots, req <- reacting

readerVars == <<phase, cursor, top, more, page, counts, returned, steady,
                gone, quiet>>
reactVars == <<reactions, reacting, born, told>>
profileVars == <<card, known>>
serviceVars == <<lifeVars, readerVars, reactVars, profileVars>>

ServiceInit == LifeInit /\ Reader!Init /\ Profile!CardInit

Up == stage \in {"open", "draining"}

\* Requests of each kind that the process is serving.
Reading == phase \in {"replies", "counts", "respond"}
Reacting == \E r \in ReactSlots : reacting[r].pc # "idle"
Drawing == card.pc = "reactions"

-----------------------------------------------------------------------------
\* The life of the process but for its end, and the handlers' steps.  If one
\* of these writes the table, it goes by under the eyes of the others.
Write ==
    /\ \/ \E m \in MaxDepths : Boot(m)
       \/ StartFails \/ Listen \/ Signal \/ Outside
       \/ \E r \in Requests : Accept(r) \/ Serve(r) \/ ServeUnevenly(r)
    /\ IF rows' = rows THEN UNCHANGED <<readerVars, reactVars, profileVars>>
       ELSE UNCHANGED <<reactVars, profileVars>> /\ Reader!Overtaken

\* A request for a page comes in; it gets on, or fails; the reader turns to
\* another walk whatever the server does.
Read ==
    /\ \/ stage = "open" /\ \E limit \in Limits : Reader!AskRoots(limit)
       \/ /\ Up
          /\ \/ Reader!FetchReplies \/ Reader!FetchCounts \/ Reader!Respond
             \/ Reader!Fail
       \/ Reader!Restart
    /\ UNCHANGED <<lifeVars, reactVars, profileVars>>

\* The same for requests to react.
React ==
    /\ \/ /\ stage = "open"
          /\ \E r \in ReactSlots, x \in Profile!Reaction :
                Profile!AddReaction(r, x)
       \/ /\ Up
          /\ \/ \E r \in ReactSlots :
                   \/ Profile!AddCheck(r) \/ Profile!AddNotify(r)
                   \/ \E answered \in BOOLEAN : Profile!AddInsert(r, answered)
                   \/ Profile!Abandon(r)
             \/ \E x \in Profile!Reaction : Profile!RemoveReaction(x)
    /\ UNCHANGED <<lifeVars, readerVars, profileVars>>

\* And for cards.
Draw ==
    /\ \/ stage = "open" /\ \E u \in Users : Profile!AskCard(u)
       \/ Up /\ (Profile!CountReceived \/ Profile!CardFails)
    /\ UNCHANGED <<lifeVars, readerVars>>

\* with_graceful_shutdown waits for all connections.
Close ==
    /\ Exit
    /\ ~Reading /\ ~Reacting /\ ~Drawing
    /\ UNCHANGED <<readerVars, reactVars, profileVars>>

Crash ==
    /\ Kill
    /\ IF Reading THEN Reader!Fail ELSE UNCHANGED readerVars
    /\ Profile!CardRestart

ServiceNext == Write \/ Read \/ React \/ Draw \/ Close \/ Crash

ServiceSpec == ServiceInit /\ [][ServiceNext]_serviceVars

-----------------------------------------------------------------------------
(***************************************************************************)
(* No request of any kind is in progress at a process that does not listen *)
(* or drain: shutting down loses none, and a start finds none.             *)
(***************************************************************************)
NothingLeft == ~Up => /\ \A r \in Requests : Idle(r)
                      /\ outbox = {}
                      /\ ~Reading /\ ~Reacting /\ ~Drawing
=============================================================================

--------------------------- MODULE CommentThreads ---------------------------
(***************************************************************************)
(* The handlers that write comments - POST /comments, PATCH /comments/{id} *)
(* and POST /comments/{id}/delete of routes/comments.rs - down to the SQL  *)
(* statements of db/comments.rs.                                           *)
(*                                                                         *)
(* Every request runs as a task of its own and shares with the others only *)
(* the comments table.  Nothing brackets the statements of one request in  *)
(* a transaction, so an action is what a handler does from one await to    *)
(* the next: it reads or writes the table once and decides the next step.  *)
(* The requests of `Requests` are the ones in progress at the same time; a *)
(* slot is reused when its request has been answered.                      *)
(***************************************************************************)
EXTENDS ThreadForest, RoleCheck, FiniteSets

CONSTANTS
    Requests,      \* slots for concurrent requests
    Moderators,    \* users whose access token may claim the role "admin"
    MaxDepths,     \* values of comments.max_depth used by the deployments
    Notify         \* TRUE iff [notifications] is configured

ASSUME ThreadsAssumption ==
    /\ Moderators \subseteq Users
    /\ MaxDepths # {} /\ MaxDepths \subseteq Int
    /\ Notify \in BOOLEAN

VARIABLES
    req,        \* request slot -> the request it is serving
    maxDepth,   \* comments.max_depth of the running server
    issued,     \* the last key (created_at, id) handed out
    admins,     \* users whose role at riley-auth is "admin" now
    outbox      \* comment_reply notifications being sent

vars == <<rows, req, maxDepth, issued, admins, outbox>>

Optional(S) == S \cup {None}

Steps == {"idle", "parent", "stamp", "insert",     \* create
          "edit",                                  \* update
          "role", "recheck", "tombstone"}          \* delete

\* "refused" is any of 400, 403, 404 and 503; "500" leaves open what happened.
Statuses == {"200", "201", "204", "refused", "500"}

ASSUME StatusAssumption == None \notin Statuses

Request == [pc        : Steps,               \* what the handler awaits
            status    : Optional(Statuses),  \* the answer to the last request
            user      : Optional(Users),     \* claims.sub
            target    : Optional(Ids),       \* id in the path, or parent_id
            author    : Optional(Users),     \* user_id of the target, as read
            entity    : Optional(Entities),
            body      : Optional(Bodies),
            parent    : Optional(Ids),       \* place chosen for a new comment
            depth     : Nat,
            replyTo   : Optional(Users),
            key       : Optional(Ids),       \* (created_at, id) of the INSERT
            confirmed : BOOLEAN,             \* is_admin of soft_delete
            \* History, not in the code: the target was already deleted when
            \* the request arrived; the user was an admin at some time since.
            late      : BOOLEAN,
            wasAdmin  : BOOLEAN]

\* A slot whose request has been answered with status s.
Answered(s) ==
    [pc |-> "idle", status |-> s, user |-> None, target |-> None,
     author |-> None, entity |-> None, body |-> None, parent |-> None,
     depth |-> 0, replyTo |-> None, key |-> None, confirmed |-> FALSE,
     late |-> FALSE, wasAdmin |-> FALSE]

Init == /\ ForestInit
        /\ req = [r \in Requests |-> Answered(None)]
        /\ maxDepth \in MaxDepths
        /\ issued = 0
        /\ admins \in SUBSET Moderators
        /\ outbox = {}

-----------------------------------------------------------------------------
\* Request r goes on to step pc; every answer frees the slot.
Goto(r, pc) == req' = [req EXCEPT ![r].pc = pc]
Answer(r, s) == req' = [req EXCEPT ![r] = Answered(s)]

Arrive(r, pc, u, k, e, b) ==
    req' = [req EXCEPT ![r] =
              [Answered(None) EXCEPT
                 !.pc = pc, !.user = u, !.target = k, !.entity = e, !.body = b,
                 !.author = IF k = None THEN None ELSE rows[k].user,
                 !.late = k # None /\ rows[k].deleted,
                 !.wasAdmin = u \in admins]]

\* The server, riley-auth and the notifier stand still in a database step.
Steady == UNCHANGED <<maxDepth, admins>>

\* Requests that will still ask for a key.
Creating == {r \in Requests : req[r].pc \in {"parent", "stamp"}}

(***************************************************************************)
(* POST /comments.  The body is None when it fails validation.  The route  *)
(* looks the parent up first (to notify its author), so an unknown parent  *)
(* is refused here.                                                        *)
(***************************************************************************)
CreateComment(r, u, e, p, b) ==
    /\ req[r].pc = "idle"
    /\ issued + Cardinality(Creating) < MaxComments   \* bound of the model
    /\ IF b = None \/ p \notin Optional(Posted) THEN Answer(r, "refused")
       ELSE Arrive(r, IF p = None THEN "stamp" ELSE "parent", u, p, e, b)
    /\ UNCHANGED <<rows, issued, outbox>> /\ Steady

\* Mutants: flattening one level too late, keeping the deep parent, or
\* counting a level for the flattened reply; unchecked parents.
PlaceTooDeep(p) ==
    IF rows[p].depth > maxDepth
    THEN [parent |-> rows[p].parent, depth |-> rows[p].depth,
          replyTo |-> rows[p].user]
    ELSE [parent |-> p, depth |-> rows[p].depth + 1, replyTo |-> None]
PlaceBelow(p) ==
    [parent |-> p, depth |-> rows[p].depth + 1,
     replyTo |-> IF rows[p].depth >= maxDepth THEN rows[p].user ELSE None]
PlaceMiscounted(p) ==
    IF rows[p].depth >= maxDepth
    THEN [parent |-> rows[p].parent, depth |-> rows[p].depth + 1,
          replyTo |-> rows[p].user]
    ELSE [parent |-> p, depth |-> rows[p].depth + 1, replyTo |-> None]
RepliableAnywhere(p, e) == ~rows[p].deleted
RepliableDeleted(p, e) == rows[p].entity = e

(***************************************************************************)
(* Where a reply to comment p goes: under p, or, when p is as deep as the  *)
(* configuration allows, next to p with p's author recorded as addressee.  *)
(***************************************************************************)
Place(p) ==
    IF rows[p].depth >= maxDepth
    THEN [parent |-> rows[p].parent, depth |-> rows[p].depth,
          replyTo |-> rows[p].user]
    ELSE [parent |-> p, depth |-> rows[p].depth + 1, replyTo |-> None]

Repliable(p, e) == ~rows[p].deleted /\ rows[p].entity = e

\* db::comments::create reads the parent again, checks it and picks a place.
CreateParent(r) ==
    LET q == req[r]  place == Place(q.target) IN
    /\ q.pc = "parent"
    /\ IF Repliable(q.target, q.entity)
       THEN req' = [req EXCEPT ![r].pc = "stamp",
                               ![r].parent = place.parent,
                               ![r].depth = place.depth,
                               ![r].replyTo = place.replyTo]
       ELSE Answer(r, "refused")
    /\ UNCHANGED <<rows, issued, outbox>> /\ Steady

\* The INSERT starts: id = now_v7() and created_at = now() are taken.
CreateStamp(r) ==
    /\ req[r].pc = "stamp"
    /\ issued < MaxComments                 \* follows from CreateComment's
    /\ issued' = issued + 1
    /\ req' = [req EXCEPT ![r].pc = "insert", ![r].key = issued + 1]
    /\ UNCHANGED <<rows, outbox>> /\ Steady

\* Mutants: the notification goes to the addressee column, or to oneself.
NoteReplyTo(q) == IF Notify /\ q.target # None /\ q.author # q.user
                  THEN {[to |-> rows[q.target].replyTo, comment |-> q.key]}
                  ELSE {}
NoteSelf(q) == IF Notify /\ q.target # None
               THEN {[to |-> q.author, comment |-> q.key]}
               ELSE {}

\* Whom the route notifies of the comment it has just created: the parent's
\* author as it read the parent when the request arrived.
Note(q) == IF Notify /\ q.target # None /\ q.author # q.user
           THEN {[to |-> q.author, comment |-> q.key]}
           ELSE {}

\* The row shows.  The answer may be lost on its way from the database
\* (answered = FALSE): the client gets 500 and nobody is notified.
CreateInsert(r, answered) ==
    LET q == req[r] IN
    /\ q.pc = "insert"
    /\ rows' = [k \in Posted \cup {q.key} |->
                  IF k = q.key
                  THEN [parent |-> q.parent, user |-> q.user,
                        entity |-> q.entity, body |-> q.body,
                        depth |-> q.depth, replyTo |-> q.replyTo,
                        deleted |-> FALSE]
                  ELSE rows[k]]
    /\ Answer(r, IF answered THEN "201" ELSE "500")
    /\ outbox' = outbox \cup (IF answered THEN Note(q) ELSE {})
    /\ UNCHANGED issued /\ Steady

-----------------------------------------------------------------------------
\* PATCH /comments/{id}, up to the checks of db::comments::update.
UpdateComment(r, u, k, b) ==
    /\ req[r].pc = "idle"
    /\ IF b # None /\ k \in Live /\ rows[k].user = u
       THEN Arrive(r, "edit", u, k, None, b)
       ELSE Answer(r, "refused")
    /\ UNCHANGED <<rows, issued, outbox>> /\ Steady

EditWrite(r, answered) ==
    /\ req[r].pc = "edit"
    /\ Edit(req[r].target, req[r].body)
    /\ Answer(r, IF answered THEN "200" ELSE "500")
    /\ UNCHANGED <<issued, outbox>> /\ Steady

-----------------------------------------------------------------------------
(***************************************************************************)
(* POST /comments/{id}/delete.  The token may be old: `claim` is the role  *)
(* it carries.  Only a moderator deleting another user's comment needs the *)
(* role confirmed by riley-auth.                                           *)
(***************************************************************************)
DeleteComment(r, u, k, claim) ==
    /\ req[r].pc = "idle"
    /\ claim => u \in Moderators
    /\ IF k \notin Posted THEN Answer(r, "refused")
       ELSE Arrive(r, IF rows[k].user # u /\ claim THEN "role" ELSE "recheck",
                   u, k, None, None)
    /\ UNCHANGED <<rows, issued, outbox>> /\ Steady

\* Mutant: the role claim of the token is believed.
RoleBelieved(r) ==
    /\ req[r].pc = "role"
    /\ req' = [req EXCEPT ![r].pc = "recheck", ![r].confirmed = TRUE]
    /\ UNCHANGED <<rows, issued, outbox>> /\ Steady

\* GET /auth/me comes back: require_admin confirms the role or refuses.
RoleAnswer(r) ==
    /\ req[r].pc = "role"
    /\ \E reply \in MeReplies(Users, admins) :
          IF Confirms(req[r].user, reply)
          THEN req' = [req EXCEPT ![r].pc = "recheck", ![r].confirmed = TRUE]
          ELSE Answer(r, "refused")
    /\ UNCHANGED <<rows, issued, outbox>> /\ Steady

\* Mutant: the call to riley-auth has no timeout.
RoleNeverTimesOut(r) == FALSE

\* riley-auth is unreachable, answers rubbish or takes more than 5 s.
RoleUnavailable(r) ==
    /\ req[r].pc = "role"
    /\ Answer(r, "refused")
    /\ UNCHANGED <<rows, issued, outbox>> /\ Steady

MayDelete(q) == rows[q.target].user = q.user \/ q.confirmed

\* Mutant: a delete that is not allowed is acknowledged all the same.
RecheckSilent(r) ==
    LET q == req[r] IN
    /\ q.pc = "recheck"
    /\ IF ~MayDelete(q) \/ rows[q.target].deleted THEN Answer(r, "204")
       ELSE Goto(r, "tombstone")
    /\ UNCHANGED <<rows, issued, outbox>> /\ Steady

\* db::comments::soft_delete reads the comment again and decides.
DeleteRecheck(r) ==
    LET q == req[r] IN
    /\ q.pc = "recheck"
    /\ IF ~MayDelete(q) THEN Answer(r, "refused")
       ELSE IF rows[q.target].deleted THEN Answer(r, "204")
       ELSE Goto(r, "tombstone")
    /\ UNCHANGED <<rows, issued, outbox>> /\ Steady

DeleteWrite(r, answered) ==
    /\ req[r].pc = "tombstone"
    /\ Remove(req[r].target)
    /\ Answer(r, IF answered THEN "204" ELSE "500")
    /\ UNCHANGED <<issued, outbox>> /\ Steady

-----------------------------------------------------------------------------
\* A statement fails, or the pool has no connection for it within its limit.
QueryFails(r) ==
    /\ req[r].pc \notin {"idle", "role"}
    /\ Answer(r, "500")
    /\ UNCHANGED <<rows, issued, outbox>> /\ Steady

\* NotificationClient::send: the spawned task ends, delivered or not.
NotificationEnds(n) ==
    /\ n \in outbox
    /\ outbox' = outbox \ {n}
    /\ UNCHANGED <<rows, req, issued>> /\ Steady

\* riley-auth promotes or demotes a moderator.
ChangeRole(u) ==
    /\ admins' = IF u \in admins THEN admins \ {u} ELSE admins \cup {u}
    /\ req' = [r \in Requests |->
                 IF req[r].user = u THEN [req[r] EXCEPT !.wasAdmin = TRUE]
                 ELSE req[r]]
    /\ UNCHANGED <<rows, maxDepth, issued, outbox>>

(***************************************************************************)
(* The server stops, by a crash or for a deployment with another           *)
(* max_depth, and starts again: requests in progress and notifications not *)
(* yet sent are lost.                                                      *)
(***************************************************************************)
Restart(m) ==
    /\ maxDepth' = m
    /\ req' = [r \in Requests |-> Answered(None)]
    /\ outbox' = {}
    /\ UNCHANGED <<rows, issued, admins>>

Arrival(r) ==
    \E u \in Users :
       \/ \E e \in Entities, p \in Optional(Ids), b \in Optional(Bodies) :
             CreateComment(r, u, e, p, b)
       \/ \E k \in Ids, b \in Optional(Bodies) : UpdateComment(r, u, k, b)
       \/ \E k \in Ids, claim \in BOOLEAN : DeleteComment(r, u, k, claim)

Progress(r) ==
    \/ CreateParent(r)
    \/ CreateStamp(r)
    \/ DeleteRecheck(r)
    \/ RoleUnavailable(r)
    \/ \E answered \in BOOLEAN : \/ CreateInsert(r, answered)
                                 \/ EditWrite(r, answered)
                                 \/ DeleteWrite(r, answered)

Next ==
    \/ \E r \in Requests :
          Arrival(r) \/ Progress(r) \/ RoleAnswer(r) \/ QueryFails(r)
    \/ \E n \in outbox : NotificationEnds(n)
    \/ \E u \in Moderators : ChangeRole(u)
    \/ \E m \in MaxDepths : Restart(m)

Spec == Init /\ [][Next]_vars

-----------------------------------------------------------------------------
TypeOK ==
    /\ RowsOK
    /\ req \in [Requests -> Request]
    /\ maxDepth \in MaxDepths
    /\ issued \in 0 .. MaxComments
    /\ admins \in SUBSET Moderators
    /\ outbox \in SUBSET [to : Users, comment : Ids]

(***************************************************************************)
(* No comment is nested deeper than some max_depth the server has run with *)
(* allowed, whatever other requests did between reading the parent and the *)
(* INSERT and however max_depth changed across restarts.                   *)
(***************************************************************************)
DepthBounded ==
    \A k \in Posted :
       rows[k].depth = 0 \/ \E m \in MaxDepths : rows[k].depth <= m

(***************************************************************************)
(* A comment_reply notification is about a comment that exists and goes to *)
(* the author of the comment it answers - the addressee of a flattened     *)
(* reply, else the parent's author - and never to the one who wrote it.    *)
(***************************************************************************)
Answering(c) == IF rows[c].replyTo # None THEN rows[c].replyTo
                ELSE rows[rows[c].parent].user

IsReply(c) == rows[c].replyTo # None \/ rows[c].parent # None

NotesTruthful ==
    \A n \in outbox : /\ n.comment \in Posted
                      /\ IsReply(n.comment)
                      /\ n.to = Answering(n.comment)
                      /\ n.to # rows[n.comment].user

(***************************************************************************)
(* The inductive invariant behind the properties above: what the requests  *)
(* in progress may still rely on of what they read earlier.  The place     *)
(* chosen for a reply stays good until the INSERT because rows keep their  *)
(* parent, entity, author and depth; keys in flight are distinct, new and  *)
(* larger than those of the comments the new row refers to.                *)
(***************************************************************************)
Placed(q) ==
    /\ IF q.parent = None THEN q.depth = 0
       ELSE /\ q.parent \in Posted
            /\ rows[q.parent].entity = q.entity
            /\ q.depth = rows[q.parent].depth + 1
    /\ q.depth = 0 \/ \E m \in MaxDepths : q.depth <= m
    /\ q.target # None =>
          \/ q.replyTo = None /\ q.parent = q.target
          \/ /\ q.replyTo = rows[q.target].user
             /\ q.parent = rows[q.target].parent
             /\ q.entity = rows[q.target].entity
    /\ q.replyTo # None => q.target # None

InFlight(q) ==
    /\ q.target # None => /\ q.target \in Posted
                          /\ q.author = rows[q.target].user
    /\ q.pc \in {"parent", "edit", "role", "recheck", "tombstone"} =>
          q.target # None
    /\ q.pc \in {"parent", "stamp", "insert"} =>
          q.user # None /\ q.entity # None /\ q.body # None
    /\ q.pc = "edit" => q.body # None
    /\ q.pc \in {"stamp", "insert"} => Placed(q)
    /\ q.pc = "insert" => /\ q.key \in 1 .. issued /\ q.key \notin Posted
                          /\ q.parent # None => q.parent < q.key
                          /\ q.target # None => q.target < q.key

KeysDistinct ==
    \A r, s \in Requests :
       req[r].pc = "insert" /\ req[s].pc = "insert" /\ r # s =>
          req[r].key # req[s].key

IndInv ==
    /\ TypeOK /\ IsForest /\ ReplyToIsNeighbour /\ DepthBounded
    /\ NotesTruthful
    /\ Posted \subseteq 1 .. issued
    /\ \A r \in Requests : InFlight(req[r])
    /\ KeysDistinct

\* Slot r makes a step of its own.
Moves(r) == req'[r] # req[r] /\ admins' = admins

(***************************************************************************)
(* History is never rewritten: a comment, once posted, keeps its author,   *)
(* entity, place and addressee, a deleted comment stays deleted, and no    *)
(* other request's late write can bring it back.                           *)
(***************************************************************************)
Kept(k) ==
    /\ k \in DOMAIN rows'
    /\ rows[k].deleted => rows'[k].deleted
    /\ [rows'[k] EXCEPT !.body = None, !.deleted = TRUE] =
       [rows[k] EXCEPT !.body = None, !.deleted = TRUE]

HistoryKept == [][\A k \in Posted : Kept(k)]_vars

\* Mutant: a placeholder still names its author.
ScrubBodyOnly(row) ==
    IF row.deleted THEN [row EXCEPT !.body = None, !.replyTo = None] ELSE row

\* build_comment_response: a row as readers get it.
Scrub(row) ==
    IF row.deleted
    THEN [row EXCEPT !.user = None, !.body = None, !.replyTo = None]
    ELSE row

(***************************************************************************)
(* Through the eyes of a reader the writers keep the promise PublicThread: *)
(* what was deleted never comes back and never changes again, although the *)
(* row itself is still there and a late edit may still write to it.        *)
(***************************************************************************)
Public == INSTANCE PublicThread WITH
             shown <- [k \in Posted |-> Scrub(rows[k])]

ReadersPromise == Public!Spec

(***************************************************************************)
(* A comment changes only by a request for it from its author, or is       *)
(* deleted by a user who was an admin at riley-auth at some time during    *)
(* the request - never on the strength of an old token's role claim.       *)
(***************************************************************************)
WritesAuthorised ==
    [][\A k \in Posted : rows'[k] # rows[k] =>
          \E r \in Requests :
             /\ Moves(r) /\ req[r].target = k
             /\ \/ req[r].user = rows[k].user
                \/ /\ req[r].wasAdmin
                   /\ rows'[k] = [rows[k] EXCEPT !.deleted = TRUE]]_vars

(***************************************************************************)
(* A request that arrives after its target was deleted writes nothing: it  *)
(* neither edits the comment nor hangs a reply below it.                   *)
(***************************************************************************)
LateWritesNothing ==
    [][\A r \in Requests : req[r].late /\ Moves(r) => rows' = rows]_vars

(***************************************************************************)
(* The answer tells the client what happened: after 201 there is one new   *)
(* comment, by the user, on the entity, answering the target; after 200    *)
(* the target has the new body; after 204 it is deleted; and after 4xx and *)
(* 503 the request has changed nothing.                                    *)
(***************************************************************************)
Outcome(q, s) ==
    CASE s = "201" -> \E k \in DOMAIN rows' \ Posted :
                         /\ rows'[k].user = q.user
                         /\ rows'[k].entity = q.entity
                         /\ rows'[k].body = q.body
                         /\ q.target # None =>
                              \/ rows'[k].parent = q.target
                              \/ rows'[k].replyTo = rows[q.target].user
      [] s = "200" -> rows'[q.target].body = q.body
      [] s = "204" -> rows'[q.target].deleted
      [] s = "refused" -> rows' = rows
      [] OTHER -> TRUE

AnswersTruthful ==
    [][\A r \in Requests : Moves(r) /\ req'[r].pc = "idle" =>
          Outcome(req[r], req'[r].status)]_vars

(***************************************************************************)
(* "cannot reply to a deleted comment" (db/comments.rs:181): when a reply  *)
(* appears, the comment it answers is not deleted.  Refuted: the parent    *)
(* can be deleted between the check and the INSERT.                        *)
(***************************************************************************)
NoReplyToDeleted ==
    [][\A r \in Requests :
          req[r].target # None /\ DOMAIN rows' # Posted /\ Moves(r) =>
             ~rows[req[r].target].deleted]_vars

=============================================================================

----------------------------- MODULE Reactions -----------------------------
(***************************************************************************)
(* Reactions to comments: POST /comments/{id}/reactions and                *)
(* DELETE /comments/{id}/reactions/{emoji} (routes/reactions.rs), with the *)
(* statements of db/reactions.rs, while the comments themselves are posted *)
(* and deleted by the writers of ThreadForest.                             *)
(*                                                                         *)
(* Adding a reaction takes three statements: is the comment live, insert   *)
(* unless present, and - only if a row was inserted - read the comment's   *)
(* author for the notification.  Any number of requests interleave there.  *)
(***************************************************************************)
EXTENDS ThreadForest, FiniteSets

CONSTANTS
    Emojis,        \* emoji that pass validation
    Requests,      \* slots for concurrent requests
    MaxReactions,  \* bound: how many different reactions are inserted
    MaxBirths      \* bound: how often each of them is

ASSUME ReactionsAssumption ==
    /\ None \notin Emojis
    /\ MaxReactions \in Nat /\ MaxBirths \in Nat
    /\ IsFiniteSet(Requests)

VARIABLES
    reactions,     \* the comment_reactions table: a set of primary keys
    req,           \* request slot -> the request it is serving
    born,          \* history: how often each reaction was inserted
    told           \* history: how often its insertion was notified

vars == <<rows, reactions, req, born, told>>

Reaction == [comment : Ids, user : Users, emoji : Emojis]

\* late: history, the comment was already deleted when the request arrived.
Request == [pc : {"idle", "check", "insert", "author"},
            on : Reaction \cup {None}, late : BOOLEAN]

Idle == [pc |-> "idle", on |-> None, late |-> FALSE]

Init == /\ ForestInit
        /\ reactions = {}
        /\ req = [r \in Requests |-> Idle]
        /\ born = [x \in Reaction |-> 0]
        /\ told = [x \in Reaction |-> 0]

-----------------------------------------------------------------------------
\* Comments come and go.
Comments == ForestNext /\ UNCHANGED <<reactions, req, born, told>>

\* add_reaction with a valid emoji; others are refused before any statement.
AddReaction(r, x) ==
    /\ req[r].pc = "idle"
    /\ req' = [req EXCEPT ![r] =
                 [pc |-> "check", on |-> x,
                  late |-> x.comment \in Posted \ Live]]
    /\ UNCHANGED <<rows, reactions, born, told>>

\* Mutant: the comment is not looked up.
Anything(x) == TRUE

Reactable(x) == x.comment \in Live

\* SELECT id FROM comments WHERE id = .. AND deleted_at IS NULL; else 404.
AddCheck(r) ==
    /\ req[r].pc = "check"
    /\ req' = [req EXCEPT ![r] = IF Reactable(req[r].on)
                                 THEN [@ EXCEPT !.pc = "insert"] ELSE Idle]
    /\ UNCHANGED <<rows, reactions, born, told>>

\* Mutant: every INSERT counts as a new reaction.
AlwaysNew(x) == TRUE

\* rows_affected() == 1 of INSERT .. ON CONFLICT DO NOTHING
Inserted(x) == x \notin reactions

\* Bounds of the model.
Room(x) ==
    /\ born[x] < MaxBirths
    /\ Cardinality({y \in Reaction : born[y] > 0} \cup {x}) <= MaxReactions

\* The INSERT.  The foreign key refuses a comment that does not exist.  A
\* repeat ends here, and so does a request that gets no answer.
AddInsert(r, answered) ==
    LET x == req[r].on IN
    /\ req[r].pc = "insert"
    /\ x.comment \in Posted
    /\ x \in reactions \/ Room(x)
    /\ reactions' = reactions \cup {x}
    /\ born' = IF x \in reactions THEN born ELSE [born EXCEPT ![x] = @ + 1]
    /\ req' = [req EXCEPT ![r] = IF answered /\ Inserted(x)
                                 THEN [@ EXCEPT !.pc = "author"] ELSE Idle]
    /\ UNCHANGED <<rows, told>>

\* Mutant: authors are told of their own reactions.
TellAnyone(x) == TRUE

ForeignTo(x) == rows[x.comment].user # x.user

\* db::comments::get and the notification; the answer is 204 either way.
AddNotify(r) ==
    LET x == req[r].on IN
    /\ req[r].pc = "author"
    /\ told' = IF ForeignTo(x) THEN [told EXCEPT ![x] = @ + 1] ELSE told
    /\ req' = [req EXCEPT ![r] = Idle]
    /\ UNCHANGED <<rows, reactions, born>>

\* remove_reaction: one DELETE, whether or not there is such a reaction and
\* whatever has become of the comment.
RemoveReaction(x) ==
    /\ reactions' = reactions \ {x}
    /\ UNCHANGED <<rows, req, born, told>>

\* A statement fails or the client goes away: the handler stops there.  After
\* the INSERT the client still gets 204, but nobody is notified.
Abandon(r) ==
    /\ req[r].pc # "idle"
    /\ req' = [req EXCEPT ![r] = Idle]
    /\ UNCHANGED <<rows, reactions, born, told>>

Restart ==
    /\ req' = [r \in Requests |-> Idle]
    /\ UNCHANGED <<rows, reactions, born, told>>

Work ==
    \/ Comments
    \/ \E r \in Requests :
          \/ \E x \in Reaction : AddReaction(r, x)
          \/ AddCheck(r)
          \/ \E answered \in BOOLEAN : AddInsert(r, answered)
          \/ AddNotify(r)
          \/ Abandon(r)
    \/ \E x \in Reaction : RemoveReaction(x)

Next == Work \/ Restart

Spec == Init /\ [][Next]_vars

-----------------------------------------------------------------------------
TypeOK ==
    /\ RowsOK
    /\ reactions \in SUBSET Reaction
    /\ req \in [Requests -> Request]
    /\ born \in [Reaction -> 0 .. MaxBirths]
    /\ told \in [Reaction -> 0 .. MaxBirths]

(***************************************************************************)
(* An author hears of each new reaction at most once, however many         *)
(* requests add, remove and re-add the same reaction at the same time, and *)
(* never of a reaction that was there already or of their own: what has    *)
(* been notified and what is about to be never exceeds what was inserted   *)
(* by others.                                                              *)
(***************************************************************************)
Telling(x) == {r \in Requests : req[r].pc = "author" /\ req[r].on = x}

NotifiedOncePerReaction ==
    \A x \in Reaction :
       /\ told[x] + Cardinality(Telling(x)) <= born[x]
       /\ told[x] > 0 => /\ x.comment \in Posted
                         /\ rows[x.comment].user # x.user

(***************************************************************************)
(* A request to react that arrives after the comment was deleted records   *)
(* nothing.  (One that was under way when the comment was deleted may.)    *)
(***************************************************************************)
LateReactsNothing ==
    [][\A r \in Requests : req[r].late /\ req'[r] # req[r] =>
          reactions' = reactions]_vars
=============================================================================

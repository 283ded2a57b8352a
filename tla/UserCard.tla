------------------------------ MODULE UserCard ------------------------------
(***************************************************************************)
(* A user's profile card, GET /users/{id}/card (routes/users.rs).          *)
(* db/users.rs puts it together from two queries, the first over the       *)
(* user's comments and the second over the reactions to them, while the    *)
(* comments come and go and are reacted to as in the module Reactions.     *)
(*                                                                         *)
(* riley_points is the sum of the two numbers; the name on the card is the *)
(* one on the newest live comment, first_seen the date of the oldest       *)
(* comment, deleted or not.  These three are left out.                     *)
(***************************************************************************)
EXTENDS Reactions

VARIABLES
    card,          \* a request for a card, or the answer to it
    known          \* history: the comments there were at the first query

cardVars == <<vars, card, known>>

\* The two numbers are kept as the sets that are counted: the user's comments
\* and the reactions to them.
NoCard == [pc |-> "none", user |-> None, comments |-> {}, received |-> {}]

CardInit == /\ Init
            /\ card = NoCard
            /\ known = {}

-----------------------------------------------------------------------------
Own(u) == {k \in Posted : rows[k].user = u}

Received(u) == {x \in reactions : x.comment \in Own(u) \cap Live}

\* The first query, of three subqueries.  No live comment, no card: 404.
AskCard(u) ==
    /\ card.pc # "reactions"
    /\ card' = IF Own(u) \cap Live = {} THEN NoCard
               ELSE [NoCard EXCEPT !.pc = "reactions", !.user = u,
                        !.comments = Own(u) \cap Live]
    /\ known' = IF Own(u) \cap Live = {} THEN {} ELSE Posted
    /\ UNCHANGED vars

\* The second query, and the answer.
CountReceived ==
    /\ card.pc = "reactions"
    /\ card' = [card EXCEPT !.pc = "shown",
                            !.received = Received(card.user)]
    /\ UNCHANGED <<vars, known>>

\* The second query fails, or the client goes away.
CardFails ==
    /\ card.pc = "reactions"
    /\ card' = NoCard /\ known' = {}
    /\ UNCHANGED vars

\* Everybody else goes on meanwhile.
Meanwhile == Work /\ UNCHANGED <<card, known>>

\* The server takes the request for the card with it.
CardRestart ==
    /\ Restart
    /\ IF card.pc = "reactions" THEN card' = NoCard /\ known' = {}
       ELSE UNCHANGED <<card, known>>

CardWork == \/ \E u \in Users : AskCard(u)
            \/ CountReceived \/ CardFails

CardNext == Meanwhile \/ CardWork \/ CardRestart

CardSpec == CardInit /\ [][CardNext]_cardVars

-----------------------------------------------------------------------------
(***************************************************************************)
(* "Riley Points = comments posted + reactions received on their comments" *)
(* (users.rs:8).  The two numbers on a card belong to different moments,   *)
(* yet they fit together: every reaction that is counted is on a comment   *)
(* that is counted beside it, or on one posted since the first query.      *)
(* However the writers interleave, a comment that did not count at the     *)
(* first query - deleted, or somebody else's - earns nothing at the        *)
(* second, not even by an edit or a reaction that overtakes its deletion.  *)
(***************************************************************************)
CardHangsTogether ==
    card.pc = "shown" =>
       \A x \in card.received :
          x.comment \in card.comments \/ x.comment \notin known
=============================================================================

---------------------------- MODULE PublicThread ----------------------------
(***************************************************************************)
(* What the site promises its readers about comments: one appears, its     *)
(* text may change while it is there, and when it is deleted it turns into *)
(* a placeholder that keeps only its place.  Nothing comes back from       *)
(* there, and nothing but the text ever changes.                           *)
(***************************************************************************)
EXTENDS Naturals

CONSTANTS Ids, Users, Entities, Bodies, None

VARIABLE shown     \* id -> the comment as a reader gets it

Optional(S) == S \cup {None}

Comment == [parent : Optional(Ids), user : Users, entity : Entities,
            body : Bodies, depth : Nat, replyTo : Optional(Users),
            deleted : {FALSE}]

Placeholder(c) ==
    [parent |-> c.parent, user |-> None, entity |-> c.entity, body |-> None,
     depth |-> c.depth, replyTo |-> None, deleted |-> TRUE]

Init == shown = [k \in {} |-> None]

Appear(k) ==
    /\ k \notin DOMAIN shown
    /\ DOMAIN shown' = DOMAIN shown \cup {k}
    /\ shown'[k] \in Comment
    /\ shown' = [i \in DOMAIN shown' |->
                   IF i = k THEN shown'[k] ELSE shown[i]]

Change(k, b) ==
    /\ k \in DOMAIN shown
    /\ ~shown[k].deleted
    /\ shown' = [shown EXCEPT ![k].body = b]

Vanish(k) ==
    /\ k \in DOMAIN shown
    /\ ~shown[k].deleted
    /\ shown' = [shown EXCEPT ![k] = Placeholder(@)]

Next == \E k \in Ids : \/ Appear(k) \/ Vanish(k)
                       \/ \E b \in Bodies : Change(k, b)

Spec == Init /\ [][Next]_shown
=============================================================================

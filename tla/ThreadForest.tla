---------------------------- MODULE ThreadForest ----------------------------
(***************************************************************************)
(* The contract of the `comments` table: an append-only forest of comments *)
(* with tombstones.  A comment is posted under an existing comment of the  *)
(* same entity, its body may be rewritten, and it may be marked deleted;   *)
(* it is never removed and never moved.                                    *)
(*                                                                         *)
(* Each action is one SQL statement of db/comments.rs that writes the      *)
(* table.  The request handlers that issue the statements are the module   *)
(* CommentThreads, which implements this specification; the readers of the *)
(* table extend this module and run against it.                            *)
(*                                                                         *)
(* A comment's key stands for the pair (created_at, id), the order in      *)
(* which the code lists comments.  PostgreSQL takes created_at when the    *)
(* INSERT starts and shows the row when it commits, so rows may become     *)
(* visible out of key order: Post takes any unused key.                    *)
(***************************************************************************)
EXTENDS Integers

CONSTANTS
    Users,         \* comment authors
    Entities,      \* (entity_type, entity_id) pairs that are commented on
    Bodies,        \* comment bodies that pass validation
    MaxComments,   \* bound on the number of comments ever inserted
    None           \* SQL NULL

ASSUME ForestAssumption ==
    /\ MaxComments \in Nat
    /\ None \notin Users
    /\ None \notin Entities
    /\ None \notin Bodies
    /\ None \notin Int

VARIABLE rows      \* the comments table: key -> row

-----------------------------------------------------------------------------
Ids == 1 .. MaxComments

Row == [parent  : Ids \cup {None},     \* parent_id
        user    : Users,               \* user_id (and username)
        entity  : Entities,
        body    : Bodies,
        depth   : Nat,
        replyTo : Users \cup {None},   \* reply_to_user_id (and _username)
        deleted : BOOLEAN]             \* deleted_at IS NOT NULL

Posted == DOMAIN rows
Live == {k \in Posted : ~rows[k].deleted}

Children(k) == {c \in Posted : rows[c].parent = k}

ForestInit == rows = [k \in {} |-> None]

(***************************************************************************)
(* INSERT INTO comments: user u comments on entity e under parent p (None  *)
(* for a top-level comment).  t is the user a flattened reply is meant     *)
(* for: the author of an older comment in the same place.                  *)
(***************************************************************************)
Post(k, p, u, e, b, t) ==
    /\ k \notin Posted
    /\ p # None => p \in Posted /\ p < k /\ rows[p].entity = e
    /\ t # None => \E s \in Posted : /\ s < k
                                     /\ rows[s].parent = p
                                     /\ rows[s].entity = e
                                     /\ rows[s].user = t
    /\ rows' = [i \in Posted \cup {k} |->
                  IF i = k
                  THEN [parent |-> p, user |-> u, entity |-> e, body |-> b,
                        depth |-> IF p = None THEN 0 ELSE rows[p].depth + 1,
                        replyTo |-> t, deleted |-> FALSE]
                  ELSE rows[i]]

\* Mutant: the edit writes the row back whole, without deleted_at.
EditRevives(k, b) ==
    /\ k \in Posted
    /\ rows' = [rows EXCEPT ![k].body = b, ![k].deleted = FALSE]

\* UPDATE comments SET body.  The statement does not look at deleted_at.
Edit(k, b) ==
    /\ k \in Posted
    /\ rows' = [rows EXCEPT ![k].body = b]

\* UPDATE comments SET deleted_at = now().
Remove(k) ==
    /\ k \in Posted
    /\ rows' = [rows EXCEPT ![k].deleted = TRUE]

ForestNext ==
    \E k \in Ids :
       \/ \E p \in Ids \cup {None}, u \in Users, e \in Entities, b \in Bodies,
             t \in Users \cup {None} : Post(k, p, u, e, b, t)
       \/ \E b \in Bodies : Edit(k, b)
       \/ Remove(k)

ForestSpec == ForestInit /\ [][ForestNext]_rows

-----------------------------------------------------------------------------
RowsOK == Posted \subseteq Ids /\ rows \in [Posted -> Row]

\* A row hangs where the readers expect it: below an older row of the same
\* entity, one level deeper, or at the top with depth 0.
Attached(k) ==
    \/ rows[k].parent = None /\ rows[k].depth = 0
    \/ /\ rows[k].parent \in Posted
       /\ rows[k].parent < k
       /\ rows[rows[k].parent].entity = rows[k].entity
       /\ rows[k].depth = rows[rows[k].parent].depth + 1

(***************************************************************************)
(* The table is a forest, and the two ways the listing selects rows agree: *)
(* `depth = 0` (the page of roots) finds exactly the rows without a        *)
(* parent_id (those the recursive query can not reach), and the recursive  *)
(* queries terminate because every parent is older than its child.         *)
(***************************************************************************)
IsForest == \A k \in Posted : Attached(k)

(***************************************************************************)
(* A reply that was flattened still names a real addressee: some older     *)
(* comment in the same place was written by reply_to_user_id, so the       *)
(* "@user" the site shows points at a neighbour in the thread.             *)
(***************************************************************************)
ReplyToIsNeighbour ==
    \A k \in Posted : rows[k].replyTo # None =>
        \E s \in Posted : /\ s < k
                          /\ rows[s].parent = rows[k].parent
                          /\ rows[s].entity = rows[k].entity
                          /\ rows[s].user = rows[k].replyTo

=============================================================================

--------------------------- MODULE ThreadListing ---------------------------
(***************************************************************************)
(* A reader walks through the comments of an entity page by page           *)
(* (GET /comments/{entity_type}/{entity_id}) while others post and         *)
(* delete comments.                                                        *)
(*                                                                         *)
(* Every page is put together from several queries, each of which sees the *)
(* table at a moment of its own: the roots of the page, the replies below  *)
(* them, the reply counts.  (The reaction counts are one more query that   *)
(* touches nothing else.)  The cursor is the key of the last root of the   *)
(* page.  Items are sorted by created_at, so a page is a set here.         *)
(***************************************************************************)
EXTENDS ThreadForest, FiniteSets

CONSTANTS
    Entity,        \* the entity whose comments are read
    Limits         \* ?limit= of the requests, None if it is left out

ASSUME ListingAssumption == Entity \in Entities /\ Limits \subseteq Int \cup {None}

VARIABLES
    phase,         \* what the reader's request awaits
    cursor,        \* key of the last root of the previous page, or None
    top,           \* roots of the page: key -> deleted, as of their query
    more,          \* next_cursor is present
    page,          \* comments of the page: key -> "body" or "scrubbed"
    counts,        \* reply_count of each
    returned,      \* keys on the pages the reader has
    \* History, not in the code:
    steady,        \* comments live ever since the walk began, or since they
                   \* appeared in a place it had yet to come to
    gone,          \* comments deleted before the current request
    quiet          \* the table has not changed during the current request

reader == <<phase, cursor, top, more, page, counts, returned, steady, gone,
            quiet>>
vars == <<rows, reader>>

Empty == [k \in {} |-> None]

Init == /\ ForestInit
        /\ phase = "begin"
        /\ cursor = None
        /\ top = Empty /\ page = Empty /\ counts = Empty
        /\ more = FALSE
        /\ returned = {} /\ steady = {} /\ gone = {}
        /\ quiet = TRUE

-----------------------------------------------------------------------------
\* WITH RECURSIVE: the replies to k, the replies to those, and so on - the
\* least set that holds them.
HoldsReplies(k, S) ==
    /\ Children(k) \subseteq S
    /\ \A i \in S : Children(i) \subseteq S

Below(k) ==
    {i \in Posted : \A S \in SUBSET Posted : HoldsReplies(k, S) => i \in S}

\* Mutant: a deleted root is listed if a direct reply is live.
RootShownByChild(k) == k \in Live \/ Children(k) \cap Live # {}

\* ROOT_IS_VISIBLE
RootVisible(k) == k \in Live \/ Below(k) \cap Live # {}

\* Mutant: the page starts at the cursor, not after it.
FromCursor(k) == cursor = None \/ k >= cursor

AfterCursor(k) == cursor = None \/ k > cursor

\* Roots are found by depth, replies by parent_id.
Roots == {k \in Posted : /\ rows[k].entity = Entity /\ rows[k].depth = 0
                         /\ RootVisible(k) /\ AfterCursor(k)}

\* The n smallest keys of S: ORDER BY .. LIMIT n.
First(n, S) == {k \in S : Cardinality({i \in S : i < k}) < n}

\* Mutant: the number in the request is taken as it is.
LimitAsAsked(limit) == IF limit = None THEN 50 ELSE limit

\* unwrap_or(50).clamp(1, 100)
effective_limit(limit) == CASE limit = None -> 50
                            [] limit \in 1 .. 100 -> limit
                            [] OTHER -> IF limit < 1 THEN 1 ELSE 100

\* The reader asks for a page - the first one, the next one, or one that
\* failed - and the query for the roots runs.  Without roots it is the end.
AskRoots(limit) ==
    LET found == Roots
        n     == effective_limit(limit) IN
    /\ phase \in {"begin", "ask"}
    /\ top' = [k \in First(n, found) |-> rows[k].deleted]
    /\ more' = (Cardinality(found) > n)
    /\ phase' = IF DOMAIN top' = {} THEN "done" ELSE "replies"
    /\ steady' = IF phase = "begin" THEN {k \in Live : rows[k].entity = Entity}
                 ELSE steady
    /\ gone' = Posted \ Live
    /\ quiet' = TRUE
    /\ UNCHANGED <<rows, cursor, page, counts, returned>>

-----------------------------------------------------------------------------
\* The rows the page is made of: the roots as they were, and all replies
\* below them as they are now.
Replies == UNION {Below(k) : k \in DOMAIN top}
Gathered == [k \in DOMAIN top \cup Replies |->
               IF k \in DOMAIN top THEN top[k] ELSE rows[k].deleted]

\* Mutant: only the parents of live comments are kept, not all ancestors.
ParentsOnly(g) ==
    LET live == {k \in DOMAIN g : ~g[k]}
    IN  live \cup ({rows[k].parent : k \in live} \cap DOMAIN g)

(***************************************************************************)
(* visible_ids: every live comment and all its ancestors, as far as they   *)
(* lie in the rows at hand: the least set that holds them.  (That the code *)
(* finds this set is the subject of the module VisibleIds.)                *)
(***************************************************************************)
HoldsAncestors(g, S) ==
    /\ {k \in DOMAIN g : ~g[k]} \subseteq S
    /\ \A k \in S : rows[k].parent \in DOMAIN g => rows[k].parent \in S

VisibleIds(g) ==
    {k \in DOMAIN g :
       \A S \in SUBSET DOMAIN g : HoldsAncestors(g, S) => k \in S}

\* Mutant: deleted comments are sent as they are.
ShowAll(deleted) == "body"

\* build_comment_response
Shown(deleted) == IF deleted THEN "scrubbed" ELSE "body"

FetchReplies ==
    LET g == Gathered IN
    /\ phase = "replies"
    /\ page' = [k \in VisibleIds(g) |-> Shown(g[k])]
    /\ phase' = "counts"
    /\ UNCHANGED <<rows, cursor, top, more, counts, returned, steady, gone,
                   quiet>>

\* Mutants: deleted replies count; a comment without replies has no count.
AllReplies(k) == Cardinality(Children(k))
NoZero(k) == IF Children(k) \cap Live = {} THEN None
             ELSE Cardinality(Children(k) \cap Live)

LiveReplies(k) == Cardinality(Children(k) \cap Live)

FetchCounts ==
    /\ phase = "counts"
    /\ counts' = [k \in DOMAIN page |-> LiveReplies(k)]
    /\ phase' = "respond"
    /\ UNCHANGED <<rows, cursor, top, more, page, returned, steady, gone,
                   quiet>>

\* encode_cursor of the last root read, whether or not it is shown.
NextCursor == CHOOSE k \in DOMAIN top : \A i \in DOMAIN top : i <= k

\* The reader has the page, and asks for the next if there is a next_cursor.
Respond ==
    /\ phase = "respond"
    /\ returned' = returned \cup DOMAIN page
    /\ cursor' = IF more THEN NextCursor ELSE cursor
    /\ phase' = IF more THEN "ask" ELSE "done"
    /\ page' = Empty /\ counts' = Empty /\ top' = Empty /\ more' = FALSE
    /\ UNCHANGED <<rows, steady, gone, quiet>>

\* A query fails or the answer is lost; the reader asks for the page again.
Fail ==
    /\ phase \in {"replies", "counts", "respond"}
    /\ phase' = "ask"
    /\ page' = Empty /\ counts' = Empty /\ top' = Empty /\ more' = FALSE
    /\ UNCHANGED <<rows, cursor, returned, steady, gone, quiet>>

\* The reader gives up, or has everything; it may walk again.
Restart ==
    /\ phase # "begin"
    /\ phase' = "begin" /\ cursor' = None
    /\ page' = Empty /\ counts' = Empty /\ top' = Empty /\ more' = FALSE
    /\ returned' = {} /\ steady' = {} /\ gone' = {} /\ quiet' = TRUE
    /\ UNCHANGED rows

-----------------------------------------------------------------------------
\* A top-level comment and all that is below it.
Thread(k) == {k} \cup Below(k)

\* A root with key k is still to come on the reader's walk.
Ahead(k) == \/ phase = "ask" /\ AfterCursor(k)
            \/ phase \in {"replies", "counts", "respond"} /\ more /\ k > NextCursor

\* A write goes by: what it means for the history.
Overtaken ==
    /\ steady' = {k \in steady : ~rows'[k].deleted} \cup
                 {k \in DOMAIN rows' \ Posted :
                    /\ rows'[k].entity = Entity
                    /\ \E i \in DOMAIN rows' :
                          rows'[i].parent = None /\ Ahead(i) /\ k \in Thread(i)'}
    /\ quiet' = FALSE
    /\ UNCHANGED <<phase, cursor, top, more, page, counts, returned, gone>>

\* The writers.
Comments == ForestNext /\ Overtaken

\* The reader's own steps.
Walk == \/ \E limit \in Limits : AskRoots(limit)
        \/ FetchReplies \/ FetchCounts \/ Respond \/ Fail
        \/ Restart

Next == Comments \/ Walk

Spec == Init /\ [][Next]_vars

-----------------------------------------------------------------------------
TypeOK ==
    /\ RowsOK
    /\ phase \in {"begin", "ask", "replies", "counts", "respond", "done"}
    /\ cursor \in Ids \cup {None}
    /\ DOMAIN top \subseteq Posted /\ top \in [DOMAIN top -> BOOLEAN]
    /\ more \in BOOLEAN
    /\ DOMAIN page \subseteq Posted
    /\ page \in [DOMAIN page -> {"body", "scrubbed"}]
    /\ counts \in [DOMAIN counts -> Nat]
    /\ returned \subseteq Posted /\ steady \subseteq Live /\ gone \subseteq Posted
    /\ quiet \in BOOLEAN

(***************************************************************************)
(* Nothing is missed but what appears behind the cursor: a comment that    *)
(* was live from the beginning of the walk to its end, or from the moment  *)
(* it was posted in a thread the walk had yet to come to, is on one of the *)
(* pages, whatever happened to the comments above and around it meanwhile, *)
(* even if rows with smaller keys appear late, roots on the page boundary  *)
(* are deleted, or the requests have an odd limit.                         *)
(***************************************************************************)
LiveNeverMissed == phase = "done" => steady \subseteq returned

(***************************************************************************)
(* No comment is on two pages of a walk.                                   *)
(***************************************************************************)
NoRepeats == phase \in {"counts", "respond"} => DOMAIN page \cap returned = {}

(***************************************************************************)
(* A page can be drawn as it is: it is all about the entity, every reply   *)
(* on it hangs below a comment on it, and every placeholder has something  *)
(* below it to hold, although roots and replies were read at different     *)
(* moments.                                                                *)
(***************************************************************************)
PageHangsTogether ==
    \A k \in DOMAIN page :
       /\ rows[k].entity = Entity
       /\ rows[k].parent # None => rows[k].parent \in DOMAIN page
       /\ page[k] = "scrubbed" => Children(k) \cap DOMAIN page # {}

(***************************************************************************)
(* The body of a comment that was deleted before the request for the page  *)
(* is not on the page.                                                     *)
(***************************************************************************)
DeletedStayHidden == \A k \in gone \cap DOMAIN page : page[k] = "scrubbed"

(***************************************************************************)
(* If nobody wrote during the request, the page is exactly the visible     *)
(* part of the threads on it - so the SQL filter on roots and the pruning  *)
(* in visible_ids agree on what is visible - and each reply_count is the   *)
(* number of live replies shown right below the comment.                   *)
(***************************************************************************)
QuietPageExact ==
    quiet /\ phase = "respond" =>
       /\ DOMAIN page = {k \in DOMAIN top \cup Replies : RootVisible(k)}
       /\ DOMAIN top \subseteq DOMAIN page
       /\ \A k \in DOMAIN page :
             counts[k] = Cardinality({c \in Children(k) \cap DOMAIN page :
                                        page[c] = "body"})
=============================================================================

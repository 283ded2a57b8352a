----------------------------- MODULE VisibleIds -----------------------------
(***************************************************************************)
(* The function visible_ids of db/comments.rs, loop by loop: from every    *)
(* live comment of the list it walks up the parent links, marking ids, and *)
(* stops early at an id that is already marked.                            *)
(*                                                                         *)
(* The input is any list of comments of a forest in which parents are      *)
(* older than their children; a parent need not be on the list.            *)
(***************************************************************************)
EXTENDS Integers

CONSTANTS
    Ids,           \* ids of comments, ordered by age
    None           \* no parent

ASSUME VisibleIdsAssumption == Ids \subseteq Int /\ None \notin Ids

VARIABLES
    comments,      \* the argument: ids on the list,
    parent,        \* their parent_id,
    deleted,       \* and those with deleted_at set
    todo,          \* comments the outer loop has not come to
    next,          \* the id the inner loop looks at, or None
    visible        \* the HashSet

input == <<comments, parent, deleted>>
vars == <<comments, parent, deleted, todo, next, visible>>

Live == comments \ deleted

Init == /\ comments \in SUBSET Ids
        /\ parent \in [comments -> Ids \cup {None}]
        /\ \A id \in comments : parent[id] # None => parent[id] < id
        /\ deleted \in SUBSET comments
        /\ todo = comments
        /\ next = None
        /\ visible = {}

-----------------------------------------------------------------------------
\* The outer loop takes the next live comment; deleted ones are filtered out.
TakeLive ==
    /\ next = None
    /\ \E id \in todo : /\ todo' = todo \ {id}
                        /\ next' = IF id \in Live THEN id ELSE None
    /\ UNCHANGED <<input, visible>>

\* parents.get(&id).copied().flatten()
Up(id) == IF id \in comments THEN parent[id] ELSE None

\* Mutant: the walk does not stop there, and stays where it is.
SpinAtMarked == next \in visible /\ UNCHANGED vars

\* visible.insert(id) is false: this chain is marked already.
StopAtMarked ==
    /\ next \in visible
    /\ next' = None
    /\ UNCHANGED <<input, todo, visible>>

\* Mutants: the walk goes no further than the first deleted ancestor; a
\* comment is marked only when it is live itself.
MarkUpToDeleted ==
    /\ next # None /\ next \notin visible
    /\ visible' = visible \cup {next}
    /\ next' = IF next \in Live THEN Up(next) ELSE None
    /\ UNCHANGED <<input, todo>>
MarkLiveOnly ==
    /\ next # None /\ next \notin visible
    /\ visible' = visible \cup ({next} \cap Live)
    /\ next' = Up(next)
    /\ UNCHANGED <<input, todo>>

Mark ==
    /\ next # None /\ next \notin visible
    /\ visible' = visible \cup {next}
    /\ next' = Up(next)
    /\ UNCHANGED <<input, todo>>

Done == todo = {} /\ next = None

Next == TakeLive \/ StopAtMarked \/ Mark

Spec == Init /\ [][Next]_vars
FairSpec == Spec /\ WF_vars(Next)

-----------------------------------------------------------------------------
TypeOK == /\ comments \subseteq Ids
          /\ parent \in [comments -> Ids \cup {None}]
          /\ todo \subseteq comments
          /\ next \in Ids \cup {None}
          /\ visible \subseteq Ids

\* S holds every live comment and, with a comment, its parent.
ClosedAbove(S) ==
    /\ Live \subseteq S
    /\ \A id \in S : Up(id) # None => Up(id) \in S

(***************************************************************************)
(* The result is the least set of ids that holds every live comment and,   *)
(* with a comment, its parent: nothing is missing although the walks stop  *)
(* early, and no deleted comment is marked without a live one below it.    *)
(***************************************************************************)
LeastClosed ==
    Done => /\ ClosedAbove(visible)
            /\ \A S \in SUBSET Ids : ClosedAbove(S) => visible \subseteq S

(***************************************************************************)
(* The inductive invariant: the marked set is closed except where the walk *)
(* under way has still to go, every live comment that was taken is marked  *)
(* or being looked at, and everything is below any closed set.             *)
(***************************************************************************)
LoopInv ==
    /\ TypeOK
    /\ \A id \in visible : Up(id) # None => Up(id) \in visible \cup {next}
    /\ Live \ todo \subseteq visible \cup {next}
    /\ \A S \in SUBSET Ids :
          ClosedAbove(S) => visible \subseteq S /\ next \in S \cup {None}

(***************************************************************************)
(* The loops end.                                                          *)
(***************************************************************************)
Terminates == <>Done
=============================================================================

------------------------ MODULE ThreadListingProofs ------------------------
(***************************************************************************)
(* For any number of comments, any limits and any writers meanwhile: the   *)
(* walk misses nothing that was there, shows nothing twice and nothing     *)
(* that was deleted before it asked, and its pages hang together.          *)
(*                                                                         *)
(* The first part is about the forest: threads are disjoint and only grow. *)
(* The second is about ORDER BY .. LIMIT.  The third is the invariant of   *)
(* the walk: every comment that must not be missed has been returned, or   *)
(* its top-level comment is among the roots of the page or still ahead.    *)
(***************************************************************************)
EXTENDS ThreadListing, FiniteSetTheorems, WellFoundedInduction, TLAPS

USE ForestAssumption, ListingAssumption

TopLevel == {k \in Posted : rows[k].parent = None}

\* Every comment is in the thread of a top-level one.
Rooted == \A k \in Posted : \E r \in TopLevel : k \in Thread(r)

Forest == RowsOK /\ IsForest /\ Rooted

LEMMA KeysAreNumbers == \A k \in Ids : k \in Nat /\ k <= MaxComments
BY DEF Ids

\* NULL is no key.
LEMMA NoneNotPosted == ASSUME RowsOK PROVE None \notin Posted
<1>1. Ids \subseteq Int
  BY DEF Ids
<1> QED
  BY <1>1 DEF RowsOK

-----------------------------------------------------------------------------
\* Below(k) holds replies, and is the least set that does.
LEMMA BelowHolds ==
    ASSUME NEW k
    PROVE  /\ Below(k) \subseteq Posted
           /\ HoldsReplies(k, Below(k))
           /\ \A S \in SUBSET Posted : HoldsReplies(k, S) => Below(k) \subseteq S
<1>1. Below(k) \subseteq Posted
  BY DEF Below
<1>2. \A S \in SUBSET Posted : HoldsReplies(k, S) => Below(k) \subseteq S
  BY DEF Below
<1>3. \A i : Children(i) \subseteq Posted
  BY DEF Children
<1>4. Children(k) \subseteq Below(k)
  BY <1>3 DEF Below, HoldsReplies
<1>5. \A i \in Below(k) : Children(i) \subseteq Below(k)
  BY <1>3 DEF Below, HoldsReplies
<1> QED
  BY <1>1, <1>2, <1>4, <1>5 DEF HoldsReplies

\* That is so in every state.
Descend == \A r : HoldsReplies(r, Below(r))

LEMMA DescendAlways == Descend /\ Descend'
<1>1. Descend
  BY BelowHolds DEF Descend
<1> QED
  BY <1>1, PTL

\* What is below k hangs below k or below something that is.
LEMMA BelowParent ==
    ASSUME NEW k, NEW i \in Below(k)
    PROVE  /\ i \in Posted
           /\ rows[i].parent \in Thread(k)
<1> DEFINE S == {j \in Below(k) : rows[j].parent \in Thread(k)}
<1>1. S \subseteq Posted
  BY BelowHolds
<1>2. HoldsReplies(k, S)
  BY BelowHolds DEF HoldsReplies, Children, Thread
<1> QED
  BY <1>1, <1>2, BelowHolds

\* So nothing at the top is below anything.
LEMMA TopNotBelow ==
    ASSUME NEW k \in Posted, Forest, NEW r \in TopLevel
    PROVE  r \notin Below(k)
<1>1. None \notin Posted
  BY NoneNotPosted DEF Forest
<1>2. Thread(k) \subseteq Posted
  BY BelowHolds DEF Thread
<1> QED
  BY <1>1, <1>2, BelowParent DEF TopLevel

LEMMA BelowTransitive ==
    ASSUME NEW k, NEW i \in Below(k)
    PROVE  Below(i) \subseteq Below(k)
<1>1. HoldsReplies(i, Below(k))
  BY BelowHolds DEF HoldsReplies
<1> QED
  BY <1>1, BelowHolds

\* Threads do not overlap.
LEMMA ThreadsDisjoint ==
    ASSUME Forest, NEW a \in TopLevel, NEW b \in TopLevel,
           NEW k, k \in Thread(a), k \in Thread(b)
    PROVE  a = b
<1> SUFFICES ASSUME a # b PROVE FALSE
  OBVIOUS
<1> DEFINE S == Posted \ Thread(b)
<1>1. a \in Posted /\ b \in Posted
  BY DEF TopLevel
<1>2. ASSUME NEW i \in S, NEW c \in Children(i)
      PROVE  c \in S
  <2>1. c \in Posted /\ rows[c].parent = i
    BY DEF Children
  <2>2. c # b
    <3>1. None \notin Posted
      BY NoneNotPosted DEF Forest
    <3> QED
      BY <2>1, <3>1 DEF TopLevel
  <2>3. c \notin Below(b)
    BY <2>1, BelowParent
  <2> QED
    BY <2>1, <2>2, <2>3 DEF Thread
<1>3. a \notin Below(b)
  BY <1>1, TopNotBelow
<1>4. a \in S
  BY <1>1, <1>3 DEF Thread
<1>5. HoldsReplies(a, S)
  BY <1>2, <1>4 DEF HoldsReplies
<1>6. Below(a) \subseteq S
  BY <1>5, BelowHolds
<1> QED
  BY <1>4, <1>6 DEF Thread

\* A thread is about the entity of its top-level comment.
LEMMA ThreadEntity ==
    ASSUME Forest, NEW r \in Posted, NEW k \in Thread(r)
    PROVE  k \in Posted /\ rows[k].entity = rows[r].entity
<1> DEFINE S == {i \in Below(r) : rows[i].entity = rows[r].entity}
<1>1. S \subseteq Posted /\ Below(r) \subseteq Posted
  BY BelowHolds
<1>2. ASSUME NEW i \in Thread(r), rows[i].entity = rows[r].entity,
             NEW c \in Children(i)
      PROVE  c \in S
  <2>1. c \in Below(r)
    BY BelowHolds DEF HoldsReplies, Thread
  <2>2. c \in Posted /\ rows[c].parent = i /\ i \in Posted
    BY BelowHolds DEF Children, Thread
  <2>3. None \notin Posted
    BY NoneNotPosted DEF Forest
  <2>4. rows[c].entity = rows[i].entity
    BY <2>2, <2>3 DEF Forest, IsForest, Attached
  <2> QED
    BY <1>2, <2>1, <2>4
<1>3. HoldsReplies(r, S)
  BY <1>2 DEF HoldsReplies, Thread
<1>4. Below(r) \subseteq S
  BY <1>1, <1>3, BelowHolds
<1> QED
  BY <1>1, <1>4 DEF Thread

-----------------------------------------------------------------------------
\* What the writers do to the table, as far as it matters to a reader.
Grows ==
    /\ Posted \subseteq Posted'
    /\ \A k \in Posted : /\ rows'[k].parent = rows[k].parent
                         /\ rows'[k].entity = rows[k].entity
                         /\ rows'[k].depth = rows[k].depth
                         /\ rows[k].deleted => rows'[k].deleted

LEMMA BelowGrows == ASSUME Grows, NEW k PROVE Below(k) \subseteq Below(k)'
<1> SUFFICES ASSUME NEW i \in Below(k), NEW S \in SUBSET Posted',
                    HoldsReplies(k, S)'
             PROVE  i \in S
  BY BelowHolds DEF Below, Grows
<1>1. \A j : Children(j) \subseteq Children(j)' \cap Posted
  BY DEF Children, Grows
<1>2. HoldsReplies(k, S \cap Posted)
  BY <1>1 DEF HoldsReplies
<1> QED
  BY <1>2, BelowHolds

LEMMA ThreadGrows == ASSUME Grows, NEW k PROVE Thread(k) \subseteq Thread(k)'
BY BelowGrows DEF Thread

LEMMA TopGrows == ASSUME Grows PROVE TopLevel \subseteq TopLevel'
BY DEF Grows, TopLevel

LEMMA PostGrows ==
    ASSUME Forest, NEW k \in Ids, NEW p \in Ids \cup {None}, NEW u \in Users,
           NEW e \in Entities, NEW b \in Bodies, NEW t \in Users \cup {None},
           Post(k, p, u, e, b, t)
    PROVE  Grows /\ Forest'
<1>1. /\ k \notin Posted /\ Posted' = Posted \cup {k}
      /\ \A i \in Posted : rows'[i] = rows[i]
      /\ rows' = [i \in Posted' |-> rows'[i]]
  BY DEF Post, Posted
<1>2. rows'[k] = [parent |-> p, user |-> u, entity |-> e, body |-> b,
                  depth |-> IF p = None THEN 0 ELSE rows[p].depth + 1,
                  replyTo |-> t, deleted |-> FALSE]
  BY <1>1 DEF Post
<1>3. p # None => p \in Posted /\ p < k /\ rows[p].entity = e
  BY DEF Post
<1>4. Grows
  BY <1>1 DEF Grows
<1>5. RowsOK'
  <2>1. (IF p = None THEN 0 ELSE rows[p].depth + 1) \in Nat
    BY <1>3 DEF Forest, RowsOK, Row
  <2>2. rows'[k] \in Row
    BY <1>2, <2>1 DEF Row
  <2> QED
    BY <1>1, <2>2 DEF Forest, RowsOK
<1>6. IsForest'
  <2>1. Attached(k)'
    BY <1>1, <1>2, <1>3 DEF Attached
  <2>2. ASSUME NEW i \in Posted PROVE Attached(i)'
    BY <1>1 DEF Forest, IsForest, Attached
  <2> QED
    BY <1>1, <2>1, <2>2 DEF IsForest
<1>7. Rooted'
  <2>1. ASSUME NEW i \in Posted PROVE \E r \in TopLevel' : i \in Thread(r)'
    BY <1>4, TopGrows, ThreadGrows DEF Forest, Rooted
  <2>2. CASE p = None
    <3>1. k \in TopLevel' /\ k \in Thread(k)'
      BY <1>1, <1>2, <2>2 DEF TopLevel, Thread
    <3> QED
      BY <1>1, <2>1, <3>1 DEF Rooted
  <2>3. CASE p # None
    <3>1. PICK r \in TopLevel' : p \in Thread(r)'
      BY <1>3, <2>1, <2>3
    <3>2. k \in Children(p)'
      BY <1>1, <1>2 DEF Children
    <3>3. Children(p)' \subseteq Below(r)'
      BY <3>1, DescendAlways DEF Descend, HoldsReplies, Thread
    <3> QED
      BY <1>1, <2>1, <3>1, <3>2, <3>3 DEF Rooted, Thread
  <2> QED
    BY <2>2, <2>3
<1> QED
  BY <1>4, <1>5, <1>6, <1>7 DEF Forest

\* UPDATE touches the body or deleted_at of one row.
LEMMA UpdateGrows ==
    ASSUME Forest, NEW k \in Ids,
           Remove(k) \/ \E b \in Bodies : Edit(k, b)
    PROVE  Grows /\ Forest' /\ Posted' = Posted
<1>1. k \in Posted /\ Posted' = Posted /\ \A i \in Posted : rows[i] \in Row
  BY DEF Remove, Edit, Posted, Forest, RowsOK
<1>2. \A i \in Posted : /\ rows'[i] \in Row
                        /\ rows'[i].parent = rows[i].parent
                        /\ rows'[i].entity = rows[i].entity
                        /\ rows'[i].depth = rows[i].depth
                        /\ rows[i].deleted => rows'[i].deleted
  <2>1. ASSUME NEW i \in Posted, i # k PROVE rows'[i] = rows[i]
    BY <1>1, <2>1 DEF Posted, Remove, Edit
  <2>2. \/ rows'[k] = [rows[k] EXCEPT !.deleted = TRUE]
        \/ \E b \in Bodies : rows'[k] = [rows[k] EXCEPT !.body = b]
    BY <1>1 DEF Posted, Remove, Edit
  <2>3. /\ rows'[k] \in Row
        /\ rows'[k].parent = rows[k].parent
        /\ rows'[k].entity = rows[k].entity
        /\ rows'[k].depth = rows[k].depth
        /\ rows[k].deleted => rows'[k].deleted
    BY <1>1, <2>2 DEF Row
  <2> QED
    BY <1>1, <2>1, <2>3
<1>3. Grows
  BY <1>1, <1>2 DEF Grows
<1>4. RowsOK'
  <2>1. rows' = [i \in Posted' |-> rows'[i]]
    BY <1>1 DEF Remove, Edit, Posted
  <2> QED
    BY <1>1, <1>2, <2>1 DEF Forest, RowsOK
<1>5. IsForest'
  <2> SUFFICES ASSUME NEW i \in Posted PROVE Attached(i)'
    BY <1>1 DEF IsForest
  <2>1. Attached(i)
    BY DEF Forest, IsForest
  <2> QED
    BY <1>1, <1>2, <2>1 DEF Attached
<1>6. Rooted'
  BY <1>1, <1>3, TopGrows, ThreadGrows DEF Forest, Rooted
<1> QED
  BY <1>1, <1>3, <1>4, <1>5, <1>6 DEF Forest

(***************************************************************************)
(* So much a reader may rely on, whoever writes: comments stay where they  *)
(* are, the table stays a forest, and a comment that appears is live.      *)
(***************************************************************************)
LEMMA WritersGrow ==
    ASSUME Forest, ForestNext
    PROVE  /\ Grows /\ Forest'
           /\ \A i \in Posted' \ Posted : ~rows'[i].deleted
<1>1. PICK k \in Ids :
         \/ \E p \in Ids \cup {None}, u \in Users, e \in Entities, b \in Bodies,
               t \in Users \cup {None} : Post(k, p, u, e, b, t)
         \/ \E b \in Bodies : Edit(k, b)
         \/ Remove(k)
  BY DEF ForestNext
<1>2. CASE Remove(k) \/ \E b \in Bodies : Edit(k, b)
  BY <1>2, UpdateGrows
<1>3. ASSUME NEW p \in Ids \cup {None}, NEW u \in Users, NEW e \in Entities,
             NEW b \in Bodies, NEW t \in Users \cup {None},
             Post(k, p, u, e, b, t)
      PROVE  /\ Grows /\ Forest'
             /\ \A i \in Posted' \ Posted : ~rows'[i].deleted
  <2>1. Grows /\ Forest'
    BY <1>3, PostGrows
  <2>2. Posted' = Posted \cup {k} /\ k \notin Posted
    BY <1>3 DEF Post, Posted
  <2>3. ~rows'[k].deleted
    BY <1>3 DEF Post
  <2> QED
    BY <2>1, <2>2, <2>3
<1> QED
  BY <1>1, <1>2, <1>3

\* A query leaves the table as it is.
LEMMA SameTable ==
    ASSUME UNCHANGED rows
    PROVE  /\ Posted' = Posted /\ Live' = Live /\ TopLevel' = TopLevel
           /\ \A k : /\ Children(k)' = Children(k)
                     /\ Below(k)' = Below(k)
                     /\ Thread(k)' = Thread(k)
                     /\ RootVisible(k)' = RootVisible(k)
           /\ Forest => Forest'
<1>1. Posted' = Posted /\ Live' = Live /\ TopLevel' = TopLevel
  BY DEF Posted, Live, TopLevel
<1>2. \A k : Children(k)' = Children(k)
  BY <1>1 DEF Children
<1>3. \A k, S : HoldsReplies(k, S)' = HoldsReplies(k, S)
  BY <1>2 DEF HoldsReplies
<1>4. \A k : Below(k)' = Below(k)
  BY <1>1, <1>3 DEF Below
<1>5. \A k : Thread(k)' = Thread(k)
  BY <1>4 DEF Thread
<1>6. \A k : RootVisible(k)' = RootVisible(k)
  BY <1>1, <1>4 DEF RootVisible
<1>7. Forest => Forest'
  <2>1. RowsOK => RowsOK'
    BY DEF RowsOK, Posted
  <2>2. IsForest => IsForest'
    BY <1>1 DEF IsForest, Attached
  <2>3. Rooted => Rooted'
    BY <1>1, <1>5 DEF Rooted
  <2> QED
    BY <2>1, <2>2, <2>3 DEF Forest
<1> QED
  BY <1>1, <1>2, <1>4, <1>5, <1>6, <1>7

(***************************************************************************)
(* Every comment is in the thread of a top-level one - so the pages, which *)
(* are made of the threads of roots, leave out no reply - and it stays in  *)
(* that thread for good, whatever is posted, edited and deleted.           *)
(***************************************************************************)
THEOREM EveryoneHasAThread ==
    ForestSpec => /\ [](IsForest /\ Rooted)
                  /\ [][ /\ Grows
                         /\ \A k \in Posted :
                               Thread(k) \subseteq Thread(k)' ]_rows
<1>1. ForestInit => Forest
  BY DEF ForestInit, Forest, RowsOK, IsForest, Rooted, Posted
<1>2. Forest /\ ForestNext =>
         Forest' /\ Grows /\ \A k \in Posted : Thread(k) \subseteq Thread(k)'
  BY WritersGrow, ThreadGrows
<1>3. Forest /\ UNCHANGED rows => Forest'
  BY SameTable
<1>4. Forest => IsForest /\ Rooted
  BY DEF Forest
<1> QED
  BY <1>1, <1>2, <1>3, <1>4, PTL DEF ForestSpec

-----------------------------------------------------------------------------
\* A page has room for something.
LEMMA LimitPositive ==
    ASSUME NEW limit \in Limits
    PROVE  effective_limit(limit) \in Nat \ {0}
<1>1. CASE limit = None
  BY <1>1 DEF effective_limit
<1>2. CASE limit # None
  BY <1>2 DEF effective_limit
<1> QED
  BY <1>1, <1>2

LEMMA LeastKey ==
    ASSUME NEW S \in SUBSET Nat, S # {}
    PROVE  \E m \in S : \A i \in S : m <= i
<1>1. PICK m \in S : \A i \in S : ~ (<<i, m>> \in OpToRel(<, Nat))
  BY WFMin, NatLessThanWellFounded
<1>2. ASSUME NEW i \in S PROVE m <= i
  <2>1. <<i, m>> \in OpToRel(<, Nat) <=> i < m
    BY DEF OpToRel
  <2>2. m \in Nat /\ i \in Nat
    OBVIOUS
  <2>3. ~ (i < m)
    BY <1>1, <2>1
  <2> QED
    BY <2>2, <2>3
<1> QED
  BY <1>2

LEMMA GreatestKey ==
    ASSUME NEW S \in SUBSET Ids, S # {}
    PROVE  \E m \in S : \A i \in S : i <= m
<1> DEFINE T == {MaxComments - k : k \in S}
<1>1. T \in SUBSET Nat /\ T # {}
  <2>1. \A k \in S : MaxComments - k \in Nat
    BY KeysAreNumbers
  <2> QED
    BY <2>1
<1>2. PICK t \in T : \A i \in T : t <= i
  BY <1>1, LeastKey
<1>3. PICK m \in S : t = MaxComments - m
  OBVIOUS
<1>4. ASSUME NEW i \in S PROVE i <= m
  <2>1. t <= MaxComments - i
    BY <1>2
  <2> QED
    BY <1>3, <2>1, KeysAreNumbers
<1> QED
  BY <1>4

LEMMA KeysFinite ==
    ASSUME NEW S \in SUBSET Ids
    PROVE  IsFiniteSet(S) /\ Cardinality(S) \in Nat
<1>1. IsFiniteSet(Ids)
  BY FS_Interval DEF Ids
<1> QED
  BY <1>1, FS_Subset, FS_CardinalityType

(***************************************************************************)
(* LIMIT n takes the smallest keys: none if there are none, and if one is  *)
(* left out there is another page, and it comes after all that are not.    *)
(***************************************************************************)
LEMMA FirstTakesSmallest ==
    ASSUME NEW S \in SUBSET Ids, NEW n \in Nat \ {0}
    PROVE  /\ First(n, S) \subseteq S
           /\ S # {} => First(n, S) # {}
           /\ \A k \in S \ First(n, S) : /\ Cardinality(S) > n
                                         /\ \A t \in First(n, S) : t < k
<1>1. First(n, S) \subseteq S
  BY DEF First
<1>2. ASSUME S # {} PROVE First(n, S) # {}
  <2>1. S \in SUBSET Nat
    BY KeysAreNumbers
  <2>2. PICK m \in S : \A i \in S : m <= i
    BY <1>2, <2>1, LeastKey
  <2>3. {i \in S : i < m} = {}
    <3>1. \A i \in S : ~ (i < m)
      BY <2>1, <2>2
    <3> QED
      BY <3>1
  <2>4. Cardinality({i \in S : i < m}) < n
    BY <2>3, FS_EmptySet
  <2> QED
    BY <2>4 DEF First
<1>3. ASSUME NEW k \in S \ First(n, S)
      PROVE  /\ Cardinality(S) > n
             /\ \A t \in First(n, S) : t < k
  <2> DEFINE before(j) == {i \in S : i < j}
  <2>0. \A j : before(j) \in SUBSET Ids
    OBVIOUS
  <2>1. /\ \A j : before(j) \in SUBSET Ids
        /\ \A i \in S : i \in Int
    BY <2>0, KeysAreNumbers
  <2>2. \A j : IsFiniteSet(before(j)) /\ Cardinality(before(j)) \in Nat
    BY <2>1, KeysFinite
  <2>3. Cardinality(before(k)) >= n
    BY <2>2 DEF First
  <2>4. Cardinality(S) > n
    <3>1. before(k) \cup {k} \in SUBSET S /\ k \notin before(k)
      BY <2>1
    <3>2. Cardinality(before(k) \cup {k}) = Cardinality(before(k)) + 1
      BY <2>2, <3>1, FS_AddElement
    <3>3. /\ Cardinality(before(k) \cup {k}) <= Cardinality(S)
          /\ Cardinality(S) \in Nat
      BY <3>1, KeysFinite, FS_Subset
    <3> QED
      BY <2>2, <2>3, <3>2, <3>3
  <2>5. ASSUME NEW t \in First(n, S), k <= t PROVE FALSE
    <3>1. t \in S /\ Cardinality(before(t)) < n
      BY DEF First
    <3>2. before(k) \in SUBSET before(t)
      BY <2>1, <2>5, <3>1
    <3>3. Cardinality(before(k)) <= Cardinality(before(t))
      BY <2>2, <3>2, FS_Subset
    <3> QED
      BY <2>2, <2>3, <3>1, <3>3
  <2> QED
    BY <1>1, <2>1, <2>4, <2>5
<1> QED
  BY <1>1, <1>2, <1>3

\* The cursor points to the last root.
LEMMA NextCursorLast ==
    ASSUME DOMAIN top \subseteq Ids, DOMAIN top # {}
    PROVE  NextCursor \in DOMAIN top /\ \A i \in DOMAIN top : i <= NextCursor
<1>1. \E k \in DOMAIN top : \A i \in DOMAIN top : i <= k
  BY GreatestKey
<1> QED
  BY <1>1 DEF NextCursor

\* That is so in every state, too.
CursorAtLast ==
    DOMAIN top \subseteq Ids /\ DOMAIN top # {} => NextCursor \in DOMAIN top

LEMMA NextCursorAlways == CursorAtLast /\ CursorAtLast'
<1>1. CursorAtLast
  BY NextCursorLast DEF CursorAtLast
<1> QED
  BY <1>1, PTL

-----------------------------------------------------------------------------
Reading == phase \in {"replies", "counts", "respond"}
Built   == phase \in {"counts", "respond"}

\* The roots of the page come after the cursor.
RootsAhead ==
    Reading =>
       /\ DOMAIN top # {}
       /\ \A r \in DOMAIN top : /\ r \in TopLevel /\ rows[r].entity = Entity
                                /\ AfterCursor(r)
                                /\ top[r] => rows[r].deleted

\* The page is empty until the replies are there, and shows their threads.
PageOfRoots ==
    /\ Built => \A k \in DOMAIN page : \E r \in DOMAIN top : k \in Thread(r)
    /\ ~Built => DOMAIN page = {}

\* What the reader has comes from threads up to the cursor.
Behind ==
    /\ phase = "begin" => returned = {} /\ cursor = None /\ steady = {}
    /\ phase # "done" =>
          \A k \in returned :
             cursor # None /\ \E r \in TopLevel : r <= cursor /\ k \in Thread(r)

\* What will come: on the page to be asked for, on this one, on a later one.
Due(k) ==
    \/ phase = "ask" /\ \E r \in TopLevel : k \in Thread(r) /\ AfterCursor(r)
    \/ phase = "replies" /\ \E r \in DOMAIN top : k \in Thread(r)
    \/ Built /\ k \in DOMAIN page
    \/ Reading /\ more /\ \E r \in TopLevel : k \in Thread(r) /\ r > NextCursor

\* Nothing steady is lost.
SteadyDue == \A k \in steady : rows[k].entity = Entity /\ (k \in returned \/ Due(k))

\* What was deleted before the request is known to be.
GoneKnown == \A k \in gone : /\ rows[k].deleted
                             /\ phase = "replies" /\ k \in DOMAIN top => top[k]

\* What the queries of an undisturbed request agree on.
Undisturbed ==
    quiet =>
       /\ phase = "replies" => \A k \in DOMAIN top : /\ top[k] = rows[k].deleted
                                                     /\ RootVisible(k)
       /\ Built => /\ DOMAIN page = {k \in DOMAIN top \cup Replies : RootVisible(k)}
                   /\ DOMAIN top \subseteq DOMAIN page
                   /\ \A k \in DOMAIN page : page[k] = "body" <=> k \in Live
       /\ phase = "respond" => \A k \in DOMAIN page : counts[k] = LiveReplies(k)

ListInv == /\ TypeOK /\ Forest /\ RootsAhead /\ PageOfRoots /\ Behind
           /\ SteadyDue /\ GoneKnown /\ Undisturbed
           /\ PageHangsTogether /\ DeletedStayHidden

LEMMA InitListInv == Init => ListInv
<1> SUFFICES ASSUME Init PROVE ListInv
  OBVIOUS
<1>1. Posted = {} /\ rows = [k \in {} |-> None]
  BY DEF Init, ForestInit, Posted
<1>2. DOMAIN top = {} /\ DOMAIN page = {} /\ DOMAIN counts = {}
  BY DEF Init, Empty
<1>3. TypeOK
  <2>1. RowsOK
    BY <1>1 DEF RowsOK
  <2>2. /\ top \in [DOMAIN top -> BOOLEAN]
        /\ page \in [DOMAIN page -> {"body", "scrubbed"}]
        /\ counts \in [DOMAIN counts -> Nat]
    BY <1>2 DEF Init, Empty
  <2> QED
    BY <1>1, <1>2, <2>1, <2>2 DEF Init, TypeOK
<1>4. Forest
  BY <1>1, <1>3 DEF TypeOK, Forest, IsForest, Rooted
<1> QED
  BY <1>1, <1>2, <1>3, <1>4
  DEF Init, ListInv, RootsAhead, PageOfRoots, Behind, SteadyDue, GoneKnown,
      Undisturbed, PageHangsTogether, DeletedStayHidden, Reading, Built

\* A live comment whose root is still to come brings it onto the list.
LEMMA RootListed ==
    ASSUME TypeOK, Forest, NEW k \in Live, rows[k].entity = Entity,
           NEW r \in TopLevel, k \in Thread(r), AfterCursor(r)
    PROVE  r \in Roots
<1>1. r \in Posted /\ rows[r].parent = None
  BY DEF TopLevel
<1>2. rows[r].entity = Entity
  BY <1>1, ThreadEntity
<1>3. rows[r].depth = 0
  <2>1. None \notin Posted
    BY NoneNotPosted DEF Forest
  <2> QED
    BY <1>1, <2>1 DEF Forest, IsForest, Attached
<1>4. RootVisible(r)
  BY DEF RootVisible, Thread
<1> QED
  BY <1>1, <1>2, <1>3, <1>4 DEF Roots

\* Roots are top-level comments of the entity, after the cursor.
LEMMA RootsAtTop ==
    ASSUME Forest, NEW r \in Roots
    PROVE  /\ r \in TopLevel /\ rows[r].entity = Entity
           /\ AfterCursor(r) /\ RootVisible(r)
<1>1. r \in Posted /\ rows[r].depth = 0
  BY DEF Roots
<1>2. rows[r].parent = None
  <2>1. SUFFICES ASSUME rows[r].parent \in Posted PROVE rows[r].depth # 0
    BY <1>1 DEF Forest, IsForest, Attached
  <2>2. rows[rows[r].parent].depth \in Nat
    BY <2>1 DEF Forest, RowsOK, Row
  <2>3. rows[r].depth = rows[rows[r].parent].depth + 1
    <3>1. None \notin Posted
      BY NoneNotPosted DEF Forest
    <3> QED
      BY <1>1, <2>1, <3>1 DEF Forest, IsForest, Attached
  <2> QED
    BY <2>2, <2>3
<1> QED
  BY <1>1, <1>2 DEF Roots, TopLevel

-----------------------------------------------------------------------------
LEMMA AskRootsInv ==
    ASSUME ListInv, NEW limit \in Limits, AskRoots(limit)
    PROVE  ListInv'
<1> DEFINE n     == effective_limit(limit)
           found == Roots
<1>1. /\ phase \in {"begin", "ask"}
      /\ top' = [k \in First(n, found) |-> rows[k].deleted]
      /\ more' = (Cardinality(found) > n)
      /\ phase' = IF DOMAIN top' = {} THEN "done" ELSE "replies"
      /\ steady' = IF phase = "begin" THEN {k \in Live : rows[k].entity = Entity}
                   ELSE steady
      /\ gone' = Posted \ Live
      /\ quiet' = TRUE
      /\ UNCHANGED <<rows, cursor, page, counts, returned>>
  BY DEF AskRoots
<1>2. /\ TypeOK /\ Forest /\ PageOfRoots /\ Behind /\ SteadyDue
      /\ DOMAIN page = {}
  BY <1>1 DEF ListInv, PageOfRoots, Built
<1>3. found \in SUBSET Posted /\ found \in SUBSET Ids
  BY <1>2 DEF Roots, TypeOK, RowsOK
<1>4. n \in Nat \ {0}
  BY LimitPositive
<1> HIDE DEF n, found
<1>5. /\ First(n, found) \subseteq found
      /\ found # {} => First(n, found) # {}
      /\ \A k \in found \ First(n, found) :
            Cardinality(found) > n /\ \A t \in First(n, found) : t < k
  BY <1>3, <1>4, FirstTakesSmallest
<1>6. DOMAIN top' = First(n, found)
  BY <1>1
<1>7. /\ Posted' = Posted /\ Live' = Live /\ TopLevel' = TopLevel
      /\ \A k : Thread(k)' = Thread(k) /\ RootVisible(k)' = RootVisible(k)
      /\ Forest'
  BY <1>1, <1>2, SameTable
<1>8. \A r \in DOMAIN top' :
         /\ r \in Posted /\ r \in TopLevel /\ rows[r].entity = Entity
         /\ AfterCursor(r) /\ RootVisible(r)
  BY <1>2, <1>3, <1>5, <1>6, RootsAtTop DEF found
<1>9. \A k : AfterCursor(k)' <=> AfterCursor(k)
  BY <1>1 DEF AfterCursor
<1>10. TypeOK'
  <2>1. /\ top' \in [DOMAIN top' -> BOOLEAN]
        /\ DOMAIN top' \subseteq Posted'
    <3>1. \A k \in Posted : rows[k].deleted \in BOOLEAN
      BY <1>2 DEF TypeOK, RowsOK, Row
    <3> QED
      BY <1>1, <1>3, <1>5, <1>6, <1>7, <3>1
  <2>2. RowsOK'
    BY <1>7 DEF Forest
  <2>3. steady' \subseteq Live' /\ gone' \subseteq Posted'
    BY <1>1, <1>2, <1>7 DEF TypeOK
  <2>4. more' \in BOOLEAN
    BY <1>1
  <2> QED
    BY <1>1, <1>2, <1>7, <2>1, <2>2, <2>3, <2>4 DEF TypeOK
<1>11. RootsAhead'
  BY <1>1, <1>7, <1>8, <1>9 DEF RootsAhead, Reading
<1>12. PageOfRoots'
  BY <1>1, <1>2 DEF PageOfRoots, Built
<1>13. Behind'
  BY <1>1, <1>2, <1>7 DEF Behind
<1>14. SteadyDue'
  <2> SUFFICES ASSUME NEW k \in steady'
               PROVE  rows[k].entity = Entity /\ (k \in returned \/ Due(k)')
    BY <1>1 DEF SteadyDue
  <2>1. k \in Live /\ rows[k].entity = Entity
    BY <1>1, <1>2 DEF TypeOK, SteadyDue
  <2>2. SUFFICES ASSUME k \notin returned PROVE Due(k)'
    BY <2>1
  <2>3. PICK r \in TopLevel : k \in Thread(r) /\ AfterCursor(r)
    <3>1. CASE phase = "begin"
      BY <1>2, <2>1, <3>1 DEF Behind, AfterCursor, Forest, Rooted, Live
    <3>2. CASE phase = "ask"
      BY <1>1, <1>2, <2>2, <3>2 DEF SteadyDue, Due, Built, Reading
    <3> QED
      BY <1>1, <3>1, <3>2
  <2>4. r \in found
    BY <1>2, <2>1, <2>3, RootListed DEF found
  <2>5. phase' = "replies" /\ DOMAIN top' # {}
    BY <1>1, <1>5, <1>6, <2>4
  <2>6. CASE r \in First(n, found)
    BY <1>6, <1>7, <2>3, <2>5, <2>6 DEF Due
  <2>7. CASE r \notin First(n, found)
    <3>1. more' /\ \A t \in DOMAIN top' : t < r
      BY <1>1, <1>5, <1>6, <2>4, <2>7
    <3>2. NextCursor' \in DOMAIN top'
      <4>1. DOMAIN top' \subseteq Ids
        BY <1>3, <1>5, <1>6
      <4> QED
        BY <2>5, <4>1, NextCursorAlways DEF CursorAtLast, Ids
    <3>3. NextCursor' < r
      BY <3>1, <3>2
    <3>4. NextCursor' \in Int /\ r \in Int
      BY <1>3, <1>5, <1>6, <2>4, <3>2, KeysAreNumbers
    <3>5. r > NextCursor'
      BY <3>3, <3>4
    <3> QED
      BY <1>7, <2>3, <2>5, <3>1, <3>5 DEF Due, Reading
  <2> QED
    BY <2>6, <2>7
<1>15. GoneKnown'
  <2>1. \A k \in gone' : rows'[k].deleted /\ (k \in DOMAIN top' => top'[k])
    BY <1>1, <1>6 DEF Live
  <2> QED
    BY <2>1 DEF GoneKnown
<1>16. Undisturbed'
  <2>1. \A k \in DOMAIN top' : top'[k] = rows'[k].deleted /\ RootVisible(k)'
    BY <1>1, <1>6, <1>7, <1>8
  <2>2. phase' \in {"done", "replies"}
    BY <1>1
  <2> QED
    BY <2>1, <2>2 DEF Undisturbed, Built
<1>17. PageHangsTogether' /\ DeletedStayHidden'
  BY <1>1, <1>2 DEF PageHangsTogether, DeletedStayHidden
<1> QED
  BY <1>7, <1>10, <1>11, <1>12, <1>13, <1>14, <1>15, <1>16, <1>17 DEF ListInv

-----------------------------------------------------------------------------
\* visible_ids holds the live rows and their ancestors, and is least.
LEMMA VisibleHolds ==
    ASSUME NEW g
    PROVE  /\ VisibleIds(g) \subseteq DOMAIN g
           /\ HoldsAncestors(g, VisibleIds(g))
           /\ \A S \in SUBSET DOMAIN g :
                 HoldsAncestors(g, S) => VisibleIds(g) \subseteq S
<1>1. /\ VisibleIds(g) \subseteq DOMAIN g
      /\ \A S \in SUBSET DOMAIN g :
            HoldsAncestors(g, S) => VisibleIds(g) \subseteq S
  BY DEF VisibleIds
<1>2. {k \in DOMAIN g : ~g[k]} \subseteq VisibleIds(g)
  BY DEF VisibleIds, HoldsAncestors
<1>3. ASSUME NEW k \in VisibleIds(g), rows[k].parent \in DOMAIN g
      PROVE  rows[k].parent \in VisibleIds(g)
  BY <1>3 DEF VisibleIds, HoldsAncestors
<1> QED
  BY <1>1, <1>2, <1>3 DEF HoldsAncestors

\* The rows at hand are the threads of the roots.
LEMMA GatheredThreads ==
    /\ DOMAIN Gathered = DOMAIN top \cup Replies
    /\ \A r \in DOMAIN top : Thread(r) \subseteq DOMAIN Gathered
    /\ \A k \in DOMAIN Gathered : \E r \in DOMAIN top : k \in Thread(r)
    /\ \A k \in DOMAIN Gathered :
          Gathered[k] = IF k \in DOMAIN top THEN top[k] ELSE rows[k].deleted
<1>1. DOMAIN Gathered = DOMAIN top \cup Replies
  BY DEF Gathered
<1>2. \A k : k \in Replies <=> \E r \in DOMAIN top : k \in Below(r)
  BY DEF Replies
<1>3. \A k \in DOMAIN Gathered :
         Gathered[k] = IF k \in DOMAIN top THEN top[k] ELSE rows[k].deleted
  BY DEF Gathered
<1> QED
  BY <1>1, <1>2, <1>3 DEF Thread

(***************************************************************************)
(* The pruning and the filter agree: of rows that make up whole threads,   *)
(* read at one moment, visible_ids keeps those that are live or have       *)
(* something live below them.                                              *)
(***************************************************************************)
LEMMA PruningIsFilter ==
    ASSUME NEW g, DOMAIN g \subseteq Posted,
           \A k \in DOMAIN g : g[k] = rows[k].deleted /\ Below(k) \subseteq DOMAIN g
    PROVE  VisibleIds(g) = {k \in DOMAIN g : RootVisible(k)}
<1>1. \A k \in DOMAIN g : ~g[k] <=> k \in Live
  BY DEF Live
<1>2. VisibleIds(g) \subseteq {k \in DOMAIN g : RootVisible(k)}
  <2> DEFINE S == {k \in DOMAIN g : RootVisible(k)}
  <2>1. {k \in DOMAIN g : ~g[k]} \subseteq S
    BY <1>1 DEF RootVisible
  <2>2. ASSUME NEW k \in S, rows[k].parent \in DOMAIN g
        PROVE  rows[k].parent \in S
    <3>1. k \in Children(rows[k].parent)
      BY DEF Children
    <3>2. k \in Below(rows[k].parent)
      BY <3>1, BelowHolds DEF HoldsReplies
    <3>3. Below(k) \subseteq Below(rows[k].parent)
      BY <3>2, BelowTransitive
    <3> QED
      BY <2>2, <3>2, <3>3 DEF RootVisible
  <2>3. HoldsAncestors(g, S)
    BY <2>1, <2>2 DEF HoldsAncestors
  <2> QED
    BY <2>3, VisibleHolds
<1>3. ASSUME NEW k \in DOMAIN g, RootVisible(k), k \notin VisibleIds(g)
      PROVE  FALSE
  <2> DEFINE T == Below(k) \ VisibleIds(g)
  <2>1. k \notin Live
    BY <1>1, <1>3, VisibleHolds DEF HoldsAncestors
  <2>2. PICK l \in Below(k) : l \in Live
    BY <1>3, <2>1 DEF RootVisible
  <2>3. l \in VisibleIds(g)
    BY <1>1, <2>2, VisibleHolds DEF HoldsAncestors
  <2>4. ASSUME NEW i \in DOMAIN g, i \notin VisibleIds(g), NEW c \in Children(i)
        PROVE  c \notin VisibleIds(g)
    BY <2>4, VisibleHolds DEF HoldsAncestors, Children
  <2>5. HoldsReplies(k, T)
    <3>1. Children(k) \subseteq T
      BY <1>3, <2>4, BelowHolds DEF HoldsReplies
    <3>2. \A i \in T : Children(i) \subseteq T
      BY <2>4, BelowHolds DEF HoldsReplies
    <3> QED
      BY <3>1, <3>2 DEF HoldsReplies
  <2>6. Below(k) \subseteq T
    BY <2>5, BelowHolds
  <2> QED
    BY <2>2, <2>3, <2>6
<1> QED
  BY <1>2, <1>3, VisibleHolds

LEMMA FetchRepliesInv ==
    ASSUME ListInv, FetchReplies
    PROVE  ListInv'
<1> DEFINE g == Gathered
           V == VisibleIds(g)
<1>1. /\ phase = "replies" /\ phase' = "counts"
      /\ page' = [k \in V |-> Shown(g[k])]
      /\ UNCHANGED <<rows, cursor, top, more, counts, returned, steady, gone,
                     quiet>>
  BY DEF FetchReplies
<1>2. /\ TypeOK /\ Forest /\ RootsAhead /\ Behind /\ SteadyDue /\ GoneKnown
      /\ Undisturbed
  BY DEF ListInv
<1>3. /\ Posted' = Posted /\ Live' = Live /\ TopLevel' = TopLevel
      /\ \A k : /\ Children(k)' = Children(k) /\ Below(k)' = Below(k)
                /\ Thread(k)' = Thread(k) /\ RootVisible(k)' = RootVisible(k)
      /\ Forest'
  BY <1>1, <1>2, SameTable
<1>4. /\ DOMAIN g = DOMAIN top \cup Replies
      /\ \A r \in DOMAIN top : Thread(r) \subseteq DOMAIN g
      /\ \A k \in DOMAIN g : \E r \in DOMAIN top : k \in Thread(r)
      /\ \A k \in DOMAIN g :
            g[k] = IF k \in DOMAIN top THEN top[k] ELSE rows[k].deleted
  BY GatheredThreads
<1> HIDE DEF g
<1>5. /\ V \subseteq DOMAIN g /\ HoldsAncestors(g, V)
      /\ \A S \in SUBSET DOMAIN g : HoldsAncestors(g, S) => V \subseteq S
  BY VisibleHolds
<1> HIDE DEF V
<1>6. \A r \in DOMAIN top : /\ r \in TopLevel /\ r \in Posted
                            /\ rows[r].entity = Entity /\ AfterCursor(r)
                            /\ top[r] => rows[r].deleted
  BY <1>1, <1>2 DEF RootsAhead, Reading, TopLevel
<1>7. \A k \in DOMAIN g : k \in Posted /\ rows[k].entity = Entity
  BY <1>2, <1>4, <1>6, ThreadEntity
<1>8. /\ DOMAIN page' = V
      /\ \A k \in V : page'[k] = IF g[k] THEN "scrubbed" ELSE "body"
  BY <1>1 DEF Shown
<1>9. TypeOK'
  <2>1. page' \in [DOMAIN page' -> {"body", "scrubbed"}]
    BY <1>1 DEF Shown
  <2>2. DOMAIN page' \subseteq Posted'
    BY <1>3, <1>5, <1>7, <1>8
  <2> QED
    BY <1>1, <1>2, <1>3, <2>1, <2>2 DEF TypeOK, Forest
<1>10. RootsAhead'
  BY <1>1, <1>2, <1>3 DEF RootsAhead, Reading, AfterCursor
<1>11. PageOfRoots'
  BY <1>1, <1>3, <1>4, <1>5, <1>8 DEF PageOfRoots, Built
<1>12. Behind'
  BY <1>1, <1>2, <1>3 DEF Behind
<1>13. SteadyDue'
  <2> SUFFICES ASSUME NEW k \in steady, k \notin returned PROVE Due(k)'
    BY <1>1, <1>2 DEF SteadyDue
  <2>1. k \in Live /\ Due(k)
    BY <1>2 DEF TypeOK, SteadyDue
  <2>2. CASE \E r \in DOMAIN top : k \in Thread(r)
    <3>1. k \in DOMAIN g
      BY <1>4, <2>2
    <3>2. ~g[k]
      BY <1>4, <1>6, <2>1, <3>1 DEF Live
    <3>3. k \in V
      BY <1>5, <3>1, <3>2 DEF HoldsAncestors
    <3> QED
      BY <1>1, <1>8, <3>3 DEF Due, Built
  <2>3. CASE /\ more
             /\ \E r \in TopLevel : k \in Thread(r) /\ r > NextCursor
    <3>1. NextCursor' = NextCursor
      BY <1>1 DEF NextCursor
    <3> QED
      BY <1>1, <1>3, <2>3, <3>1 DEF Due, Reading
  <2> QED
    BY <1>1, <2>1, <2>2, <2>3 DEF Due, Built
<1>14. GoneKnown'
  BY <1>1, <1>2 DEF GoneKnown
<1>15. Undisturbed'
  <2> SUFFICES ASSUME quiet
      PROVE  /\ V = {k \in DOMAIN top \cup Replies : RootVisible(k)}
             /\ DOMAIN top \subseteq V
             /\ \A k \in V : page'[k] = "body" <=> k \in Live
    <3>1. Replies' = Replies
      BY <1>1, <1>3 DEF Replies
    <3> QED
      BY <1>1, <1>3, <1>8, <3>1 DEF Undisturbed, Built
  <2>1. \A k \in DOMAIN top : top[k] = rows[k].deleted /\ RootVisible(k)
    BY <1>1, <1>2 DEF Undisturbed
  <2>2. \A k \in DOMAIN g : g[k] = rows[k].deleted
    BY <1>4, <2>1
  <2>3. ASSUME NEW k \in DOMAIN g PROVE Below(k) \subseteq DOMAIN g
    <3>1. PICK r \in DOMAIN top : k \in Thread(r)
      BY <1>4
    <3>2. Below(k) \subseteq Thread(r)
      BY <3>1, BelowTransitive DEF Thread
    <3> QED
      BY <1>4, <3>2
  <2>4. V = {k \in DOMAIN g : RootVisible(k)}
    BY <1>7, <2>2, <2>3, PruningIsFilter DEF V
  <2>5. \A k \in V : page'[k] = "body" <=> k \in Live
    BY <1>5, <1>7, <1>8, <2>2 DEF Live
  <2> QED
    BY <1>4, <2>1, <2>4, <2>5
<1>16. PageHangsTogether'
  <2> SUFFICES ASSUME NEW k \in V
      PROVE  /\ rows[k].entity = Entity
             /\ rows[k].parent # None => rows[k].parent \in V
             /\ page'[k] = "scrubbed" => Children(k) \cap V # {}
    BY <1>1, <1>3, <1>8 DEF PageHangsTogether
  <2>1. k \in DOMAIN g /\ k \in Posted
    BY <1>5, <1>7
  <2>2. ASSUME rows[k].parent # None PROVE rows[k].parent \in V
    <3>1. k \notin DOMAIN top
      BY <1>6, <2>2 DEF TopLevel
    <3>2. PICK r \in DOMAIN top : k \in Below(r)
      BY <1>4, <2>1, <3>1 DEF Thread
    <3>3. rows[k].parent \in DOMAIN g
      BY <1>4, <3>2, BelowParent
    <3> QED
      BY <1>5, <3>3 DEF HoldsAncestors
  <2>3. ASSUME page'[k] = "scrubbed", Children(k) \cap V = {} PROVE FALSE
    <3>1. g[k]
      BY <1>8, <2>3
    <3>2. \A j \in V : rows[j].parent # k
      BY <1>5, <1>7, <2>3 DEF Children
    <3>3. HoldsAncestors(g, V \ {k})
      BY <1>5, <3>1, <3>2 DEF HoldsAncestors
    <3> QED
      BY <1>5, <3>3
  <2> QED
    BY <1>7, <2>1, <2>2, <2>3
<1>17. DeletedStayHidden'
  <2> SUFFICES ASSUME NEW k \in gone, k \in V PROVE g[k]
    BY <1>1, <1>8 DEF DeletedStayHidden
  <2> QED
    BY <1>1, <1>2, <1>4, <1>5 DEF GoneKnown
<1> QED
  BY <1>3, <1>9, <1>10, <1>11, <1>12, <1>13, <1>14, <1>15, <1>16, <1>17
  DEF ListInv

LEMMA FetchCountsInv ==
    ASSUME ListInv, FetchCounts
    PROVE  ListInv'
<1>1. /\ phase = "counts" /\ phase' = "respond"
      /\ counts' = [k \in DOMAIN page |-> LiveReplies(k)]
      /\ UNCHANGED <<rows, cursor, top, more, page, returned, steady, gone,
                     quiet>>
  BY DEF FetchCounts
<1>2. /\ TypeOK /\ Forest /\ RootsAhead /\ PageOfRoots /\ Behind /\ SteadyDue
      /\ GoneKnown /\ Undisturbed /\ PageHangsTogether /\ DeletedStayHidden
  BY DEF ListInv
<1>3. /\ Posted' = Posted /\ Live' = Live /\ TopLevel' = TopLevel
      /\ \A k : /\ Children(k)' = Children(k) /\ Below(k)' = Below(k)
                /\ Thread(k)' = Thread(k) /\ RootVisible(k)' = RootVisible(k)
      /\ Forest'
  BY <1>1, <1>2, SameTable
<1>4. TypeOK'
  <2>1. ASSUME NEW k PROVE LiveReplies(k) \in Nat
    <3>1. Children(k) \cap Live \in SUBSET Ids
      BY <1>2 DEF Children, TypeOK, RowsOK
    <3> QED
      BY <3>1, KeysFinite DEF LiveReplies
  <2>2. counts' \in [DOMAIN counts' -> Nat]
    BY <1>1, <2>1
  <2> QED
    BY <1>1, <1>2, <1>3, <2>2 DEF TypeOK, Forest
<1>5. RootsAhead' /\ PageOfRoots' /\ Behind' /\ GoneKnown'
  BY <1>1, <1>2, <1>3
  DEF RootsAhead, PageOfRoots, Behind, GoneKnown, Reading, Built, AfterCursor
<1>6. SteadyDue'
  <2>1. NextCursor' = NextCursor
    BY <1>1 DEF NextCursor
  <2>2. ASSUME NEW k, Due(k) PROVE Due(k)'
    BY <1>1, <1>3, <2>1, <2>2 DEF Due, Built, Reading
  <2> QED
    BY <1>1, <1>2, <2>2 DEF SteadyDue
<1>7. Undisturbed'
  <2>1. Replies' = Replies
    BY <1>1, <1>3 DEF Replies
  <2>2. \A k : LiveReplies(k)' = LiveReplies(k)
    BY <1>3 DEF LiveReplies
  <2>3. \A k \in DOMAIN page : counts'[k] = LiveReplies(k)
    BY <1>1
  <2> QED
    BY <1>1, <1>2, <1>3, <2>1, <2>2, <2>3 DEF Undisturbed, Built
<1>8. PageHangsTogether' /\ DeletedStayHidden'
  BY <1>1, <1>2, <1>3 DEF PageHangsTogether, DeletedStayHidden
<1> QED
  BY <1>3, <1>4, <1>5, <1>6, <1>7, <1>8 DEF ListInv

\* The facts about the cursor that the end of a request needs.
LEMMA CursorMoves ==
    ASSUME TypeOK, RootsAhead, Reading
    PROVE  /\ NextCursor \in Ids /\ NextCursor # None
           /\ \A r \in DOMAIN top : r <= NextCursor
           /\ \A r \in Ids : r > NextCursor => AfterCursor(r)
           /\ cursor # None =>
                 \A r \in Ids : r <= cursor => r <= NextCursor
<1>1. DOMAIN top \subseteq Ids /\ DOMAIN top # {}
  BY DEF TypeOK, RowsOK, RootsAhead
<1>2. NextCursor \in DOMAIN top /\ \A r \in DOMAIN top : r <= NextCursor
  BY <1>1, NextCursorLast
<1>3. AfterCursor(NextCursor)
  BY <1>2 DEF RootsAhead
<1>4. NextCursor \in Ids
  BY <1>1, <1>2
<1>5. cursor # None => cursor \in Ids
  BY DEF TypeOK
<1>6. NextCursor # None
  BY <1>4, KeysAreNumbers
<1> QED
  BY <1>2, <1>3, <1>4, <1>5, <1>6, KeysAreNumbers DEF AfterCursor

LEMMA RespondInv ==
    ASSUME ListInv, Respond
    PROVE  ListInv'
<1>1. /\ phase = "respond" /\ phase' = IF more THEN "ask" ELSE "done"
      /\ returned' = returned \cup DOMAIN page
      /\ cursor' = IF more THEN NextCursor ELSE cursor
      /\ page' = Empty /\ counts' = Empty /\ top' = Empty /\ more' = FALSE
      /\ UNCHANGED <<rows, steady, gone, quiet>>
  BY DEF Respond
<1>2. /\ TypeOK /\ Forest /\ RootsAhead /\ PageOfRoots /\ Behind /\ SteadyDue
      /\ GoneKnown
  BY DEF ListInv
<1>3. /\ Posted' = Posted /\ Live' = Live /\ TopLevel' = TopLevel
      /\ \A k : Thread(k)' = Thread(k)
      /\ Forest'
  BY <1>1, <1>2, SameTable
<1>4. Reading
  BY <1>1 DEF Reading
<1>5. /\ NextCursor \in Ids /\ NextCursor # None
      /\ \A r \in DOMAIN top : r <= NextCursor
      /\ \A r \in Ids : r > NextCursor => AfterCursor(r)
      /\ cursor # None => \A r \in Ids : r <= cursor => r <= NextCursor
  BY <1>2, <1>4, CursorMoves
<1>6. TopLevel \subseteq Ids
  BY <1>2 DEF TopLevel, TypeOK, RowsOK
<1>7. /\ DOMAIN top' = {} /\ DOMAIN page' = {} /\ DOMAIN counts' = {}
      /\ top' \in [DOMAIN top' -> BOOLEAN]
      /\ page' \in [DOMAIN page' -> {"body", "scrubbed"}]
      /\ counts' \in [DOMAIN counts' -> Nat]
  BY <1>1 DEF Empty
<1>8. TypeOK'
  BY <1>1, <1>2, <1>3, <1>5, <1>7 DEF TypeOK, Forest
<1>9. Behind'
  <2> SUFFICES ASSUME more, NEW k \in returned'
               PROVE  \E r \in TopLevel : r <= NextCursor /\ k \in Thread(r)
    BY <1>1, <1>3, <1>5 DEF Behind
  <2>1. CASE k \in returned
    <3>1. cursor # None /\ \E r \in TopLevel : r <= cursor /\ k \in Thread(r)
      BY <1>1, <1>2, <2>1 DEF Behind
    <3> QED
      BY <1>5, <1>6, <3>1
  <2>2. CASE k \in DOMAIN page
    <3>1. PICK r \in DOMAIN top : k \in Thread(r)
      BY <1>1, <1>2, <2>2 DEF PageOfRoots, Built
    <3>2. r \in TopLevel
      BY <1>2, <1>4 DEF RootsAhead
    <3> QED
      BY <1>5, <3>1, <3>2
  <2> QED
    BY <1>1, <2>1, <2>2
<1>10. SteadyDue'
  <2> SUFFICES ASSUME NEW k \in steady, k \notin returned' PROVE Due(k)'
    BY <1>1, <1>2 DEF SteadyDue
  <2>1. /\ more
        /\ \E r \in TopLevel : k \in Thread(r) /\ r > NextCursor
    BY <1>1, <1>2 DEF SteadyDue, Due, Built, Reading
  <2>2. phase' = "ask" /\ cursor' = NextCursor
    BY <1>1, <2>1
  <2> QED
    BY <1>3, <2>1, <2>2 DEF Due, AfterCursor
<1>11. GoneKnown'
  BY <1>1, <1>2 DEF GoneKnown
<1>12. RootsAhead' /\ PageOfRoots' /\ Undisturbed'
  BY <1>1, <1>7 DEF RootsAhead, PageOfRoots, Undisturbed, Reading, Built
<1>13. PageHangsTogether' /\ DeletedStayHidden'
  BY <1>7 DEF PageHangsTogether, DeletedStayHidden
<1> QED
  BY <1>3, <1>8, <1>9, <1>10, <1>11, <1>12, <1>13 DEF ListInv

LEMMA FailInv ==
    ASSUME ListInv, Fail
    PROVE  ListInv'
<1>1. /\ Reading /\ phase' = "ask"
      /\ page' = Empty /\ counts' = Empty /\ top' = Empty /\ more' = FALSE
      /\ UNCHANGED <<rows, cursor, returned, steady, gone, quiet>>
  BY DEF Fail, Reading
<1>2. /\ TypeOK /\ Forest /\ RootsAhead /\ PageOfRoots /\ Behind /\ SteadyDue
      /\ GoneKnown
  BY DEF ListInv
<1>3. /\ Posted' = Posted /\ Live' = Live /\ TopLevel' = TopLevel
      /\ \A k : Thread(k)' = Thread(k)
      /\ Forest'
  BY <1>1, <1>2, SameTable
<1>4. /\ DOMAIN top' = {} /\ DOMAIN page' = {} /\ DOMAIN counts' = {}
      /\ top' \in [DOMAIN top' -> BOOLEAN]
      /\ page' \in [DOMAIN page' -> {"body", "scrubbed"}]
      /\ counts' \in [DOMAIN counts' -> Nat]
  BY <1>1 DEF Empty
<1>5. TypeOK'
  BY <1>1, <1>2, <1>3, <1>4 DEF TypeOK, Forest
<1>6. Behind'
  BY <1>1, <1>2, <1>3 DEF Behind, Reading
<1>7. SteadyDue'
  <2> SUFFICES ASSUME NEW k \in steady, k \notin returned
               PROVE  \E r \in TopLevel : k \in Thread(r) /\ AfterCursor(r)
    BY <1>1, <1>2, <1>3 DEF SteadyDue, Due, AfterCursor
  <2>1. Due(k)
    BY <1>2 DEF SteadyDue
  <2>2. CASE \E r \in DOMAIN top : k \in Thread(r)
    BY <1>1, <1>2, <2>2 DEF RootsAhead
  <2>3. CASE Built /\ k \in DOMAIN page
    BY <1>1, <1>2, <2>2, <2>3 DEF PageOfRoots
  <2>4. CASE \E r \in TopLevel : k \in Thread(r) /\ r > NextCursor
    <3>1. \A r \in Ids : r > NextCursor => AfterCursor(r)
      BY <1>1, <1>2, CursorMoves
    <3>2. TopLevel \subseteq Ids
      BY <1>2 DEF TopLevel, TypeOK, RowsOK
    <3> QED
      BY <2>4, <3>1, <3>2
  <2> QED
    BY <1>1, <2>1, <2>2, <2>3, <2>4 DEF Due, Reading
<1>8. GoneKnown'
  BY <1>1, <1>2 DEF GoneKnown
<1>9. RootsAhead' /\ PageOfRoots' /\ Undisturbed'
  BY <1>1, <1>4 DEF RootsAhead, PageOfRoots, Undisturbed, Reading, Built
<1>10. PageHangsTogether' /\ DeletedStayHidden'
  BY <1>4 DEF PageHangsTogether, DeletedStayHidden
<1> QED
  BY <1>3, <1>5, <1>6, <1>7, <1>8, <1>9, <1>10 DEF ListInv

LEMMA RestartInv ==
    ASSUME ListInv, Restart
    PROVE  ListInv'
<1>1. /\ phase' = "begin" /\ cursor' = None
      /\ page' = Empty /\ counts' = Empty /\ top' = Empty /\ more' = FALSE
      /\ returned' = {} /\ steady' = {} /\ gone' = {} /\ quiet' = TRUE
      /\ UNCHANGED rows
  BY DEF Restart
<1>2. Forest'
  BY <1>1, SameTable DEF ListInv
<1>3. /\ DOMAIN top' = {} /\ DOMAIN page' = {} /\ DOMAIN counts' = {}
      /\ top' \in [DOMAIN top' -> BOOLEAN]
      /\ page' \in [DOMAIN page' -> {"body", "scrubbed"}]
      /\ counts' \in [DOMAIN counts' -> Nat]
  BY <1>1 DEF Empty
<1>4. TypeOK'
  BY <1>1, <1>2, <1>3 DEF TypeOK, Forest
<1>5. RootsAhead' /\ PageOfRoots' /\ Undisturbed'
  BY <1>1, <1>3 DEF RootsAhead, PageOfRoots, Undisturbed, Reading, Built
<1>6. Behind' /\ SteadyDue' /\ GoneKnown'
  BY <1>1 DEF Behind, SteadyDue, GoneKnown
<1>7. PageHangsTogether' /\ DeletedStayHidden'
  BY <1>3 DEF PageHangsTogether, DeletedStayHidden
<1> QED
  BY <1>2, <1>4, <1>5, <1>6, <1>7 DEF ListInv

LEMMA CommentsInv ==
    ASSUME ListInv, Comments
    PROVE  ListInv'
<1>1. /\ steady' = {k \in steady : ~rows'[k].deleted} \cup
                   {k \in DOMAIN rows' \ Posted :
                      /\ rows'[k].entity = Entity
                      /\ \E i \in DOMAIN rows' :
                            rows'[i].parent = None /\ Ahead(i) /\ k \in Thread(i)'}
      /\ quiet' = FALSE
      /\ UNCHANGED <<phase, cursor, top, more, page, counts, returned, gone>>
  BY DEF Comments, Overtaken
<1>2. /\ TypeOK /\ Forest /\ RootsAhead /\ PageOfRoots /\ Behind /\ SteadyDue
      /\ GoneKnown /\ PageHangsTogether /\ DeletedStayHidden
  BY DEF ListInv
<1>3. /\ Grows /\ Forest'
      /\ \A k \in Posted' \ Posted : ~rows'[k].deleted
  BY <1>2, WritersGrow DEF Comments
<1>4. /\ Posted \subseteq Posted' /\ TopLevel \subseteq TopLevel'
      /\ \A k : Thread(k) \subseteq Thread(k)'
      /\ \A k \in Posted : /\ rows'[k].parent = rows[k].parent
                           /\ rows'[k].entity = rows[k].entity
                           /\ rows[k].deleted => rows'[k].deleted
  BY <1>3, TopGrows, ThreadGrows DEF Grows
<1>5. TypeOK'
  <2>1. steady' \subseteq Live'
    BY <1>1, <1>2, <1>3, <1>4 DEF TypeOK, Live, Posted
  <2>2. RowsOK'
    BY <1>3 DEF Forest
  <2> QED
    BY <1>1, <1>2, <1>4, <2>1, <2>2 DEF TypeOK
<1>6. RootsAhead'
  <2> SUFFICES ASSUME Reading
      PROVE  /\ DOMAIN top # {}
             /\ \A r \in DOMAIN top : /\ r \in TopLevel' /\ rows'[r].entity = Entity
                                      /\ AfterCursor(r)
                                      /\ top[r] => rows'[r].deleted
    BY <1>1 DEF RootsAhead, Reading, AfterCursor
  <2>1. DOMAIN top \subseteq Posted
    BY <1>2 DEF TypeOK
  <2> QED
    BY <1>2, <1>4, <2>1 DEF RootsAhead
<1>7. PageOfRoots'
  BY <1>1, <1>2, <1>4 DEF PageOfRoots, Built
<1>8. Behind'
  <2>1. phase = "begin" => steady' = {}
    BY <1>1, <1>2 DEF Behind, Ahead
  <2> QED
    BY <1>1, <1>2, <1>4, <2>1 DEF Behind
<1>9. SteadyDue'
  <2>1. NextCursor' = NextCursor
    BY <1>1 DEF NextCursor
  <2>2. ASSUME NEW k \in steady
        PROVE  rows'[k].entity = Entity /\ (k \in returned \/ Due(k)')
    <3>1. k \in Posted /\ rows[k].entity = Entity
      BY <1>2 DEF TypeOK, Live, SteadyDue
    <3>2. ASSUME Due(k) PROVE Due(k)'
      BY <1>1, <1>4, <2>1, <3>2 DEF Due, Built, Reading, AfterCursor
    <3> QED
      BY <1>2, <1>4, <3>1, <3>2 DEF SteadyDue
  <2>3. ASSUME NEW k \in steady', k \notin steady
        PROVE  rows'[k].entity = Entity /\ Due(k)'
    <3>1. /\ rows'[k].entity = Entity
          /\ \E i \in DOMAIN rows' :
                rows'[i].parent = None /\ Ahead(i) /\ k \in Thread(i)'
      BY <1>1, <2>3
    <3>2. PICK i \in TopLevel' : Ahead(i) /\ k \in Thread(i)'
      BY <3>1 DEF TopLevel, Posted
    <3> QED
      BY <1>1, <2>1, <3>1, <3>2 DEF Ahead, Due, Reading, AfterCursor
  <2> QED
    BY <1>1, <2>2, <2>3 DEF SteadyDue
<1>10. GoneKnown'
  BY <1>1, <1>2, <1>4 DEF GoneKnown, TypeOK
<1>11. Undisturbed'
  BY <1>1 DEF Undisturbed
<1>12. PageHangsTogether'
  <2>1. DOMAIN page \subseteq Posted
    BY <1>2 DEF TypeOK
  <2>2. \A k : Children(k) \subseteq Children(k)'
    BY <1>4 DEF Children
  <2> QED
    BY <1>1, <1>2, <1>4, <2>1, <2>2 DEF PageHangsTogether
<1>13. DeletedStayHidden'
  BY <1>1, <1>2 DEF DeletedStayHidden
<1> QED
  BY <1>3, <1>5, <1>6, <1>7, <1>8, <1>9, <1>10, <1>11, <1>12, <1>13 DEF ListInv

LEMMA StutterInv ==
    ASSUME ListInv, UNCHANGED vars
    PROVE  ListInv'
<1>1. UNCHANGED <<rows, phase, cursor, top, more, page, counts, returned,
                  steady, gone, quiet>>
  BY DEF vars, reader
<1>2. /\ Posted' = Posted /\ Live' = Live /\ TopLevel' = TopLevel
      /\ \A k : /\ Children(k)' = Children(k) /\ Below(k)' = Below(k)
                /\ Thread(k)' = Thread(k) /\ RootVisible(k)' = RootVisible(k)
      /\ Forest'
  BY <1>1, SameTable DEF ListInv
<1>3. TypeOK'
  BY <1>1, <1>2 DEF ListInv, TypeOK, Forest
<1>4. RootsAhead' /\ PageOfRoots' /\ Behind' /\ GoneKnown'
  BY <1>1, <1>2
  DEF ListInv, RootsAhead, PageOfRoots, Behind, GoneKnown, Reading, Built,
      AfterCursor
<1>5. SteadyDue'
  <2>1. NextCursor' = NextCursor
    BY <1>1 DEF NextCursor
  <2>2. ASSUME NEW k, Due(k) PROVE Due(k)'
    BY <1>1, <1>2, <2>1, <2>2 DEF Due, Built, Reading, AfterCursor
  <2> QED
    BY <1>1, <2>2 DEF ListInv, SteadyDue
<1>6. Undisturbed'
  <2>1. Replies' = Replies
    BY <1>1, <1>2 DEF Replies
  <2>2. \A k : LiveReplies(k)' = LiveReplies(k)
    BY <1>2 DEF LiveReplies
  <2> QED
    BY <1>1, <1>2, <2>1, <2>2 DEF ListInv, Undisturbed, Built
<1>7. PageHangsTogether' /\ DeletedStayHidden'
  BY <1>1, <1>2 DEF ListInv, PageHangsTogether, DeletedStayHidden
<1> QED
  BY <1>2, <1>3, <1>4, <1>5, <1>6, <1>7 DEF ListInv

\* The walk keeps the invariant, one action at a time.
LEMMA ListInvariant == Spec => []ListInv
<1>1. Init => ListInv
  BY InitListInv
<1>2. ListInv /\ [Next]_vars => ListInv'
  <2> SUFFICES ASSUME ListInv, [Next]_vars PROVE ListInv'
    OBVIOUS
  <2>1. CASE Comments
    BY <2>1, CommentsInv
  <2>2. CASE \E limit \in Limits : AskRoots(limit)
    BY <2>2, AskRootsInv
  <2>3. CASE FetchReplies
    BY <2>3, FetchRepliesInv
  <2>4. CASE FetchCounts
    BY <2>4, FetchCountsInv
  <2>5. CASE Respond
    BY <2>5, RespondInv
  <2>6. CASE Fail
    BY <2>6, FailInv
  <2>7. CASE Restart
    BY <2>7, RestartInv
  <2>8. CASE UNCHANGED vars
    BY <2>8, StutterInv
  <2> QED
    BY <2>1, <2>2, <2>3, <2>4, <2>5, <2>6, <2>7, <2>8 DEF Next, Walk
<1> QED
  BY <1>1, <1>2, PTL DEF Spec

-----------------------------------------------------------------------------
\* The state of the table and of the walk is what TypeOK says.
THEOREM ListingTyped == Spec => []TypeOK
<1>1. ListInv => TypeOK
  BY DEF ListInv
<1> QED
  BY <1>1, ListInvariant, PTL

(***************************************************************************)
(* A walk to the end returns every comment that was live throughout, or    *)
(* that was posted in a thread still ahead of it, and live from then on:   *)
(* list_comments' keyset pages lose nothing to writers.                    *)
(***************************************************************************)
THEOREM NothingMissed == Spec => []LiveNeverMissed
<1>1. ListInv => LiveNeverMissed
  BY DEF ListInv, SteadyDue, Due, Built, Reading, LiveNeverMissed
<1> QED
  BY <1>1, ListInvariant, PTL

(***************************************************************************)
(* No comment is on two pages of a walk: the pages are made of different   *)
(* threads, those up to the cursor and those after it.                     *)
(***************************************************************************)
THEOREM NothingTwice == Spec => []NoRepeats
<1>1. ListInv => NoRepeats
  <2> SUFFICES ASSUME ListInv, Built, NEW k \in DOMAIN page, k \in returned
               PROVE  FALSE
    BY DEF NoRepeats, Built
  <2>1. PICK r \in DOMAIN top : k \in Thread(r)
    BY DEF ListInv, PageOfRoots
  <2>2. r \in TopLevel /\ AfterCursor(r)
    BY DEF ListInv, RootsAhead, Reading, Built
  <2>3. cursor # None /\ \E s \in TopLevel : s <= cursor /\ k \in Thread(s)
    BY DEF ListInv, Behind, Built
  <2>4. PICK s \in TopLevel : s <= cursor /\ k \in Thread(s)
    BY <2>3
  <2>5. r = s
    BY <2>1, <2>2, <2>4, ThreadsDisjoint DEF ListInv
  <2>6. cursor \in Ids /\ r \in Ids
    BY <2>2, <2>3 DEF ListInv, TypeOK, RowsOK, TopLevel
  <2> QED
    BY <2>2, <2>3, <2>4, <2>5, <2>6, KeysAreNumbers DEF AfterCursor
<1> QED
  BY <1>1, ListInvariant, PTL

(***************************************************************************)
(* Every reply on a page hangs below a comment on the page, and every      *)
(* placeholder holds something, although build_comment_response works on   *)
(* roots and replies of different moments.                                 *)
(***************************************************************************)
THEOREM PagesHangTogether == Spec => []PageHangsTogether
<1>1. ListInv => PageHangsTogether
  BY DEF ListInv
<1> QED
  BY <1>1, ListInvariant, PTL

\* A page never has the body of a comment deleted before it was asked for.
THEOREM DeletedHidden == Spec => []DeletedStayHidden
<1>1. ListInv => DeletedStayHidden
  BY DEF ListInv
<1> QED
  BY <1>1, ListInvariant, PTL

(***************************************************************************)
(* A page read while nobody wrote is the visible part of its threads, with *)
(* the right reply counts: ROOT_IS_VISIBLE in the query and visible_ids in *)
(* the handler mean the same (PruningIsFilter).                            *)
(***************************************************************************)
THEOREM QuietExact == Spec => []QuietPageExact
<1>1. ListInv => QuietPageExact
  <2> SUFFICES ASSUME ListInv, quiet, phase = "respond", NEW k \in DOMAIN page
      PROVE  Children(k) \cap Live =
                {c \in Children(k) \cap DOMAIN page : page[c] = "body"}
    BY DEF ListInv, Undisturbed, Built, QuietPageExact, LiveReplies
  <2>1. /\ DOMAIN page = {i \in DOMAIN top \cup Replies : RootVisible(i)}
        /\ \A i \in DOMAIN page : page[i] = "body" <=> i \in Live
    BY DEF ListInv, Undisturbed, Built
  <2>2. PICK r \in DOMAIN top : k \in Thread(r)
    BY DEF ListInv, PageOfRoots, Built
  <2>3. Children(k) \subseteq Replies
    <3>1. Children(k) \subseteq Below(r)
      BY <2>2, BelowHolds DEF HoldsReplies, Thread
    <3> QED
      BY <3>1 DEF Replies
  <2>4. \A c \in Live : RootVisible(c)
    BY DEF RootVisible
  <2> QED
    BY <2>1, <2>3, <2>4
<1> QED
  BY <1>1, ListInvariant, PTL

-----------------------------------------------------------------------------
(***************************************************************************)
(* The module VisibleIds, run on the rows of a page: `visible` is what the *)
(* loops would have to end with.                                           *)
(***************************************************************************)
Loops == INSTANCE VisibleIds WITH
            comments <- DOMAIN Gathered,
            parent   <- [k \in DOMAIN Gathered |-> rows[k].parent],
            deleted  <- {k \in DOMAIN Gathered : Gathered[k]},
            todo     <- {},
            next     <- None,
            visible  <- VisibleIds(Gathered)

\* The rows are an input the loops are proved for: parents are older.
LoopsInput ==
    \A k \in DOMAIN Gathered :
       /\ k \in Ids /\ rows[k].parent \in Ids \cup {None}
       /\ rows[k].parent # None => rows[k].parent < k

\* V is the set that the loops compute (VisibleIdsProofs!ComputesLeast).
LoopsResult(V) ==
    /\ Loops!ClosedAbove(V)
    /\ \A S \in SUBSET Ids : Loops!ClosedAbove(S) => V \subseteq S

(***************************************************************************)
(* The pruning of a page is what the loops of visible_ids compute for its  *)
(* rows, so what is proved of the walk is proved of the loops' result: a   *)
(* page has whole threads, hence no parent outside the rows at hand.       *)
(***************************************************************************)
THEOREM PruningIsLoops ==
    Spec => [](phase = "replies" =>
                 /\ LoopsInput
                 /\ \A V \in SUBSET Ids :
                       LoopsResult(V) <=> V = VisibleIds(Gathered))
<1>1. ListInv /\ phase = "replies" =>
         /\ LoopsInput
         /\ \A V \in SUBSET Ids : LoopsResult(V) <=> V = VisibleIds(Gathered)
  <2> SUFFICES ASSUME ListInv, phase = "replies"
      PROVE  /\ LoopsInput
             /\ \A V \in SUBSET Ids :
                   LoopsResult(V) <=> V = VisibleIds(Gathered)
    OBVIOUS
  <2> DEFINE g == Gathered
             W == VisibleIds(g)
  <2>1. /\ TypeOK /\ Forest /\ None \notin Posted
        /\ \A r \in DOMAIN top : r \in TopLevel
    BY NoneNotPosted DEF ListInv, RootsAhead, Reading, Forest
  <2>2. /\ \A r \in DOMAIN top : Thread(r) \subseteq DOMAIN g
        /\ \A k \in DOMAIN g : \E r \in DOMAIN top : k \in Thread(r)
    BY GatheredThreads
  <2>3. DOMAIN g \subseteq Posted /\ DOMAIN g \subseteq Ids
    BY <2>1, <2>2, ThreadEntity DEF TopLevel, TypeOK, RowsOK
  <2>4. \A k \in DOMAIN g : rows[k].parent # None => rows[k].parent \in DOMAIN g
    <3> SUFFICES ASSUME NEW k \in DOMAIN g, rows[k].parent # None
                 PROVE  rows[k].parent \in DOMAIN g
      OBVIOUS
    <3>1. PICK r \in DOMAIN top : k \in Thread(r)
      BY <2>2
    <3>2. k \in Below(r)
      BY <2>1, <3>1 DEF Thread, TopLevel
    <3> QED
      BY <2>2, <3>2, BelowParent
  <2>5. LoopsInput
    <3> SUFFICES ASSUME NEW k \in DOMAIN g
        PROVE  /\ k \in Ids /\ rows[k].parent \in Ids \cup {None}
               /\ rows[k].parent # None => rows[k].parent < k
      BY DEF LoopsInput
    <3> QED
      BY <2>1, <2>3 DEF Forest, RowsOK, Row, IsForest, Attached
  <2>6. /\ W \subseteq DOMAIN g /\ HoldsAncestors(g, W)
        /\ \A S \in SUBSET DOMAIN g : HoldsAncestors(g, S) => W \subseteq S
    BY VisibleHolds
  <2>7. \A S : Loops!ClosedAbove(S) <=>
                  /\ {k \in DOMAIN g : ~g[k]} \subseteq S
                  /\ \A k \in S \cap DOMAIN g :
                        rows[k].parent # None => rows[k].parent \in S
    BY DEF Loops!ClosedAbove, Loops!Live, Loops!Up
  <2> HIDE DEF g, W
  <2>8. Loops!ClosedAbove(W)
    BY <2>4, <2>6, <2>7 DEF HoldsAncestors
  <2>9. ASSUME NEW S \in SUBSET Ids, Loops!ClosedAbove(S)
        PROVE  W \subseteq S
    <3>1. {k \in DOMAIN g : ~g[k]} \subseteq S \cap DOMAIN g
      BY <2>7, <2>9
    <3>2. ASSUME NEW k \in S \cap DOMAIN g, rows[k].parent \in DOMAIN g
          PROVE  rows[k].parent \in S \cap DOMAIN g
      BY <2>1, <2>3, <2>7, <2>9, <3>2
    <3>3. HoldsAncestors(g, S \cap DOMAIN g)
      BY <3>1, <3>2 DEF HoldsAncestors
    <3> QED
      BY <2>6, <3>3
  <2>10. W \in SUBSET Ids
    BY <2>3, <2>6
  <2>11. LoopsResult(W)
    BY <2>8, <2>9 DEF LoopsResult
  <2>12. ASSUME NEW V \in SUBSET Ids, LoopsResult(V) PROVE V = W
    <3>1. V \subseteq W
      BY <2>8, <2>10, <2>12 DEF LoopsResult
    <3>2. W \subseteq V
      BY <2>9, <2>12 DEF LoopsResult
    <3> QED
      BY <3>1, <3>2
  <2> QED
    BY <2>5, <2>11, <2>12 DEF W, g
<1> QED
  BY <1>1, ListInvariant, PTL
=============================================================================

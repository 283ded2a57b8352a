--------------------------- MODULE ReactionsProofs ---------------------------
(***************************************************************************)
(* For any number of users, comments, emoji and concurrent requests: an    *)
(* author hears of a reaction at most as often as it was inserted, and     *)
(* nobody reacts to a comment that was deleted before they asked.          *)
(*                                                                         *)
(* What makes the first so is that the INSERT inserts at most once between *)
(* two removals and only the request whose INSERT it was goes on to tell:  *)
(* the tellings done and under way are as many as the insertions at most.  *)
(* At the end, that a user's card, counted in two queries while all this   *)
(* goes on, hangs together.                                                *)
(***************************************************************************)
EXTENDS UserCard, FiniteSetTheorems, TLAPS

USE ForestAssumption, ReactionsAssumption

\* A request that is under way is about a reaction, and one that is about to
\* notify found its comment in the table.
Aimed ==
    \A r \in Requests :
       /\ req[r].pc # "idle" => req[r].on \in Reaction
       /\ req[r].pc = "author" => req[r].on.comment \in Posted

\* The comment of a late request stays deleted, so it never gets past the
\* first statement.
Lateness ==
    \A r \in Requests : req[r].late =>
       /\ req[r].pc = "check"
       /\ req[r].on.comment \in Posted \ Live

ReactInv == TypeOK /\ Aimed /\ Lateness /\ NotifiedOncePerReaction

\* What the writers leave alone: comments stay, with their authors, and the
\* deleted ones stay deleted.
LEMMA CommentsStay ==
    ASSUME RowsOK, ForestNext
    PROVE  /\ RowsOK'
           /\ Posted \subseteq Posted'
           /\ \A k \in Posted : /\ rows'[k].user = rows[k].user
                                /\ rows[k].deleted => rows'[k].deleted
<1>1. PICK k \in Ids :
         \/ \E p \in Ids \cup {None}, u \in Users, e \in Entities, b \in Bodies,
              t \in Users \cup {None} : Post(k, p, u, e, b, t)
         \/ \E b \in Bodies : Edit(k, b)
         \/ Remove(k)
  BY DEF ForestNext
<1>2. ASSUME NEW p \in Ids \cup {None}, NEW u \in Users, NEW e \in Entities,
             NEW b \in Bodies, NEW t \in Users \cup {None},
             Post(k, p, u, e, b, t)
      PROVE  /\ RowsOK'
             /\ Posted \subseteq Posted'
             /\ \A i \in Posted : rows'[i] = rows[i]
  <2>1. /\ Posted' = Posted \cup {k}
        /\ \A i \in Posted : rows'[i] = rows[i]
    BY <1>2 DEF Post, Posted
  <2>2. (IF p = None THEN 0 ELSE rows[p].depth + 1) \in Nat
    BY <1>2 DEF Post, RowsOK, Row
  <2>3. rows'[k] \in Row
    BY <1>2, <2>2 DEF Post, Row
  <2>4. rows' = [i \in Posted' |-> rows'[i]]
    BY <1>2, <2>1 DEF Post
  <2> QED
    BY <2>1, <2>3, <2>4 DEF RowsOK
<1>3. ASSUME NEW b \in Bodies, Edit(k, b)
      PROVE  /\ RowsOK' /\ Posted' = Posted
             /\ \A i \in Posted : /\ rows'[i].user = rows[i].user
                                  /\ rows'[i].deleted = rows[i].deleted
  BY <1>3 DEF Edit, RowsOK, Row, Posted
<1>4. ASSUME Remove(k)
      PROVE  /\ RowsOK' /\ Posted' = Posted
             /\ \A i \in Posted : /\ rows'[i].user = rows[i].user
                                  /\ rows[i].deleted => rows'[i].deleted
  BY <1>4 DEF Remove, RowsOK, Row, Posted
<1> QED
  BY <1>1, <1>2, <1>3, <1>4

\* The requests that tell of a reaction are finitely many.
LEMMA TellingFinite ==
    ASSUME NEW x
    PROVE  IsFiniteSet(Telling(x)) /\ Cardinality(Telling(x)) \in Nat
<1>1. Telling(x) \in SUBSET Requests
  BY DEF Telling
<1> QED
  BY <1>1, FS_Subset, FS_CardinalityType

\* A step after which no other request tells leaves at most as many.
LEMMA FewerTell ==
    ASSUME NEW x,
           \A r \in Requests : req'[r] = req[r] \/ req'[r].pc # "author"
    PROVE  /\ Telling(x)' \subseteq Telling(x)
           /\ Cardinality(Telling(x)') \in Nat
           /\ Cardinality(Telling(x)') <= Cardinality(Telling(x))
<1>1. Telling(x)' \subseteq Telling(x)
  BY DEF Telling
<1>2. IsFiniteSet(Telling(x))
  BY TellingFinite
<1> QED
  BY <1>1, <1>2, FS_Subset, FS_CardinalityType

LEMMA InitReact == Init => ReactInv
<1> SUFFICES ASSUME Init PROVE ReactInv
  OBVIOUS
<1>1. TypeOK
  BY DEF Init, TypeOK, ForestInit, RowsOK, Posted, Request, Idle
<1>2. Aimed /\ Lateness
  BY DEF Init, Aimed, Lateness, Idle
<1>3. \A x : Telling(x) = {}
  BY DEF Init, Telling, Idle
<1>4. NotifiedOncePerReaction
  BY <1>3, FS_EmptySet DEF Init, NotifiedOncePerReaction
<1> QED
  BY <1>1, <1>2, <1>4 DEF ReactInv

\* Steps that insert and tell nothing keep the count.
LEMMA CountKept ==
    ASSUME ReactInv, UNCHANGED <<born, told>>,
           \A r \in Requests : req'[r] = req[r] \/ req'[r].pc # "author",
           Posted \subseteq Posted',
           \A k \in Posted : rows'[k].user = rows[k].user
    PROVE  NotifiedOncePerReaction'
<1> SUFFICES ASSUME NEW x \in Reaction
             PROVE  /\ told[x] + Cardinality(Telling(x)') <= born[x]
                    /\ told[x] > 0 => /\ x.comment \in Posted'
                                      /\ rows'[x.comment].user # x.user
  BY DEF NotifiedOncePerReaction
<1>1. /\ told[x] + Cardinality(Telling(x)) <= born[x]
      /\ told[x] > 0 => x.comment \in Posted /\ rows[x.comment].user # x.user
  BY DEF ReactInv, NotifiedOncePerReaction
<1>2. told[x] \in Nat /\ born[x] \in Nat
  BY DEF ReactInv, TypeOK
<1>3. /\ Cardinality(Telling(x)) \in Nat
      /\ Cardinality(Telling(x)') \in Nat
      /\ Cardinality(Telling(x)') <= Cardinality(Telling(x))
  BY TellingFinite, FewerTell
<1>4. told[x] + Cardinality(Telling(x)') <= born[x]
  BY <1>1, <1>2, <1>3
<1> QED
  BY <1>1, <1>4

LEMMA CommentsKeep == ASSUME ReactInv, Comments PROVE ReactInv'
<1>1. /\ RowsOK' /\ Posted \subseteq Posted'
      /\ \A k \in Posted : /\ rows'[k].user = rows[k].user
                           /\ rows[k].deleted => rows'[k].deleted
  BY CommentsStay DEF Comments, ReactInv, TypeOK
<1>2. UNCHANGED <<reactions, req, born, told>>
  BY DEF Comments
<1>3. TypeOK'
  BY <1>1, <1>2 DEF ReactInv, TypeOK
<1>4. Aimed'
  BY <1>1, <1>2 DEF ReactInv, Aimed
<1>5. Lateness'
  BY <1>1, <1>2 DEF ReactInv, Lateness, Live
<1>6. NotifiedOncePerReaction'
  BY <1>1, <1>2, CountKept
<1> QED
  BY <1>3, <1>4, <1>5, <1>6 DEF ReactInv

LEMMA AddReactionKeeps ==
    ASSUME ReactInv, NEW r \in Requests, NEW x \in Reaction, AddReaction(r, x)
    PROVE  ReactInv'
<1>1. /\ UNCHANGED <<rows, reactions, born, told>>
      /\ Posted' = Posted /\ Live' = Live
  BY DEF AddReaction, Posted, Live
<1>2. TypeOK'
  BY <1>1 DEF AddReaction, ReactInv, TypeOK, Request, RowsOK
<1>3. Aimed' /\ Lateness'
  BY <1>1 DEF AddReaction, ReactInv, TypeOK, Aimed, Lateness
<1>4. NotifiedOncePerReaction'
  BY <1>1, CountKept DEF AddReaction, ReactInv, TypeOK
<1> QED
  BY <1>2, <1>3, <1>4 DEF ReactInv

LEMMA AddCheckKeeps ==
    ASSUME ReactInv, NEW r \in Requests, AddCheck(r)
    PROVE  ReactInv'
<1>1. /\ UNCHANGED <<rows, reactions, born, told>>
      /\ Posted' = Posted /\ Live' = Live
  BY DEF AddCheck, Posted, Live
<1>2. PICK q : /\ req' = [req EXCEPT ![r] = q]
               /\ \/ q = Idle
                  \/ /\ q = [req[r] EXCEPT !.pc = "insert"]
                     /\ req[r].on.comment \in Live
  <2>1. CASE Reactable(req[r].on)
    BY <2>1 DEF AddCheck, Reactable
  <2>2. CASE ~Reactable(req[r].on)
    BY <2>2 DEF AddCheck
  <2> QED
    BY <2>1, <2>2
<1>3. req[r] \in Request /\ req[r].pc = "check"
  BY DEF AddCheck, ReactInv, TypeOK
<1>4. q \in Request /\ q.pc # "author"
  <2>1. CASE q = Idle
    BY <2>1 DEF Request, Idle
  <2>2. CASE q = [req[r] EXCEPT !.pc = "insert"]
    BY <1>3, <2>2 DEF Request
  <2> QED
    BY <1>2, <2>1, <2>2
<1>5. TypeOK'
  BY <1>1, <1>2, <1>4 DEF ReactInv, TypeOK, RowsOK
<1>6. /\ q.pc # "idle" => q.on \in Reaction
      /\ ~q.late
  BY <1>2, <1>3 DEF ReactInv, Aimed, Lateness, Request, Idle
<1>7. Aimed' /\ Lateness'
  BY <1>1, <1>2, <1>4, <1>6 DEF ReactInv, TypeOK, Aimed, Lateness
<1>8. NotifiedOncePerReaction'
  BY <1>1, <1>2, <1>4, CountKept DEF ReactInv, TypeOK
<1> QED
  BY <1>5, <1>7, <1>8 DEF ReactInv

\* The INSERT: a reaction that was there is counted by nobody, and a new one
\* is told of by this request at most.
LEMMA AddInsertKeeps ==
    ASSUME ReactInv, NEW r \in Requests, NEW answered \in BOOLEAN,
           AddInsert(r, answered)
    PROVE  ReactInv'
<1> DEFINE x == req[r].on
<1>1. /\ UNCHANGED <<rows, told>>
      /\ Posted' = Posted /\ Live' = Live
      /\ req[r].pc = "insert" /\ x.comment \in Posted
      /\ reactions' = reactions \cup {x}
  BY DEF AddInsert, Posted, Live
<1>2. req[r] \in Request /\ x \in Reaction /\ ~req[r].late
  BY <1>1 DEF ReactInv, TypeOK, Aimed, Lateness
<1>3. CASE answered /\ x \notin reactions
  <2>1. /\ born' = [born EXCEPT ![x] = @ + 1] /\ born[x] < MaxBirths
        /\ req' = [req EXCEPT ![r] = [@ EXCEPT !.pc = "author"]]
    BY <1>3 DEF AddInsert, Inserted, Room
  <2>2. TypeOK'
    BY <1>1, <1>2, <2>1 DEF ReactInv, TypeOK, RowsOK, Request
  <2>3. Aimed' /\ Lateness'
    BY <1>1, <1>2, <2>1 DEF ReactInv, TypeOK, Aimed, Lateness, Request
  <2>4. ASSUME NEW y \in Reaction
        PROVE  /\ told[y] + Cardinality(Telling(y)') <= born'[y]
               /\ told[y] > 0 => /\ y.comment \in Posted
                                 /\ rows[y.comment].user # y.user
    <3>1. /\ told[y] + Cardinality(Telling(y)) <= born[y]
          /\ told[y] > 0 => y.comment \in Posted /\ rows[y.comment].user # y.user
      BY DEF ReactInv, NotifiedOncePerReaction
    <3>2. told[y] \in Nat /\ born[y] \in Nat
      BY DEF ReactInv, TypeOK
    <3>3. IsFiniteSet(Telling(y)) /\ Cardinality(Telling(y)) \in Nat
      BY TellingFinite
    <3>4. CASE y = x
      <4>1. Telling(y)' = Telling(y) \cup {r}
        BY <1>1, <1>2, <2>1, <3>4 DEF Telling, ReactInv, TypeOK, Request
      <4>2. Cardinality(Telling(y)') <= Cardinality(Telling(y)) + 1
        <5>1. Cardinality(Telling(y) \cup {r}) =
                IF r \in Telling(y) THEN Cardinality(Telling(y))
                ELSE Cardinality(Telling(y)) + 1
          BY <3>3, FS_AddElement
        <5> QED
          BY <3>3, <4>1, <5>1
      <4>3. Cardinality(Telling(y)') \in Nat
        BY <3>3, <4>1, FS_AddElement, FS_CardinalityType
      <4>4. born'[y] = born[y] + 1
        BY <1>2, <2>1, <3>4 DEF ReactInv, TypeOK
      <4> QED
        BY <3>1, <3>2, <3>3, <4>2, <4>3, <4>4
    <3>5. CASE y # x
      <4>1. Telling(y)' = Telling(y)
        BY <1>1, <1>2, <2>1, <3>5 DEF Telling, ReactInv, TypeOK, Request
      <4>2. born'[y] = born[y]
        BY <2>1, <3>5 DEF ReactInv, TypeOK
      <4> QED
        BY <3>1, <4>1, <4>2
    <3> QED
      BY <3>4, <3>5
  <2> QED
    BY <1>1, <2>2, <2>3, <2>4 DEF ReactInv, NotifiedOncePerReaction
<1>4. CASE ~(answered /\ x \notin reactions)
  <2>1. req' = [req EXCEPT ![r] = Idle]
    BY <1>4 DEF AddInsert, Inserted
  <2>2. \/ born' = born
        \/ born' = [born EXCEPT ![x] = @ + 1] /\ born[x] < MaxBirths
    BY DEF AddInsert, Room
  <2>3. TypeOK'
    BY <1>1, <1>2, <2>1, <2>2 DEF ReactInv, TypeOK, RowsOK, Request, Idle
  <2>4. Aimed' /\ Lateness'
    BY <1>1, <2>1 DEF ReactInv, TypeOK, Aimed, Lateness, Idle
  <2>5. ASSUME NEW y \in Reaction
        PROVE  /\ told[y] + Cardinality(Telling(y)') <= born'[y]
               /\ told[y] > 0 => /\ y.comment \in Posted
                                 /\ rows[y.comment].user # y.user
    <3>1. /\ told[y] + Cardinality(Telling(y)) <= born[y]
          /\ told[y] > 0 => y.comment \in Posted /\ rows[y.comment].user # y.user
      BY DEF ReactInv, NotifiedOncePerReaction
    <3>2. told[y] \in Nat /\ born[y] \in Nat
      BY DEF ReactInv, TypeOK
    <3>3. born'[y] \in Nat /\ born[y] <= born'[y]
      BY <2>2, <3>2 DEF ReactInv, TypeOK
    <3>4. \A s \in Requests : req'[s] = req[s] \/ req'[s].pc # "author"
      BY <2>1 DEF ReactInv, TypeOK, Idle
    <3>5. /\ Cardinality(Telling(y)) \in Nat
          /\ Cardinality(Telling(y)') \in Nat
          /\ Cardinality(Telling(y)') <= Cardinality(Telling(y))
      BY <3>4, TellingFinite, FewerTell
    <3> QED
      BY <3>1, <3>2, <3>3, <3>5
  <2> QED
    BY <1>1, <2>3, <2>4, <2>5 DEF ReactInv, NotifiedOncePerReaction
<1> QED
  BY <1>3, <1>4

\* The request that tells is no longer about to.
LEMMA AddNotifyKeeps ==
    ASSUME ReactInv, NEW r \in Requests, AddNotify(r)
    PROVE  ReactInv'
<1> DEFINE x == req[r].on
<1>1. /\ UNCHANGED <<rows, reactions, born>>
      /\ Posted' = Posted /\ Live' = Live
      /\ req[r].pc = "author"
      /\ req' = [req EXCEPT ![r] = Idle]
      /\ told' = IF ForeignTo(x) THEN [told EXCEPT ![x] = @ + 1] ELSE told
  BY DEF AddNotify, Posted, Live
<1>2. req[r] \in Request /\ x \in Reaction /\ x.comment \in Posted
  BY <1>1 DEF ReactInv, TypeOK, Aimed
<1>3. Aimed' /\ Lateness'
  BY <1>1 DEF ReactInv, TypeOK, Aimed, Lateness, Idle
<1>4. ASSUME NEW y \in Reaction
      PROVE  /\ told'[y] \in 0 .. MaxBirths
             /\ told'[y] + Cardinality(Telling(y)') <= born[y]
             /\ told'[y] > 0 => /\ y.comment \in Posted
                                /\ rows[y.comment].user # y.user
  <2>1. /\ told[y] + Cardinality(Telling(y)) <= born[y]
        /\ told[y] > 0 => y.comment \in Posted /\ rows[y.comment].user # y.user
    BY DEF ReactInv, NotifiedOncePerReaction
  <2>2. told[y] \in Nat /\ born[y] \in 0 .. MaxBirths
    BY DEF ReactInv, TypeOK
  <2>3. IsFiniteSet(Telling(y)) /\ Cardinality(Telling(y)) \in Nat
    BY TellingFinite
  <2>4. Telling(y)' = Telling(y) \ {r}
    BY <1>1 DEF Telling, ReactInv, TypeOK, Idle
  <2>5. Cardinality(Telling(y) \ {r}) =
          IF r \in Telling(y) THEN Cardinality(Telling(y)) - 1
          ELSE Cardinality(Telling(y))
    BY <2>3, FS_RemoveElement
  <2>6. Cardinality(Telling(y)') \in Nat
    BY <2>3, <2>4, FS_RemoveElement, FS_CardinalityType
  <2>7. CASE y = x /\ ForeignTo(x)
    <3>1. told'[y] = told[y] + 1 /\ rows[y.comment].user # y.user
      BY <1>1, <1>2, <2>7 DEF ForeignTo, ReactInv, TypeOK
    <3>2. r \in Telling(y)
      BY <1>1, <2>7 DEF Telling
    <3>3. told'[y] + Cardinality(Telling(y)') <= born[y]
      BY <2>1, <2>2, <2>3, <2>4, <2>5, <3>1, <3>2
    <3> QED
      BY <1>2, <2>2, <2>6, <2>7, <3>1, <3>3
  <2>8. CASE ~(y = x /\ ForeignTo(x))
    <3>1. told'[y] = told[y]
      BY <1>1, <2>8 DEF ReactInv, TypeOK
    <3>2. told'[y] + Cardinality(Telling(y)') <= born[y]
      BY <2>1, <2>2, <2>3, <2>4, <2>5, <3>1
    <3> QED
      BY <2>1, <2>2, <2>6, <3>1, <3>2
  <2> QED
    BY <2>7, <2>8
<1>5. TypeOK'
  <2>1. told' \in [Reaction -> 0 .. MaxBirths]
    BY <1>1, <1>4 DEF ReactInv, TypeOK
  <2> QED
    BY <1>1, <2>1 DEF ReactInv, TypeOK, RowsOK, Request, Idle
<1> QED
  BY <1>1, <1>3, <1>4, <1>5 DEF ReactInv, NotifiedOncePerReaction

\* Requests that end, and reactions that go, change nothing that counts.
LEMMA EndKeeps ==
    ASSUME ReactInv, UNCHANGED <<rows, born, told>>,
           reactions' \subseteq reactions,
           req' \in [Requests -> Request],
           \A r \in Requests : req'[r] = req[r] \/ req'[r] = Idle
    PROVE  ReactInv'
<1>1. Posted' = Posted /\ Live' = Live
  BY DEF Posted, Live
<1>2. TypeOK'
  BY DEF ReactInv, TypeOK, RowsOK, Posted
<1>3. Aimed' /\ Lateness'
  BY <1>1 DEF ReactInv, Aimed, Lateness, Idle
<1>4. NotifiedOncePerReaction'
  BY <1>1, CountKept DEF Idle
<1> QED
  BY <1>2, <1>3, <1>4 DEF ReactInv

LEMMA NextReact == ReactInv /\ [Next]_vars => ReactInv'
<1> SUFFICES ASSUME ReactInv, [Next]_vars PROVE ReactInv'
  OBVIOUS
<1>1. req \in [Requests -> Request] /\ Idle \in Request
  BY DEF ReactInv, TypeOK, Request, Idle
<1>2. CASE Comments
  BY <1>2, CommentsKeep
<1>3. ASSUME NEW r \in Requests, NEW x \in Reaction, AddReaction(r, x)
      PROVE  ReactInv'
  BY <1>3, AddReactionKeeps
<1>4. ASSUME NEW r \in Requests, AddCheck(r) PROVE ReactInv'
  BY <1>4, AddCheckKeeps
<1>5. ASSUME NEW r \in Requests, NEW answered \in BOOLEAN,
             AddInsert(r, answered)
      PROVE  ReactInv'
  BY <1>5, AddInsertKeeps
<1>6. ASSUME NEW r \in Requests, AddNotify(r) PROVE ReactInv'
  BY <1>6, AddNotifyKeeps
<1>7. ASSUME NEW r \in Requests, Abandon(r) PROVE ReactInv'
  BY <1>1, <1>7, EndKeeps DEF Abandon
<1>8. ASSUME NEW x \in Reaction, RemoveReaction(x) PROVE ReactInv'
  BY <1>1, <1>8, EndKeeps DEF RemoveReaction
<1>9. CASE Restart
  BY <1>1, <1>9, EndKeeps DEF Restart
<1>10. CASE UNCHANGED vars
  BY <1>1, <1>10, EndKeeps DEF vars
<1> QED
  BY <1>2, <1>3, <1>4, <1>5, <1>6, <1>7, <1>8, <1>9, <1>10 DEF Next, Work

LEMMA AlwaysReact == Spec => []ReactInv
BY InitReact, NextReact, PTL DEF Spec

(***************************************************************************)
(* Requests are about reactions, reactions about possible comments, and no *)
(* counter passes its bound.                                               *)
(***************************************************************************)
THEOREM ReactionsTyped == Spec => []TypeOK
BY AlwaysReact, PTL DEF ReactInv

(***************************************************************************)
(* An author is notified of a reaction at most as often as it was added    *)
(* by somebody else, however many requests add and remove it at once.      *)
(***************************************************************************)
THEOREM ToldOnce == Spec => []NotifiedOncePerReaction
BY AlwaysReact, PTL DEF ReactInv

(***************************************************************************)
(* A request that arrives after the comment was deleted records nothing.   *)
(***************************************************************************)
THEOREM TooLateReactsNothing == Spec => LateReactsNothing
<1>1. ReactInv /\ [Next]_vars =>
        [\A r \in Requests : req[r].late /\ req'[r] # req[r] =>
            reactions' = reactions]_vars
  <2> SUFFICES ASSUME ReactInv, Next, NEW r \in Requests,
                      req[r].late, req'[r] # req[r]
               PROVE  reactions' = reactions
    BY DEF vars
  <2>1. req[r].pc = "check" /\ req \in [Requests -> Request]
    BY DEF ReactInv, Lateness, TypeOK
  <2>2. ASSUME NEW s \in Requests, NEW answered \in BOOLEAN,
               AddInsert(s, answered)
        PROVE  FALSE
    <3>1. req[s].pc = "insert" /\ \E q : req' = [req EXCEPT ![s] = q]
      BY <2>2 DEF AddInsert
    <3> QED
      BY <2>1, <3>1
  <2>3. ASSUME NEW x \in Reaction, RemoveReaction(x) PROVE FALSE
    BY <2>3 DEF RemoveReaction
  <2> QED
    BY <2>2, <2>3 DEF Next, Work, Comments, AddReaction, AddCheck, AddNotify,
       Abandon, Restart
<1> QED
  BY <1>1, AlwaysReact, PTL DEF Spec, LateReactsNothing

-----------------------------------------------------------------------------
\* While the second query is awaited, the user's live comments are those that
\* the first one counted, and new ones.
CardShape ==
    \E p, u, c, n :
       card = [pc |-> p, user |-> u, comments |-> c, received |-> n]

CardInv ==
    /\ RowsOK
    /\ CardShape
    /\ card.pc = "reactions" =>
         /\ known \subseteq Posted
         /\ known \cap Own(card.user) \cap Live \subseteq card.comments
    /\ CardHangsTogether

\* Whatever step is taken, no author changes and no deletion is undone.
LEMMA NothingComesBack ==
    ASSUME RowsOK, [Next]_vars
    PROVE  /\ RowsOK'
           /\ Posted \subseteq Posted'
           /\ \A k \in Posted : /\ rows'[k].user = rows[k].user
                                /\ rows[k].deleted => rows'[k].deleted
<1>1. CASE Comments
  BY <1>1, CommentsStay DEF Comments
<1>2. CASE ~Comments
  <2>1. UNCHANGED rows
    BY <1>2 DEF Next, Work, vars, AddReaction, AddCheck, AddInsert, AddNotify,
       RemoveReaction, Abandon, Restart
  <2> QED
    BY <2>1 DEF RowsOK, Posted
<1> QED
  BY <1>1, <1>2

\* What is someone's and live after the step and was there before it was
\* someone's and live then.
LEMMA OwnedBefore ==
    ASSUME RowsOK, [Next]_vars, NEW u
    PROVE  Posted \cap (Own(u) \cap Live)' \subseteq Own(u) \cap Live
BY NothingComesBack DEF Own, Live

\* Every step is one of Reactions, or leaves its state alone.
LEMMA CardSimulates == [CardNext]_cardVars => [Next]_vars
BY DEF CardNext, CardWork, cardVars, Meanwhile, CardRestart, AskCard,
   CountReceived, CardFails, Next, vars

LEMMA CardStep == CardInv /\ [CardNext]_cardVars => CardInv'
<1> SUFFICES ASSUME CardInv, [CardNext]_cardVars PROVE CardInv'
  OBVIOUS
<1>0. [Next]_vars
  BY CardSimulates
<1>1. RowsOK /\ RowsOK' /\ Posted \subseteq Posted'
  BY <1>0, NothingComesBack DEF CardInv
<1>2. CASE UNCHANGED <<card, known>>
  <2>1. CardShape' /\ CardHangsTogether'
    BY <1>2 DEF CardInv, CardShape, CardHangsTogether
  <2>2. ASSUME card.pc = "reactions"
        PROVE  /\ known \subseteq Posted'
               /\ known \cap (Own(card.user) \cap Live)' \subseteq
                    card.comments
    <3>1. /\ known \subseteq Posted
          /\ known \cap Own(card.user) \cap Live \subseteq card.comments
      BY <2>2 DEF CardInv
    <3>2. Posted \cap (Own(card.user) \cap Live)' \subseteq
            Own(card.user) \cap Live
      <4>1. ASSUME NEW u
            PROVE  Posted \cap (Own(u) \cap Live)' \subseteq Own(u) \cap Live
        BY <1>0, <1>1, OwnedBefore
      <4>2. (Own(card.user) \cap Live)' =
              {k \in Posted' : rows'[k].user = card.user} \cap Live'
        BY <1>2 DEF Own
      <4> QED
        BY <4>1, <4>2 DEF Own
    <3> QED
      BY <1>1, <3>1, <3>2
  <2> QED
    BY <1>1, <1>2, <2>1, <2>2 DEF CardInv
<1>3. CASE card' = NoCard
  BY <1>1, <1>3 DEF CardInv, CardShape, CardHangsTogether, NoCard
<1>4. ASSUME NEW u \in Users, AskCard(u), card' # NoCard PROVE CardInv'
  <2>1. /\ card' = [NoCard EXCEPT !.pc = "reactions", !.user = u,
                      !.comments = Own(u) \cap Live]
        /\ known' = Posted /\ UNCHANGED rows
    BY <1>4 DEF AskCard, vars
  <2>2. /\ CardShape' /\ card'.pc = "reactions" /\ card'.user = u
        /\ card'.comments = Own(u) \cap Live
    BY <2>1 DEF CardShape, NoCard
  <2>3. Own(card.user)' = Own(u) /\ Live' = Live /\ Posted' = Posted
    BY <2>1, <2>2 DEF Own, Live, Posted
  <2> QED
    BY <1>1, <2>1, <2>2, <2>3 DEF CardInv, CardHangsTogether
<1>5. CASE CountReceived
  <2>1. /\ CardShape' /\ card'.pc = "shown"
        /\ card'.comments = card.comments
        /\ card'.received = Received(card.user)
        /\ known' = known
    BY <1>5 DEF CountReceived, CardInv, CardShape
  <2>2. known \cap Own(card.user) \cap Live \subseteq card.comments
    BY <1>5 DEF CountReceived, CardInv
  <2>3. CardHangsTogether'
    BY <2>1, <2>2 DEF CardHangsTogether, Received
  <2> QED
    BY <1>1, <2>1, <2>3 DEF CardInv
<1> QED
  BY <1>2, <1>3, <1>4, <1>5 DEF CardNext, CardWork, Meanwhile, CardRestart,
     CardFails, cardVars

(***************************************************************************)
(* Whatever the writers do between the two queries of a card, the second   *)
(* counts no reaction to a comment that was there at the first and was not *)
(* counted by it.                                                          *)
(***************************************************************************)
THEOREM CardCoherent == CardSpec => []CardHangsTogether
<1>1. CardInit => CardInv
  <2> SUFFICES ASSUME CardInit PROVE CardInv
    OBVIOUS
  <2>1. CardShape /\ card.pc = "none"
    BY DEF CardInit, NoCard, CardShape
  <2>2. RowsOK
    BY DEF CardInit, Init, ForestInit, RowsOK, Posted
  <2> QED
    BY <2>1, <2>2 DEF CardInv, CardHangsTogether
<1>2. CardInv => CardHangsTogether
  BY DEF CardInv
<1> QED
  BY <1>1, <1>2, CardStep, PTL DEF CardSpec

(***************************************************************************)
(* Drawing a card changes nothing: UserCard implements Reactions, and what *)
(* is proved there of notifications and late requests holds beside it.     *)
(***************************************************************************)
THEOREM CardImplements == CardSpec => Spec
<1>1. CardInit => Init
  BY DEF CardInit
<1> QED
  BY <1>1, CardSimulates, PTL DEF CardSpec, Spec
=============================================================================

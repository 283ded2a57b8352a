------------------------ MODULE CommentThreadsProofs ------------------------
(***************************************************************************)
(* Theorems about CommentThreads, for every set of users, entities, bodies *)
(* and request slots, every max_depth and any number of comments.          *)
(*                                                                         *)
(* All of them rest on one inductive invariant, IndInv.  Its proof has a   *)
(* lemma for each of the few kinds of step there are: steps that only move *)
(* one request on, the step that takes a key, and the four that write.     *)
(***************************************************************************)
EXTENDS CommentThreads, TLAPS

USE ForestAssumption, ThreadsAssumption

\* NULL is not a key.
LEMMA NoneIsNoId == None \notin Ids
<1>1. Ids \subseteq Int
  BY DEF Ids
<1> QED
  BY <1>1

\* The slots of requests other than r stand still.
OthersStay(r) == \A s \in Requests \ {r} : req'[s] = req[s]

\* The record an answered slot holds is a well-typed one that relies on
\* nothing.
LEMMA AnsweredOK ==
    ASSUME NEW s \in Optional(Statuses)
    PROVE  /\ Answered(s) \in Request
           /\ InFlight(Answered(s))
           /\ Answered(s).pc = "idle"
  BY DEF Answered, Request, Optional, Statuses, Steps, InFlight

\* The initial state satisfies the inductive invariant.
LEMMA InitIndInv == Init => IndInv
<1> SUFFICES ASSUME Init PROVE IndInv
  OBVIOUS
<1> USE DEF Init, ForestInit
<1>1. Posted = {}
  BY DEF Posted
<1>2. TypeOK
  <2>1. RowsOK
    BY <1>1 DEF RowsOK, Posted
  <2>2. req \in [Requests -> Request]
    BY AnsweredOK DEF Optional
  <2>3. issued \in 0 .. MaxComments
    OBVIOUS
  <2> QED
    BY <2>1, <2>2, <2>3 DEF TypeOK
<1>3. \A r \in Requests : InFlight(req[r]) /\ req[r].pc = "idle"
  BY AnsweredOK DEF Optional
<1> QED
  BY <1>1, <1>2, <1>3 DEF IndInv, IsForest, ReplyToIsNeighbour, DepthBounded,
     NotesTruthful, KeysDistinct

(***************************************************************************)
(* A step that leaves the table alone and moves slot r to a record that is *)
(* itself in order, without taking a key, preserves the invariant.         *)
(***************************************************************************)
LEMMA SlotStep ==
    ASSUME IndInv, NEW r \in Requests, NEW q \in Request,
           req' = [req EXCEPT ![r] = q], InFlight(q), q.pc # "insert",
           UNCHANGED <<rows, maxDepth, issued, admins, outbox>>
    PROVE  IndInv'
<1> USE DEF IndInv
<1>1. /\ req' \in [Requests -> Request]
      /\ req'[r] = q
      /\ OthersStay(r)
  BY DEF TypeOK, OthersStay
<1>2. TypeOK'
  BY <1>1 DEF TypeOK, RowsOK, Posted
<1>3. /\ IsForest' /\ ReplyToIsNeighbour' /\ DepthBounded' /\ NotesTruthful'
      /\ (Posted \subseteq 1 .. issued)'
  BY DEF IsForest, ReplyToIsNeighbour, DepthBounded, NotesTruthful, Posted,
     Attached, Answering, IsReply
<1>4. (\A s \in Requests : InFlight(req[s]))'
  BY <1>1 DEF InFlight, Placed, OthersStay, Posted
<1>5. KeysDistinct'
  BY <1>1 DEF KeysDistinct, OthersStay
<1> QED
  BY <1>2, <1>3, <1>4, <1>5

\* An answer without an effect is such a step.
LEMMA AnswerStep ==
    ASSUME IndInv, NEW r \in Requests, NEW s \in Optional(Statuses),
           Answer(r, s), UNCHANGED <<rows, maxDepth, issued, admins, outbox>>
    PROVE  IndInv'
<1>1. Answered(s).pc # "insert"
  BY AnsweredOK
<1> QED
  BY AnsweredOK, SlotStep, <1>1 DEF Answer

\* The record of a request that has just arrived.
LEMMA ArrivedOK ==
    ASSUME NEW pc \in Steps, NEW u \in Users, NEW k \in Optional(Ids),
           NEW a \in Optional(Users), NEW e \in Optional(Entities),
           NEW b \in Optional(Bodies), NEW late \in BOOLEAN,
           NEW was \in BOOLEAN
    PROVE  [Answered(None) EXCEPT !.pc = pc, !.user = u, !.target = k,
              !.entity = e, !.body = b, !.author = a, !.late = late,
              !.wasAdmin = was]
           \in Request
<1>1. None \in Optional(Statuses) /\ u \in Optional(Users)
  BY DEF Optional
<1>2. Answered(None) \in Request
  BY <1>1, AnsweredOK
<1> QED
  BY <1>1, <1>2 DEF Request

\* So is the arrival of a request that has passed its first checks.
LEMMA ArriveStep ==
    ASSUME IndInv, NEW r \in Requests, NEW pc \in Steps, NEW u \in Users,
           NEW k \in Optional(Posted), NEW e \in Optional(Entities),
           NEW b \in Optional(Bodies), Arrive(r, pc, u, k, e, b),
           UNCHANGED <<rows, maxDepth, issued, admins, outbox>>,
           \/ pc = "stamp" /\ k = None /\ e # None /\ b # None
           \/ pc = "parent" /\ k # None /\ e # None /\ b # None
           \/ pc = "edit" /\ k # None /\ b # None
           \/ pc \in {"role", "recheck"} /\ k # None
    PROVE  IndInv'
<1> DEFINE a == IF k = None THEN None ELSE rows[k].user
           q == [Answered(None) EXCEPT
                   !.pc = pc, !.user = u, !.target = k, !.entity = e,
                   !.body = b, !.author = a,
                   !.late = k # None /\ rows[k].deleted,
                   !.wasAdmin = u \in admins]
<1>1. k \in Optional(Ids) /\ a \in Optional(Users)
  BY DEF IndInv, TypeOK, RowsOK, Row, Optional
<1>2. (k # None /\ rows[k].deleted) \in BOOLEAN /\ (u \in admins) \in BOOLEAN
  OBVIOUS
<1>3. InFlight(q) /\ q.pc # "insert"
  BY DEF Answered, InFlight, Placed, Optional
<1>4. req' = [req EXCEPT ![r] = q]
  BY DEF Arrive
<1> HIDE DEF a
<1>5. q \in Request
  BY ONLY <1>1, <1>2, ArrivedOK
<1> HIDE DEF q
<1> QED
  BY <1>3, <1>4, <1>5, SlotStep

\* And a request that only goes on to its next statement.
LEMMA GotoStep ==
    ASSUME IndInv, NEW r \in Requests, NEW pc \in Steps, Goto(r, pc),
           req[r].pc \in {"role", "recheck"},
           pc \in {"recheck", "tombstone"},
           UNCHANGED <<rows, maxDepth, issued, admins, outbox>>
    PROVE  IndInv'
<1> DEFINE q == [req[r] EXCEPT !.pc = pc]
<1>1. req[r] \in Request /\ InFlight(req[r])
  BY DEF IndInv, TypeOK
<1>2. q \in Request
  BY <1>1 DEF Request
<1>3. InFlight(q) /\ q.pc # "insert"
  BY <1>1 DEF Request, InFlight
<1>4. req' = [req EXCEPT ![r] = q]
  BY <1>1 DEF Goto
<1> HIDE DEF q
<1> QED
  BY <1>2, <1>3, <1>4, SlotStep

-----------------------------------------------------------------------------
\* A reply goes to the place that Place finds for it.
LEMMA ParentStep ==
    ASSUME IndInv, NEW r \in Requests, CreateParent(r)
    PROVE  IndInv'
<1> DEFINE p == req[r].target
           place == Place(p)
           q == [req[r] EXCEPT !.pc = "stamp", !.parent = place.parent,
                               !.depth = place.depth,
                               !.replyTo = place.replyTo]
<1>1. /\ UNCHANGED <<rows, maxDepth, issued, admins, outbox>>
      /\ req[r] \in Request /\ InFlight(req[r]) /\ req[r].pc = "parent"
      /\ p \in Posted /\ Posted \subseteq Ids /\ maxDepth \in MaxDepths
      /\ p # None /\ req[r].author = rows[p].user
  BY DEF IndInv, CreateParent, Steady, InFlight, TypeOK, RowsOK
<1>2. /\ p # None /\ p \in Ids /\ maxDepth \in Int
      /\ rows[p].depth \in Nat /\ rows[p].user \in Users
      /\ rows[p].parent \in Optional(Ids) /\ rows[p].user # None
  <2>1. rows[p] \in Row
    BY <1>1 DEF IndInv, TypeOK, RowsOK
  <2> HIDE DEF p
  <2>2. /\ rows[p].depth \in Nat /\ rows[p].user \in Users
        /\ rows[p].parent \in Optional(Ids)
    BY <2>1 DEF Row, Optional
  <2>3. p \in Int
    BY <1>1 DEF Ids
  <2> QED
    BY <1>1, <2>2, <2>3
<1>3. /\ Attached(p)
      /\ rows[p].depth = 0 \/ \E m \in MaxDepths : rows[p].depth <= m
  BY <1>1 DEF IndInv, IsForest, DepthBounded
<1>4. CASE ~Repliable(p, req[r].entity)
  <2>1. Answer(r, "refused") /\ "refused" \in Optional(Statuses)
    BY <1>4 DEF CreateParent, Optional, Statuses
  <2> QED
    BY <1>1, <2>1, AnswerStep
<1>5. CASE Repliable(p, req[r].entity)
  <2>1. req' = [req EXCEPT ![r] = q]
    BY <1>5, <1>1 DEF CreateParent, IndInv, TypeOK
  <2>2. \/ /\ place = [parent |-> rows[p].parent, depth |-> rows[p].depth,
                      replyTo |-> rows[p].user]
        \/ /\ place = [parent |-> p, depth |-> rows[p].depth + 1,
                      replyTo |-> None]
           /\ rows[p].depth + 1 <= maxDepth
    <3> HIDE DEF p
    <3> QED
      BY <1>2 DEF Place
  <2> HIDE DEF place
  <2>3. /\ place.parent \in Optional(Ids) /\ place.depth \in Nat
        /\ place.replyTo \in Optional(Users)
    <3> HIDE DEF p
    <3> QED
      BY <1>2, <2>2 DEF Optional
  <2>4. q \in Request
    BY <1>1, <2>3 DEF Request, Steps
  <2>5. /\ q.pc = "stamp" /\ q.target = p /\ q.parent = place.parent
        /\ q.depth = place.depth /\ q.replyTo = place.replyTo
        /\ q.author = req[r].author
        /\ q.user = req[r].user /\ q.entity = req[r].entity
        /\ q.body = req[r].body
    BY <1>1 DEF Request
  <2> HIDE DEF p, q
  <2>6. Placed(q)
    <3>1. rows[p].entity = req[r].entity
      BY <1>5 DEF Repliable
    <3>2. place.depth = 0 \/ \E m \in MaxDepths : place.depth <= m
      BY <1>1, <1>3, <2>2
    <3>3. IF place.parent = None THEN place.depth = 0
          ELSE /\ place.parent \in Posted
               /\ rows[place.parent].entity = req[r].entity
               /\ place.depth = rows[place.parent].depth + 1
      <4>1. CASE place.parent = p /\ place.depth = rows[p].depth + 1
        BY <4>1, <1>1, <1>2, <3>1
      <4>2. CASE place.parent = rows[p].parent /\ place.depth = rows[p].depth
        <5>1. None \notin Posted
          BY <1>1, NoneIsNoId
        <5> QED
          BY <4>2, <5>1, <1>3, <3>1 DEF Attached
      <4> QED
        BY <4>1, <4>2, <2>2
    <3>4. \/ place.replyTo = None /\ place.parent = p
          \/ /\ place.replyTo = rows[p].user
             /\ place.parent = rows[p].parent
      BY <2>2
    <3> QED
      BY <1>2, <2>5, <3>1, <3>2, <3>3, <3>4 DEF Placed
  <2>7. InFlight(q)
    BY <2>5, <2>6, <1>1 DEF InFlight
  <2> QED
    BY <1>1, <2>1, <2>4, <2>5, <2>7, SlotStep
<1> QED
  BY <1>4, <1>5

\* The key a request takes is new and larger than any in the table.
LEMMA StampStep ==
    ASSUME IndInv, NEW r \in Requests, CreateStamp(r)
    PROVE  IndInv'
<1> USE DEF IndInv
<1> DEFINE q == [req[r] EXCEPT !.pc = "insert", !.key = issued + 1]
<1>1. /\ req[r].pc = "stamp" /\ issued < MaxComments /\ issued' = issued + 1
      /\ UNCHANGED <<rows, maxDepth, admins, outbox>>
      /\ req[r] \in Request /\ InFlight(req[r])
      /\ issued \in 0 .. MaxComments
  BY DEF CreateStamp, Steady, TypeOK
<1>2. /\ req' = [req EXCEPT ![r] = q]
      /\ req'[r] = q /\ OthersStay(r)
  BY <1>1 DEF CreateStamp, TypeOK, OthersStay
<1>3. issued + 1 \in Ids
  BY <1>1 DEF Ids
<1>4. q \in Request
  BY <1>1, <1>3 DEF Request, Steps, Optional
<1>5. /\ q.pc = "insert" /\ q.key = issued + 1 /\ q.target = req[r].target
      /\ q.author = req[r].author
      /\ q.parent = req[r].parent /\ q.depth = req[r].depth
      /\ q.replyTo = req[r].replyTo /\ q.user = req[r].user
      /\ q.entity = req[r].entity /\ q.body = req[r].body
  BY <1>1 DEF Request
<1> HIDE DEF q
<1>6. TypeOK'
  BY <1>1, <1>2, <1>4 DEF TypeOK, RowsOK, Posted
<1>7. /\ IsForest' /\ ReplyToIsNeighbour' /\ DepthBounded' /\ NotesTruthful'
      /\ (Posted \subseteq 1 .. issued)'
  BY <1>1 DEF IsForest, ReplyToIsNeighbour, DepthBounded, NotesTruthful,
     Posted, Attached, Answering, IsReply
<1>8. InFlight(req[r])'
  <2>1. Placed(req[r])'
    BY <1>1, <1>2, <1>5 DEF InFlight, Placed, Posted
  <2> QED
    BY <1>1, <1>2, <1>5, <2>1 DEF InFlight, Placed, Posted, Ids, Optional
<1>9. (\A s \in Requests : InFlight(req[s]))'
  <2>1. \A s \in Requests \ {r} : InFlight(req[s])'
    BY <1>1, <1>2 DEF InFlight, Placed, Posted, OthersStay
  <2> QED
    BY <1>8, <2>1
<1>10. KeysDistinct'
  <2>1. \A s \in Requests \ {r} :
           /\ req'[s] = req[s]
           /\ req[s].pc = "insert" => req[s].key \in 1 .. issued
    BY <1>2 DEF OthersStay, InFlight
  <2> QED
    BY <1>1, <1>2, <1>5, <2>1 DEF KeysDistinct
<1> QED
  BY <1>6, <1>7, <1>9, <1>10

-----------------------------------------------------------------------------
\* What no statement ever changes in a row.
SamePlace(row1, row2) ==
    /\ row1.parent = row2.parent /\ row1.user = row2.user
    /\ row1.entity = row2.entity /\ row1.depth = row2.depth
    /\ row1.replyTo = row2.replyTo

RowsStay == /\ Posted \subseteq DOMAIN rows'
            /\ \A k \in Posted : SamePlace(rows'[k], rows[k])

\* What a waiting request relies on survives the writes of the others.
LEMMA WaitingSafe ==
    ASSUME IndInv, NEW s \in Requests, RowsStay, issued' = issued,
           req'[s] = req[s],
           req[s].pc = "insert" => req[s].key \notin DOMAIN rows'
    PROVE  InFlight(req[s])'
<1>1. InFlight(req[s])
  BY DEF IndInv
<1>2. req[s].pc \in {"stamp", "insert"} => Placed(req[s])'
  BY <1>1 DEF InFlight, Placed, RowsStay, SamePlace, Posted
<1>3. req[s].target # None =>
         /\ req[s].target \in DOMAIN rows'
         /\ req[s].author = rows'[req[s].target].user
  BY <1>1 DEF InFlight, RowsStay, SamePlace
<1> QED
  BY <1>1, <1>2, <1>3 DEF InFlight, Posted

\* A slot that is answered has no claim on a key.
LEMMA FreedSlot ==
    ASSUME IndInv, NEW r \in Requests, NEW st \in Optional(Statuses),
           Answer(r, st)
    PROVE  /\ req' \in [Requests -> Request]
           /\ req'[r] = Answered(st) /\ req'[r].pc = "idle"
           /\ OthersStay(r)
           /\ InFlight(req[r])'
           /\ KeysDistinct'
<1>1. /\ req' \in [Requests -> Request]
      /\ req'[r] = Answered(st) /\ OthersStay(r)
  BY AnsweredOK DEF Answer, IndInv, TypeOK, OthersStay
<1>2. req'[r].pc = "idle"
  BY <1>1, AnsweredOK
<1>3. KeysDistinct'
  BY <1>1, <1>2 DEF IndInv, KeysDistinct, OthersStay
<1>4. InFlight(req[r])'
  <2>1. req'[r].target = None
    BY <1>1 DEF Answered
  <2> QED
    BY <1>2, <2>1 DEF InFlight
<1> QED
  BY <1>1, <1>2, <1>3, <1>4

\* An UPDATE of the body or of deleted_at.
LEMMA UpdateStep ==
    ASSUME IndInv, NEW r \in Requests, NEW st \in Optional(Statuses),
           NEW k \in Posted, NEW row \in Row, SamePlace(row, rows[k]),
           rows' = [rows EXCEPT ![k] = row], Answer(r, st),
           UNCHANGED <<maxDepth, issued, admins, outbox>>
    PROVE  IndInv'
<1>1. /\ Posted' = Posted /\ Posted \subseteq Ids
      /\ \A i \in Posted : rows'[i] = IF i = k THEN row ELSE rows[i]
      /\ rows' \in [Posted -> Row]
  BY DEF IndInv, TypeOK, RowsOK, Posted
<1>2. \A i \in Posted : SamePlace(rows'[i], rows[i])
  BY <1>1 DEF SamePlace
<1>3. TypeOK'
  BY <1>1, FreedSlot DEF IndInv, TypeOK, RowsOK
<1>4. IsForest'
  BY <1>1, <1>2 DEF IndInv, IsForest, Attached, SamePlace
<1>5. ReplyToIsNeighbour'
  BY <1>1, <1>2 DEF IndInv, ReplyToIsNeighbour, SamePlace
<1>6. DepthBounded'
  BY <1>1, <1>2 DEF IndInv, DepthBounded, SamePlace
<1>7. NotesTruthful'
  <2> SUFFICES ASSUME NEW n \in outbox
               PROVE  /\ n.comment \in Posted /\ IsReply(n.comment)'
                      /\ n.to = Answering(n.comment)'
                      /\ n.to # rows'[n.comment].user
    BY <1>1 DEF NotesTruthful
  <2> DEFINE c == n.comment
  <2>1. /\ c \in Posted /\ IsReply(c)
        /\ n.to = Answering(c) /\ n.to # rows[c].user
    BY DEF IndInv, NotesTruthful
  <2>2. rows[c].replyTo = None => rows[c].parent \in Posted
    <3>1. Attached(c)
      BY <2>1 DEF IndInv, IsForest
    <3> QED
      BY <2>1, <3>1 DEF Attached, IsReply
  <2> QED
    BY <1>1, <1>2, <2>1, <2>2 DEF Answering, IsReply, SamePlace
<1>8. (\A s \in Requests : InFlight(req[s]))'
  <2>1. RowsStay
    BY <1>1, <1>2 DEF RowsStay, Posted
  <2>2. \A s \in Requests \ {r} : InFlight(req[s])'
    BY <1>1, <2>1, WaitingSafe, FreedSlot
       DEF OthersStay, IndInv, InFlight, Posted
  <2> QED
    BY <2>2, FreedSlot
<1> QED
  BY <1>1, <1>3, <1>4, <1>5, <1>6, <1>7, <1>8, FreedSlot DEF IndInv

\* The INSERT: the place chosen for the row is still good.
LEMMA InsertStep ==
    ASSUME IndInv, NEW r \in Requests, NEW answered \in BOOLEAN,
           CreateInsert(r, answered)
    PROVE  IndInv'
<1>0. PICK q : q = req[r]
  OBVIOUS
<1> DEFINE row == [parent |-> q.parent, user |-> q.user, entity |-> q.entity,
                   body |-> q.body, depth |-> q.depth,
                   replyTo |-> q.replyTo, deleted |-> FALSE]
<1>1. /\ q \in Request /\ InFlight(q) /\ q.pc = "insert"
      /\ UNCHANGED <<maxDepth, issued, admins>>
      /\ Posted \subseteq Ids /\ Posted \subseteq 1 .. issued
      /\ issued \in 0 .. MaxComments
      /\ outbox \in SUBSET [to : Users, comment : Ids]
  BY <1>0 DEF IndInv, TypeOK, RowsOK, CreateInsert, Steady
<1>2. PICK st \in Optional(Statuses) : Answer(r, st)
  <2>1. {"201", "500"} \subseteq Optional(Statuses)
    BY DEF Optional, Statuses
  <2>2. Answer(r, IF answered THEN "201" ELSE "500")
    BY DEF CreateInsert
  <2> QED
    BY <2>1, <2>2
<1>3. /\ q.user \in Users /\ q.entity \in Entities /\ q.body \in Bodies
      /\ q.depth \in Nat /\ q.parent \in Optional(Ids)
      /\ q.replyTo \in Optional(Users) /\ q.key \in 1 .. issued
      /\ q.key \in Ids /\ q.key \notin Posted /\ Placed(q)
      /\ q.parent # None => q.parent < q.key
      /\ q.target # None => /\ q.target \in Posted /\ q.target < q.key
                            /\ q.author = rows[q.target].user
  BY <1>1 DEF Request, InFlight, Optional, Ids
<1>4. row \in Row
  BY <1>3 DEF Row, Optional
<1>5. /\ rows' = [k \in Posted \cup {q.key} |->
                   IF k = q.key THEN row ELSE rows[k]]
      /\ outbox' = outbox \cup (IF answered THEN Note(q) ELSE {})
  BY <1>0 DEF CreateInsert
<1>6. /\ row.parent = q.parent /\ row.user = q.user
      /\ row.entity = q.entity /\ row.depth = q.depth
      /\ row.replyTo = q.replyTo
  OBVIOUS
<1> HIDE DEF row
<1>7. /\ Posted' = Posted \cup {q.key} /\ rows'[q.key] = row
      /\ \A k \in Posted : rows'[k] = rows[k]
  BY <1>3, <1>5 DEF Posted
<1>8. Note(q) \subseteq [to : Users, comment : Ids]
  <2>1. q.target # None => rows[q.target].user \in Users
    <3>1. q.target # None => rows[q.target] \in Row
      BY <1>3 DEF IndInv, TypeOK, RowsOK
    <3> QED
      BY <3>1 DEF Row
  <2> QED
    BY <2>1, <1>3 DEF Note
<1>9. TypeOK'
  <2>1. RowsOK'
    BY <1>1, <1>3, <1>4, <1>5, <1>7 DEF IndInv, TypeOK, RowsOK, Ids
  <2>2. outbox' \in SUBSET [to : Users, comment : Ids]
    BY <1>1, <1>5, <1>8
  <2> QED
    BY <1>1, <1>2, <2>1, <2>2, FreedSlot DEF IndInv, TypeOK
<1>10. IsForest'
  <2>1. \A k \in Posted : Attached(k)'
    BY <1>7 DEF IndInv, IsForest, Attached
  <2>2. Attached(q.key)'
    BY <1>3, <1>6, <1>7 DEF Attached, Placed
  <2> QED
    BY <1>7, <2>1, <2>2 DEF IsForest
<1>11. ReplyToIsNeighbour'
  <2>1. q.replyTo # None =>
           /\ q.target \in Posted /\ q.target < q.key
           /\ rows[q.target].parent = q.parent
           /\ rows[q.target].entity = q.entity
           /\ rows[q.target].user = q.replyTo
    BY <1>3 DEF Placed
  <2>2. ASSUME NEW k \in Posted, rows[k].replyTo # None
        PROVE  \E s \in Posted' : /\ s < k
                                  /\ rows'[s].parent = rows'[k].parent
                                  /\ rows'[s].entity = rows'[k].entity
                                  /\ rows'[s].user = rows'[k].replyTo
    BY <1>7, <2>2 DEF IndInv, ReplyToIsNeighbour
  <2>3. ASSUME q.replyTo # None
        PROVE  \E s \in Posted' : /\ s < q.key
                                  /\ rows'[s].parent = row.parent
                                  /\ rows'[s].entity = row.entity
                                  /\ rows'[s].user = row.replyTo
    <3>1. q.target \in Posted' /\ rows'[q.target] = rows[q.target]
      BY <1>7, <2>1, <2>3
    <3> QED
      BY <1>6, <2>1, <2>3, <3>1
  <2> QED
    BY <1>6, <1>7, <2>2, <2>3 DEF ReplyToIsNeighbour
<1>12. DepthBounded'
  BY <1>3, <1>6, <1>7 DEF IndInv, DepthBounded, Placed
<1>13. NotesTruthful'
  <2>1. ASSUME NEW n \in outbox
        PROVE  /\ n.comment \in Posted' /\ IsReply(n.comment)'
               /\ n.to = Answering(n.comment)'
               /\ n.to # rows'[n.comment].user
    <3> DEFINE c == n.comment
    <3>1. /\ c \in Posted /\ IsReply(c) /\ Attached(c)
          /\ n.to = Answering(c) /\ n.to # rows[c].user
      BY DEF IndInv, NotesTruthful, IsForest
    <3> HIDE DEF c
    <3>2. rows[c].replyTo = None => rows[c].parent \in Posted
      BY <3>1 DEF Attached, IsReply
    <3>3. /\ c \in Posted' /\ IsReply(c)' /\ n.to = Answering(c)'
          /\ n.to # rows'[c].user
      BY <1>7, <3>1, <3>2 DEF Answering, IsReply
    <3> QED
      BY <3>3 DEF c
  <2>2. ASSUME NEW n \in Note(q)
        PROVE  /\ n.comment \in Posted' /\ IsReply(n.comment)'
               /\ n.to = Answering(n.comment)'
               /\ n.to # rows'[n.comment].user
    <3>1. /\ n.to = rows[q.target].user /\ n.comment = q.key
          /\ q.target # None /\ rows[q.target].user # q.user
      BY <1>3 DEF Note
    <3>2. rows[q.target].user # None
      <4>1. rows[q.target] \in Row
        BY <1>3, <3>1 DEF IndInv, TypeOK, RowsOK
      <4> QED
        BY <4>1 DEF Row
    <3>3. \/ row.replyTo = None /\ row.parent = q.target
          \/ row.replyTo = n.to
      BY <1>3, <1>6, <3>1 DEF Placed
    <3>4. IsReply(q.key)' /\ n.to = Answering(q.key)'
      BY <1>3, <1>7, <3>1, <3>2, <3>3 DEF Answering, IsReply
    <3> QED
      BY <1>6, <1>7, <3>1, <3>4
  <2>3. outbox' \subseteq outbox \cup Note(q)
    BY <1>5
  <2> QED
    BY <2>1, <2>2, <2>3 DEF NotesTruthful
<1>14. (\A s \in Requests : InFlight(req[s]))'
  <2>1. RowsStay
    BY <1>7 DEF RowsStay, SamePlace, Posted
  <2>2. ASSUME NEW s \in Requests \ {r}
        PROVE  InFlight(req[s])'
    <3>1. /\ req'[s] = req[s] /\ InFlight(req[s])
      BY <1>2, FreedSlot DEF OthersStay, IndInv
    <3>2. req[s].pc = "insert" => req[s].key \notin DOMAIN rows'
      <4>1. req[s].pc = "insert" => req[s].key # q.key
        BY <1>0, <1>1 DEF IndInv, KeysDistinct
      <4>2. req[s].pc = "insert" => req[s].key \notin Posted
        BY <3>1 DEF InFlight
      <4> QED
        BY <4>1, <4>2, <1>7 DEF Posted
    <3> QED
      BY <1>1, <2>1, <3>1, <3>2, WaitingSafe
  <2> QED
    BY <1>2, <2>2, FreedSlot
<1>15. (Posted \subseteq 1 .. issued)'
  BY <1>1, <1>3, <1>7
<1> QED
  BY <1>2, <1>9, <1>10, <1>11, <1>12, <1>13, <1>14, <1>15, FreedSlot
     DEF IndInv

\* UPDATE comments, by an edit or a delete.
LEMMA WriteStep ==
    ASSUME IndInv, NEW r \in Requests, NEW answered \in BOOLEAN,
           EditWrite(r, answered) \/ DeleteWrite(r, answered)
    PROVE  IndInv'
<1>0. PICK q : q = req[r]
  OBVIOUS
<1>1. /\ q \in Request /\ InFlight(q) /\ q.pc \in {"edit", "tombstone"}
      /\ q.pc = "edit" <=> EditWrite(r, answered)
      /\ UNCHANGED <<maxDepth, issued, admins, outbox>>
  BY <1>0 DEF IndInv, TypeOK, EditWrite, DeleteWrite, Steady
<1>2. q.target \in Posted /\ rows[q.target] \in Row
  BY <1>1 DEF InFlight, IndInv, TypeOK, RowsOK
<1>3. CASE EditWrite(r, answered)
  <2>1. q.body \in Bodies
    BY <1>1, <1>3 DEF Request, InFlight, Optional
  <2>2. /\ [rows[q.target] EXCEPT !.body = q.body] \in Row
        /\ SamePlace([rows[q.target] EXCEPT !.body = q.body], rows[q.target])
    BY <1>2, <2>1 DEF Row, SamePlace
  <2>3. rows' = [rows EXCEPT
                   ![q.target] = [rows[q.target] EXCEPT !.body = q.body]]
    BY <1>0, <1>2, <1>3 DEF EditWrite, Edit
  <2>4. PICK st \in Optional(Statuses) : Answer(r, st)
    <3>1. {"200", "500"} \subseteq Optional(Statuses)
      BY DEF Optional, Statuses
    <3> QED
      BY <1>3, <3>1 DEF EditWrite
  <2> QED
    BY <1>1, <1>2, <2>2, <2>3, <2>4, UpdateStep
<1>4. CASE DeleteWrite(r, answered)
  <2>1. /\ [rows[q.target] EXCEPT !.deleted = TRUE] \in Row
        /\ SamePlace([rows[q.target] EXCEPT !.deleted = TRUE],
                     rows[q.target])
    BY <1>2 DEF Row, SamePlace
  <2>2. rows' = [rows EXCEPT
                   ![q.target] = [rows[q.target] EXCEPT !.deleted = TRUE]]
    BY <1>0, <1>2, <1>4 DEF DeleteWrite, Remove
  <2>3. PICK st \in Optional(Statuses) : Answer(r, st)
    <3>1. {"204", "500"} \subseteq Optional(Statuses)
      BY DEF Optional, Statuses
    <3> QED
      BY <1>4, <3>1 DEF DeleteWrite
  <2> QED
    BY <1>1, <1>2, <2>1, <2>2, <2>3, UpdateStep
<1> QED
  BY <1>3, <1>4

\* The arrival of a request.
LEMMA ArrivalStep ==
    ASSUME IndInv, NEW r \in Requests, Arrival(r)
    PROVE  IndInv'
<1>1. PICK u \in Users :
         \/ \E e \in Entities, p \in Optional(Ids), b \in Optional(Bodies) :
               CreateComment(r, u, e, p, b)
         \/ \E k \in Ids, b \in Optional(Bodies) : UpdateComment(r, u, k, b)
         \/ \E k \in Ids, claim \in BOOLEAN : DeleteComment(r, u, k, claim)
  BY DEF Arrival
<1>2. /\ "refused" \in Optional(Statuses) /\ None \in Optional(Entities)
      /\ None \in Optional(Bodies) /\ Posted \subseteq Optional(Posted)
  BY DEF Optional, Statuses
<1>3. {"stamp", "parent", "edit", "role", "recheck"} \subseteq Steps
  BY DEF Steps
<1>4. ASSUME NEW e \in Entities, NEW p \in Optional(Ids),
             NEW b \in Optional(Bodies), CreateComment(r, u, e, p, b)
      PROVE  IndInv'
  <2>1. UNCHANGED <<rows, maxDepth, issued, admins, outbox>>
    BY <1>4 DEF CreateComment, Steady
  <2>2. e \in Optional(Entities) /\ e # None
    BY DEF Optional
  <2>3. CASE b = None \/ p \notin Optional(Posted)
    BY <1>2, <1>4, <2>1, <2>3, AnswerStep DEF CreateComment
  <2>4. CASE ~(b = None \/ p \notin Optional(Posted))
    <3>1. CASE p = None
      BY <1>3, <1>4, <2>1, <2>2, <2>4, <3>1, ArriveStep DEF CreateComment
    <3>2. CASE p # None
      BY <1>3, <1>4, <2>1, <2>2, <2>4, <3>2, ArriveStep DEF CreateComment
    <3> QED
      BY <3>1, <3>2
  <2> QED
    BY <2>3, <2>4
<1>5. ASSUME NEW k \in Ids, NEW b \in Optional(Bodies),
             UpdateComment(r, u, k, b)
      PROVE  IndInv'
  <2>1. UNCHANGED <<rows, maxDepth, issued, admins, outbox>>
    BY <1>5 DEF UpdateComment, Steady
  <2>2. CASE b # None /\ k \in Live /\ rows[k].user = u
    <3>1. k \in Optional(Posted) /\ k # None
      BY <2>2, NoneIsNoId DEF Live, Optional
    <3> QED
      BY <1>2, <1>3, <1>5, <2>1, <2>2, <3>1, ArriveStep DEF UpdateComment
  <2>3. CASE ~(b # None /\ k \in Live /\ rows[k].user = u)
    BY <1>2, <1>5, <2>1, <2>3, AnswerStep DEF UpdateComment
  <2> QED
    BY <2>2, <2>3
<1>6. ASSUME NEW k \in Ids, NEW claim \in BOOLEAN,
             DeleteComment(r, u, k, claim)
      PROVE  IndInv'
  <2>1. UNCHANGED <<rows, maxDepth, issued, admins, outbox>>
    BY <1>6 DEF DeleteComment, Steady
  <2>2. CASE k \notin Posted
    BY <1>2, <1>6, <2>1, <2>2, AnswerStep DEF DeleteComment
  <2>3. CASE k \in Posted
    <3>1. k \in Optional(Posted) /\ k # None
      BY <2>3, NoneIsNoId DEF Optional
    <3>2. PICK pc \in {"role", "recheck"} : Arrive(r, pc, u, k, None, None)
      BY <1>6, <2>3 DEF DeleteComment
    <3> QED
      BY <1>2, <1>3, <2>1, <3>1, <3>2, ArriveStep
  <2> QED
    BY <2>2, <2>3
<1> QED
  BY <1>1, <1>4, <1>5, <1>6

\* Steps of the role check and of db::comments::soft_delete before its write.
LEMMA CheckStep ==
    ASSUME IndInv, NEW r \in Requests,
           RoleAnswer(r) \/ RoleUnavailable(r) \/ DeleteRecheck(r)
             \/ QueryFails(r)
    PROVE  IndInv'
<1>1. UNCHANGED <<rows, maxDepth, issued, admins, outbox>>
  BY DEF RoleAnswer, RoleUnavailable, DeleteRecheck, QueryFails, Steady
<1>2. {"refused", "204", "500"} \subseteq Optional(Statuses)
  BY DEF Optional, Statuses
<1>3. CASE \E st \in {"refused", "204", "500"} : Answer(r, st)
  BY <1>1, <1>2, <1>3, AnswerStep
<1>4. CASE DeleteRecheck(r) /\ Goto(r, "tombstone")
  BY <1>1, <1>4, GotoStep DEF DeleteRecheck, Steps
<1>5. CASE RoleAnswer(r) /\ req' = [req EXCEPT ![r].pc = "recheck",
                                              ![r].confirmed = TRUE]
  <2> DEFINE q == [req[r] EXCEPT !.pc = "recheck", !.confirmed = TRUE]
  <2>1. req[r] \in Request /\ InFlight(req[r]) /\ req[r].pc = "role"
    BY <1>5 DEF IndInv, TypeOK, RoleAnswer
  <2>2. q \in Request /\ InFlight(q) /\ q.pc # "insert"
    BY <2>1 DEF Request, Steps, InFlight
  <2>3. req' = [req EXCEPT ![r] = q]
    BY <1>5, <2>1 DEF RoleAnswer, IndInv, TypeOK
  <2> HIDE DEF q
  <2> QED
    BY <1>1, <2>2, <2>3, SlotStep
<1> QED
  BY <1>3, <1>4, <1>5
     DEF RoleAnswer, RoleUnavailable, DeleteRecheck, QueryFails

\* What the world around the requests does.
LEMMA WorldStep ==
    ASSUME IndInv,
           \/ \E n \in outbox : NotificationEnds(n)
           \/ \E u \in Moderators : ChangeRole(u)
           \/ \E m \in MaxDepths : Restart(m)
    PROVE  IndInv'
<1> USE DEF IndInv
<1>1. CASE \E n \in outbox : NotificationEnds(n)
  <2>1. /\ UNCHANGED <<rows, req, issued, maxDepth, admins>>
        /\ outbox' \subseteq outbox
    BY <1>1 DEF NotificationEnds, Steady
  <2> QED
    BY <2>1 DEF TypeOK, RowsOK, Posted, IsForest, Attached,
       ReplyToIsNeighbour, DepthBounded, NotesTruthful, Answering, IsReply,
       InFlight, Placed, KeysDistinct
<1>2. CASE \E u \in Moderators : ChangeRole(u)
  <2>1. /\ UNCHANGED <<rows, maxDepth, issued, outbox>>
        /\ admins' \in SUBSET Moderators
    BY <1>2 DEF ChangeRole, TypeOK
  <2>2. ASSUME NEW r \in Requests
        PROVE  /\ req'[r] \in Request /\ InFlight(req[r])'
               /\ req'[r].pc = req[r].pc /\ req'[r].key = req[r].key
    <3>1. req[r] \in Request /\ InFlight(req[r])
      BY DEF TypeOK
    <3>2. req'[r] \in {req[r], [req[r] EXCEPT !.wasAdmin = TRUE]}
      BY <1>2 DEF ChangeRole
    <3>3. CASE req'[r] = req[r]
      BY <2>1, <3>1, <3>3 DEF InFlight, Placed, Posted
    <3>4. CASE req'[r] = [req[r] EXCEPT !.wasAdmin = TRUE]
      <4> DEFINE q == req[r]
      <4>1. /\ req'[r] \in Request
            /\ req'[r].pc = q.pc /\ req'[r].key = q.key
            /\ req'[r].user = q.user /\ req'[r].target = q.target
            /\ req'[r].author = q.author
            /\ req'[r].entity = q.entity /\ req'[r].body = q.body
            /\ req'[r].parent = q.parent /\ req'[r].depth = q.depth
            /\ req'[r].replyTo = q.replyTo
        BY <3>1, <3>4 DEF Request
      <4>2. q.pc \in {"stamp", "insert"} => Placed(req[r])'
        BY <2>1, <3>1, <4>1 DEF InFlight, Placed, Posted
      <4> QED
        BY <2>1, <3>1, <4>1, <4>2 DEF InFlight, Posted
    <3> QED
      BY <3>2, <3>3, <3>4
  <2>3. req' \in [Requests -> Request]
    BY <1>2, <2>2 DEF ChangeRole
  <2>4. TypeOK'
    BY <2>1, <2>3 DEF TypeOK, RowsOK, Posted
  <2>5. /\ IsForest' /\ ReplyToIsNeighbour' /\ DepthBounded'
        /\ NotesTruthful' /\ (Posted \subseteq 1 .. issued)'
    BY <2>1 DEF Posted, IsForest, Attached, ReplyToIsNeighbour, DepthBounded,
       NotesTruthful, Answering, IsReply
  <2>6. KeysDistinct'
    BY <2>2 DEF KeysDistinct
  <2> QED
    BY <2>2, <2>4, <2>5, <2>6
<1>3. CASE \E m \in MaxDepths : Restart(m)
  <2>1. /\ UNCHANGED <<rows, issued, admins>> /\ outbox' = {}
        /\ maxDepth' \in MaxDepths
        /\ req' = [r \in Requests |-> Answered(None)]
    BY <1>3 DEF Restart
  <2>2. Answered(None) \in Request /\ Answered(None).pc = "idle"
    BY AnsweredOK DEF Optional
  <2>3. Answered(None).target = None
    BY DEF Answered
  <2>4. \A r \in Requests : InFlight(req[r])'
    BY <2>1, <2>2, <2>3 DEF InFlight
  <2>5. TypeOK'
    BY <2>1, <2>2 DEF TypeOK, RowsOK, Posted
  <2> QED
    BY <2>1, <2>2, <2>4, <2>5 DEF Posted, IsForest, Attached,
       ReplyToIsNeighbour, DepthBounded, NotesTruthful, KeysDistinct
<1> QED
  BY <1>1, <1>2, <1>3

LEMMA NextIndInv == IndInv /\ [Next]_vars => IndInv'
<1> SUFFICES ASSUME IndInv, [Next]_vars PROVE IndInv'
  OBVIOUS
<1>1. CASE \E r \in Requests : Arrival(r)
  BY <1>1, ArrivalStep
<1>2. CASE \E r \in Requests : Progress(r)
  BY <1>2, ParentStep, StampStep, CheckStep, InsertStep, WriteStep
     DEF Progress
<1>3. CASE \E r \in Requests : RoleAnswer(r) \/ QueryFails(r)
  BY <1>3, CheckStep
<1>4. CASE \/ \E n \in outbox : NotificationEnds(n)
           \/ \E u \in Moderators : ChangeRole(u)
           \/ \E m \in MaxDepths : Restart(m)
  BY <1>4, WorldStep
<1>5. CASE UNCHANGED vars
  BY <1>5 DEF vars, IndInv, TypeOK, RowsOK, Posted, IsForest, Attached,
     ReplyToIsNeighbour, DepthBounded, NotesTruthful, Answering, IsReply,
     InFlight, Placed, KeysDistinct
<1> QED
  BY <1>1, <1>2, <1>3, <1>4, <1>5 DEF Next

-----------------------------------------------------------------------------
(***************************************************************************)
(* In every reachable state the inductive invariant holds: what the code   *)
(* read before an await and uses after it is still good where it matters.  *)
(***************************************************************************)
THEOREM Inductive == Spec => []IndInv
<1>1. Init => IndInv
  BY InitIndInv
<1>2. IndInv /\ [Next]_vars => IndInv'
  BY NextIndInv
<1> QED
  BY <1>1, <1>2, PTL DEF Spec

(***************************************************************************)
(* The variables keep their types, the keys and depths their ranges.       *)
(***************************************************************************)
THEOREM Typed == Spec => []TypeOK
<1>1. IndInv => TypeOK
  BY DEF IndInv
<1> QED
  BY <1>1, Inductive, PTL

(***************************************************************************)
(* The comments table is always a forest with depths that fit it, although *)
(* db::comments::create reads the parent and inserts the reply in separate *)
(* statements.                                                             *)
(***************************************************************************)
THEOREM AlwaysForest == Spec => []IsForest
<1>1. IndInv => IsForest
  BY DEF IndInv
<1> QED
  BY <1>1, Inductive, PTL

(***************************************************************************)
(* A flattened reply always names the author of an older neighbour.        *)
(***************************************************************************)
THEOREM AddresseeNear == Spec => []ReplyToIsNeighbour
<1>1. IndInv => ReplyToIsNeighbour
  BY DEF IndInv
<1> QED
  BY <1>1, Inductive, PTL

(***************************************************************************)
(* No comment is deeper than a max_depth the server has run with.          *)
(***************************************************************************)
THEOREM DepthLimit == Spec => []DepthBounded
<1>1. IndInv => DepthBounded
  BY DEF IndInv
<1> QED
  BY <1>1, Inductive, PTL

(***************************************************************************)
(* A reply notification always goes to the author of the comment answered. *)
(***************************************************************************)
THEOREM NotesReachAuthor == Spec => []NotesTruthful
<1>1. IndInv => NotesTruthful
  BY DEF IndInv
<1> QED
  BY <1>1, Inductive, PTL

-----------------------------------------------------------------------------
\* The row a handler inserts is one the contract allows.
LEMMA InsertRefines ==
    ASSUME IndInv, NEW r \in Requests, NEW answered \in BOOLEAN,
           CreateInsert(r, answered)
    PROVE  ForestNext
<1>0. PICK q : q = req[r]
  OBVIOUS
<1>1. q \in Request /\ InFlight(q) /\ q.pc = "insert"
  BY <1>0 DEF IndInv, TypeOK, CreateInsert
<1>2. /\ q.user \in Users /\ q.entity \in Entities /\ q.body \in Bodies
      /\ q.parent \in Ids \cup {None} /\ q.replyTo \in Users \cup {None}
      /\ q.key \notin Posted /\ Placed(q)
      /\ q.parent # None => q.parent < q.key
      /\ q.target # None => q.target \in Posted /\ q.target < q.key
  BY <1>1 DEF Request, InFlight, Optional
<1>3. q.key \in Ids
  BY <1>1 DEF InFlight, IndInv, TypeOK, Ids
<1>4. q.depth = IF q.parent = None THEN 0 ELSE rows[q.parent].depth + 1
  BY <1>2 DEF Placed
<1>5. rows' = [k \in Posted \cup {q.key} |->
                 IF k = q.key
                 THEN [parent |-> q.parent, user |-> q.user,
                       entity |-> q.entity, body |-> q.body,
                       depth |-> IF q.parent = None THEN 0
                                 ELSE rows[q.parent].depth + 1,
                       replyTo |-> q.replyTo, deleted |-> FALSE]
                 ELSE rows[k]]
  BY <1>0, <1>4 DEF CreateInsert
<1>6. /\ q.parent # None => /\ q.parent \in Posted /\ q.parent < q.key
                            /\ rows[q.parent].entity = q.entity
      /\ q.replyTo # None => \E s \in Posted : /\ s < q.key
                                               /\ rows[s].parent = q.parent
                                               /\ rows[s].entity = q.entity
                                               /\ rows[s].user = q.replyTo
  BY <1>2 DEF Placed
<1>7. Post(q.key, q.parent, q.user, q.entity, q.body, q.replyTo)
  BY <1>2, <1>5, <1>6 DEF Post
<1> QED
  BY <1>2, <1>3, <1>7 DEF ForestNext

LEMMA WriteRefines ==
    ASSUME IndInv, NEW r \in Requests, NEW answered \in BOOLEAN,
           EditWrite(r, answered) \/ DeleteWrite(r, answered)
    PROVE  ForestNext
<1>1. /\ req[r] \in Request /\ InFlight(req[r])
      /\ req[r].pc \in {"edit", "tombstone"}
      /\ Posted \subseteq Ids
  BY DEF IndInv, TypeOK, RowsOK, EditWrite, DeleteWrite
<1>2. req[r].target \in Ids
  BY <1>1 DEF InFlight
<1>3. CASE EditWrite(r, answered)
  <2>1. req[r].body \in Bodies
    BY <1>1, <1>3 DEF Request, InFlight, Optional, EditWrite
  <2> QED
    BY <1>2, <1>3, <2>1 DEF EditWrite, ForestNext
<1>4. CASE DeleteWrite(r, answered)
  BY <1>2, <1>4 DEF DeleteWrite, ForestNext
<1> QED
  BY <1>3, <1>4

LEMMA StepRefines == IndInv /\ [Next]_vars => [ForestNext]_rows
<1> SUFFICES ASSUME IndInv, [Next]_vars PROVE ForestNext \/ rows' = rows
  OBVIOUS
<1>1. ASSUME NEW r \in Requests, Arrival(r)
      PROVE  rows' = rows
  BY <1>1 DEF Arrival, CreateComment, UpdateComment, DeleteComment
<1>2. ASSUME NEW r \in Requests, Progress(r)
      PROVE  ForestNext \/ rows' = rows
  <2>1. CASE CreateParent(r) \/ CreateStamp(r) \/ DeleteRecheck(r)
               \/ RoleUnavailable(r)
    BY <2>1 DEF CreateParent, CreateStamp, DeleteRecheck, RoleUnavailable
  <2> QED
    BY <1>2, <2>1, InsertRefines, WriteRefines DEF Progress
<1>3. ASSUME NEW r \in Requests, RoleAnswer(r) \/ QueryFails(r)
      PROVE  rows' = rows
  BY <1>3 DEF RoleAnswer, QueryFails
<1>4. CASE \/ \E n \in outbox : NotificationEnds(n)
           \/ \E u \in Moderators : ChangeRole(u)
           \/ \E m \in MaxDepths : Restart(m)
  BY <1>4 DEF NotificationEnds, ChangeRole, Restart
<1> QED
  BY <1>1, <1>2, <1>3, <1>4 DEF Next, vars

(***************************************************************************)
(* The handlers implement the contract of the table: seen through `rows`,  *)
(* every behaviour of the server is one of ThreadForest.                   *)
(***************************************************************************)
THEOREM ImplementsForest == Spec => ForestSpec
<1>1. Init => ForestInit
  BY DEF Init
<1>2. IndInv /\ [Next]_vars => [ForestNext]_rows
  BY StepRefines
<1> QED
  BY <1>1, <1>2, Inductive, PTL DEF Spec, ForestSpec

\* Every statement of the contract keeps the history.
LEMMA ForestKeeps ==
    ASSUME RowsOK, ForestNext, NEW k \in Posted
    PROVE  Kept(k)
<1>1. rows[k] \in Row /\ rows \in [Posted -> Row]
  BY DEF RowsOK
<1>2. ASSUME NEW i \in Ids, NEW p \in Ids \cup {None}, NEW u \in Users,
             NEW e \in Entities, NEW b \in Bodies,
             NEW t \in Users \cup {None}, Post(i, p, u, e, b, t)
      PROVE  Kept(k)
  <2>1. k \in DOMAIN rows' /\ rows'[k] = rows[k]
    BY <1>2 DEF Post
  <2> QED
    BY <2>1 DEF Kept
<1>3. ASSUME NEW i \in Ids, NEW b \in Bodies, Edit(i, b)
      PROVE  Kept(k)
  <2>1. /\ k \in DOMAIN rows'
        /\ rows'[k] = rows[k] \/ rows'[k] = [rows[k] EXCEPT !.body = b]
    BY <1>1, <1>3 DEF Edit
  <2> QED
    BY <1>1, <2>1 DEF Kept, Row
<1>4. ASSUME NEW i \in Ids, Remove(i)
      PROVE  Kept(k)
  <2>1. /\ k \in DOMAIN rows'
        /\ \/ rows'[k] = rows[k]
           \/ rows'[k] = [rows[k] EXCEPT !.deleted = TRUE]
    BY <1>1, <1>4 DEF Remove
  <2> QED
    BY <1>1, <2>1 DEF Kept, Row
<1> QED
  BY <1>2, <1>3, <1>4 DEF ForestNext

(***************************************************************************)
(* No step of any request rewrites history: comments stay where they are,  *)
(* keep their author and addressee, and never come back from deletion.     *)
(***************************************************************************)
THEOREM KeepsHistory == Spec => HistoryKept
<1>1. ASSUME IndInv, [Next]_vars, NEW k \in Posted
      PROVE  Kept(k)
  <2>1. CASE ForestNext
    BY <1>1, <2>1, ForestKeeps DEF IndInv, TypeOK
  <2>2. CASE rows' = rows
    BY <2>2 DEF Kept, Posted
  <2> QED
    BY <1>1, <2>1, <2>2, StepRefines
<1>2. IndInv /\ [Next]_vars => [\A k \in Posted : Kept(k)]_vars
  BY <1>1
<1> QED
  BY <1>2, Inductive, PTL DEF Spec, HistoryKept

-----------------------------------------------------------------------------
(***************************************************************************)
(* The promise PublicThread makes to readers.  The proof goes through the  *)
(* contract of the table: each of its three statements is a step of        *)
(* PublicThread, or none where the comment was deleted before.             *)
(***************************************************************************)
View == [k \in Posted |-> Scrub(rows[k])]

\* What a reader gets of a row tells whether it is deleted.
LEMMA ScrubShows ==
    ASSUME NEW row \in Row
    PROVE  /\ Scrub(row).deleted = row.deleted
           /\ ~row.deleted => Scrub(row) = row
  BY DEF Scrub, Row

LEMMA PostAppears ==
    ASSUME RowsOK, NEW k \in Ids, NEW p \in Ids \cup {None}, NEW u \in Users,
           NEW e \in Entities, NEW b \in Bodies, NEW t \in Users \cup {None},
           Post(k, p, u, e, b, t)
    PROVE  Public!Appear(k)
<1>1. /\ k \notin Posted /\ Posted' = Posted \cup {k}
      /\ \A i \in Posted : rows'[i] = rows[i]
  BY DEF Post, Posted
<1>2. rows'[k] = [parent |-> p, user |-> u, entity |-> e, body |-> b,
                  depth |-> IF p = None THEN 0 ELSE rows[p].depth + 1,
                  replyTo |-> t, deleted |-> FALSE]
  BY DEF Post
<1>3. p # None => rows[p] \in Row
  BY DEF Post, RowsOK
<1>4. rows'[k].depth \in Nat
  BY <1>2, <1>3 DEF Row
<1>5. Scrub(rows'[k]) = rows'[k]
  BY <1>2 DEF Scrub
<1>6. rows'[k] \in Public!Comment
  BY <1>2, <1>4 DEF Public!Comment, Public!Optional
<1>7. /\ DOMAIN View = Posted /\ DOMAIN View' = Posted \cup {k}
      /\ View'[k] = rows'[k]
      /\ \A i \in Posted : View'[i] = View[i]
  BY <1>1, <1>5 DEF View, Scrub
<1>8. View' = [i \in DOMAIN View' |-> IF i = k THEN View'[k] ELSE View[i]]
  BY <1>1, <1>7 DEF View
<1> QED
  BY <1>1, <1>6, <1>7, <1>8 DEF Public!Appear, View

LEMMA EditChanges ==
    ASSUME RowsOK, NEW k \in Ids, NEW b \in Bodies, Edit(k, b)
    PROVE  Public!Change(k, b) \/ View' = View
<1>1. /\ k \in Posted /\ Posted' = Posted
      /\ rows'[k] = [rows[k] EXCEPT !.body = b]
      /\ \A i \in Posted : i # k => rows'[i] = rows[i]
  BY DEF Edit, Posted, RowsOK
<1>2. rows[k] \in Row
  BY <1>1 DEF RowsOK
<1>3. CASE rows[k].deleted
  <2>1. Scrub(rows'[k]) = Scrub(rows[k])
    BY <1>1, <1>2, <1>3 DEF Scrub, Row
  <2>2. \A i \in Posted : Scrub(rows'[i]) = Scrub(rows[i])
    BY <1>1, <2>1
  <2> QED
    BY <1>1, <2>2 DEF View
<1>4. CASE ~rows[k].deleted
  <2>1. /\ View[k] = rows[k] /\ ~View[k].deleted
        /\ Scrub(rows'[k]) = [View[k] EXCEPT !.body = b]
    BY <1>1, <1>2, <1>4, ScrubShows DEF View, Scrub, Row
  <2>2. View' = [View EXCEPT ![k].body = b]
    BY <1>1, <2>1 DEF View
  <2> QED
    BY <1>1, <2>1, <2>2 DEF Public!Change, View
<1> QED
  BY <1>3, <1>4

LEMMA RemoveVanishes ==
    ASSUME RowsOK, NEW k \in Ids, Remove(k)
    PROVE  Public!Vanish(k) \/ View' = View
<1>1. /\ k \in Posted /\ Posted' = Posted
      /\ rows'[k] = [rows[k] EXCEPT !.deleted = TRUE]
      /\ \A i \in Posted : i # k => rows'[i] = rows[i]
  BY DEF Remove, Posted, RowsOK
<1>2. rows[k] \in Row
  BY <1>1 DEF RowsOK
<1>3. CASE rows[k].deleted
  <2>1. rows[k].deleted = TRUE
    BY <1>2, <1>3 DEF Row
  <2>2. rows[k] = [rows[k] EXCEPT !.deleted = rows[k].deleted]
    BY <1>2 DEF Row
  <2>3. rows'[k] = rows[k]
    BY <1>1, <2>1, <2>2
  <2>4. \A i \in Posted : Scrub(rows'[i]) = Scrub(rows[i])
    BY <1>1, <2>3
  <2> QED
    BY <1>1, <2>4 DEF View
<1>4. CASE ~rows[k].deleted
  <2>1. /\ View[k] = rows[k] /\ ~View[k].deleted
        /\ Scrub(rows'[k]) = Public!Placeholder(View[k])
    BY <1>1, <1>2, <1>4, ScrubShows DEF View, Scrub, Row, Public!Placeholder
  <2>2. View' = [View EXCEPT ![k] = Public!Placeholder(@)]
    BY <1>1, <2>1 DEF View
  <2> QED
    BY <1>1, <2>1, <2>2 DEF Public!Vanish, View
<1> QED
  BY <1>3, <1>4

LEMMA TableKeepsPromise ==
    ASSUME RowsOK, ForestNext
    PROVE  Public!Next \/ View' = View
  BY PostAppears, EditChanges, RemoveVanishes DEF ForestNext, Public!Next

(***************************************************************************)
(* Readers see comments appear, change while they are there, and turn into *)
(* placeholders for good: the handlers implement PublicThread, with any    *)
(* number of requests at once and late writes to deleted rows.             *)
(***************************************************************************)
THEOREM KeepsPromise == Spec => ReadersPromise
<1>1. Init => Public!Init
  BY DEF Init, ForestInit, Public!Init, Posted
<1>2. IndInv /\ [Next]_vars => [Public!Next]_View
  <2> SUFFICES ASSUME IndInv, [Next]_vars
               PROVE  Public!Next \/ View' = View
    OBVIOUS
  <2>1. ForestNext \/ rows' = rows
    BY StepRefines
  <2>2. CASE ForestNext
    BY <2>2, TableKeepsPromise DEF IndInv, TypeOK
  <2>3. CASE rows' = rows
    BY <2>3 DEF View, Posted
  <2> QED
    BY <2>1, <2>2, <2>3
<1> QED
  BY <1>1, <1>2, Inductive, PTL DEF Spec, ReadersPromise, Public!Spec, View

-----------------------------------------------------------------------------
(***************************************************************************)
(* Who may write, when it is too late to, and what the answers say: the    *)
(* action properties of CommentThreads, for any number of requests.  They  *)
(* rest on IndInv and on what the checks of a handler leave behind for the *)
(* statements after it.                                                    *)
(***************************************************************************)

(***************************************************************************)
(* What request q was allowed when it was checked, it still is: rows keep  *)
(* their author, deletion is for good, and a role once confirmed was there *)
(* during the request.  A late request never gets past its checks.         *)
(***************************************************************************)
Allowed(q) ==
    /\ q.pc = "edit" => rows[q.target].user = q.user
    /\ q.pc = "tombstone" => MayDelete(q)
    /\ q.confirmed => q.wasAdmin
    /\ q.pc # "idle" /\ q.user \in admins => q.wasAdmin
    /\ q.late => /\ q.pc \in {"parent", "role", "recheck"}
                 /\ q.target # None
                 /\ rows[q.target].deleted

AllAllowed == \A r \in Requests : Allowed(req[r])

RulesInv == IndInv /\ AllAllowed

LEMMA AnsweredAllowed ==
    ASSUME NEW s
    PROVE  Allowed(Answered(s)) /\ (Allowed(Answered(s)))'
  BY DEF Allowed, Answered

LEMMA InitRules == Init => RulesInv
<1> SUFFICES ASSUME Init PROVE AllAllowed
  BY InitIndInv DEF RulesInv
<1> QED
  BY AnsweredAllowed DEF Init, AllAllowed

-----------------------------------------------------------------------------
\* How a statement changes a row that is there.
LEMMA RowChanges ==
    ASSUME RowsOK, ForestNext \/ rows' = rows, NEW k \in Posted
    PROVE  /\ rows'[k].user = rows[k].user
           /\ rows[k].deleted => rows'[k].deleted
<1>1. rows[k] \in Row /\ rows \in [Posted -> Row]
  BY DEF RowsOK
<1>2. \/ rows'[k] = rows[k]
      \/ \E b \in Bodies : rows'[k] = [rows[k] EXCEPT !.body = b]
      \/ rows'[k] = [rows[k] EXCEPT !.deleted = TRUE]
  <2>1. ASSUME NEW i \in Ids, NEW p \in Ids \cup {None}, NEW u \in Users,
               NEW e \in Entities, NEW b \in Bodies,
               NEW t \in Users \cup {None}, Post(i, p, u, e, b, t)
        PROVE  rows'[k] = rows[k]
    BY <2>1 DEF Post
  <2>2. ASSUME NEW i \in Ids, NEW b \in Bodies, Edit(i, b)
        PROVE  rows'[k] = rows[k] \/ rows'[k] = [rows[k] EXCEPT !.body = b]
    BY <1>1, <2>2 DEF Edit
  <2>3. ASSUME NEW i \in Ids, Remove(i)
        PROVE  \/ rows'[k] = rows[k]
               \/ rows'[k] = [rows[k] EXCEPT !.deleted = TRUE]
    BY <1>1, <2>3 DEF Remove
  <2> QED
    BY <2>1, <2>2, <2>3 DEF ForestNext
<1>3. ASSUME NEW b, rows'[k] = [rows[k] EXCEPT !.body = b]
      PROVE  rows'[k].user = rows[k].user /\ rows'[k].deleted = rows[k].deleted
  BY <1>1, <1>3 DEF Row
<1>4. CASE rows'[k] = [rows[k] EXCEPT !.deleted = TRUE]
  BY <1>1, <1>4 DEF Row
<1> QED
  BY <1>2, <1>3, <1>4

\* What a request was allowed does not change while it waits.
LEMMA WaitingAllowed ==
    ASSUME RowsOK, ForestNext \/ rows' = rows, admins' = admins,
           NEW q, Allowed(q), InFlight(q)
    PROVE  (Allowed(q))'
<1>1. q.target # None => q.target \in Posted
  BY DEF InFlight
<1>2. q.pc \in {"edit", "tombstone"} => q.target # None
  BY DEF InFlight
<1> QED
  BY <1>1, <1>2, RowChanges DEF Allowed, MayDelete

\* A step of slot r, to record q, keeps what all the others were allowed.
LEMMA StepAllowed ==
    ASSUME RulesInv, ForestNext \/ rows' = rows, admins' = admins,
           NEW r \in Requests, NEW q, req' = [req EXCEPT ![r] = q],
           (Allowed(q))'
    PROVE  AllAllowed'
<1>1. /\ req \in [Requests -> Request] /\ RowsOK
      /\ \A s \in Requests : InFlight(req[s]) /\ Allowed(req[s])
  BY DEF RulesInv, IndInv, TypeOK, AllAllowed
<1>2. ASSUME NEW s \in Requests PROVE (Allowed(req[s]))'
  <2>1. CASE s = r
    <3>1. req'[s] = q
      BY <1>1, <2>1
    <3> QED
      BY <3>1 DEF Allowed, MayDelete
  <2>2. CASE s # r
    <3>1. PICK p : p = req[s]
      OBVIOUS
    <3>2. (Allowed(p))'
      BY <1>1, <3>1, WaitingAllowed
    <3>3. req'[s] = p
      BY <1>1, <2>2, <3>1
    <3> QED
      BY <3>2, <3>3 DEF Allowed, MayDelete
  <2> QED
    BY <2>1, <2>2
<1> QED
  BY <1>2 DEF AllAllowed

\* An answer leaves nothing behind.
LEMMA AnswerAllowed ==
    ASSUME RulesInv, ForestNext \/ rows' = rows, admins' = admins,
           NEW r \in Requests, NEW s, Answer(r, s)
    PROVE  AllAllowed'
<1>1. req' = [req EXCEPT ![r] = Answered(s)]
  BY DEF Answer
<1> QED
  BY <1>1, AnsweredAllowed, StepAllowed

-----------------------------------------------------------------------------
LEMMA ArrivalAllowed ==
    ASSUME RulesInv, NEW r \in Requests, Arrival(r)
    PROVE  AllAllowed'
<1>1. rows' = rows /\ admins' = admins
  BY DEF Arrival, CreateComment, UpdateComment, DeleteComment, Steady
<1>2. ASSUME NEW s, Answer(r, s) PROVE AllAllowed'
  BY <1>1, <1>2, AnswerAllowed
<1>3. ASSUME NEW pc \in {"stamp", "parent", "edit", "role", "recheck"},
             NEW u \in Users, NEW k \in Optional(Posted), NEW e, NEW b,
             Arrive(r, pc, u, k, e, b),
             pc = "stamp" => k = None,
             pc = "edit" => k \in Live /\ rows[k].user = u
      PROVE  AllAllowed'
  <2> DEFINE q == [Answered(None) EXCEPT
                     !.pc = pc, !.user = u, !.target = k, !.entity = e,
                     !.body = b,
                     !.author = IF k = None THEN None ELSE rows[k].user,
                     !.late = k # None /\ rows[k].deleted,
                     !.wasAdmin = u \in admins]
  <2>1. PICK p : p = q
    OBVIOUS
  <2>2. /\ p.pc = pc /\ p.user = u /\ p.target = k /\ p.confirmed = FALSE
        /\ p.late = (k # None /\ rows[k].deleted)
        /\ p.wasAdmin = (u \in admins)
    BY <2>1 DEF Answered
  <2>3. req' = [req EXCEPT ![r] = p]
    BY <1>3, <2>1 DEF Arrive
  <2>4. pc = "edit" => ~rows[k].deleted
    BY <1>3 DEF Live
  <2>5. Allowed(p)
    BY <1>3, <2>2, <2>4 DEF Allowed
  <2>6. (Allowed(p))'
    BY <1>1, <2>5 DEF Allowed, MayDelete
  <2> QED
    BY <1>1, <2>3, <2>6, StepAllowed
<1>4. Posted \subseteq Ids /\ Live \subseteq Posted
  BY DEF RulesInv, IndInv, TypeOK, RowsOK, Live
<1>5. CASE \E u \in Users, e \in Entities, p \in Optional(Ids),
              b \in Optional(Bodies) : CreateComment(r, u, e, p, b)
  BY <1>2, <1>3, <1>5 DEF CreateComment, Optional
<1>6. CASE \E u \in Users, k \in Ids, b \in Optional(Bodies) :
              UpdateComment(r, u, k, b)
  BY <1>2, <1>3, <1>4, <1>6 DEF UpdateComment, Optional
<1>7. CASE \E u \in Users, k \in Ids, claim \in BOOLEAN :
              DeleteComment(r, u, k, claim)
  BY <1>2, <1>3, <1>7 DEF DeleteComment, Optional
<1> QED
  BY <1>5, <1>6, <1>7 DEF Arrival

\* The steps that pass a check: a late request is stopped by it.
LEMMA CheckAllowed ==
    ASSUME RulesInv, NEW r \in Requests,
           \/ CreateParent(r) \/ CreateStamp(r) \/ RoleAnswer(r)
           \/ DeleteRecheck(r)
    PROVE  AllAllowed'
<1>1. /\ rows' = rows /\ admins' = admins
      /\ req[r] \in Request /\ Allowed(req[r]) /\ InFlight(req[r])
      /\ req \in [Requests -> Request]
  BY DEF CreateParent, CreateStamp, RoleAnswer, DeleteRecheck, Steady,
     RulesInv, IndInv, TypeOK, AllAllowed
<1>2. ASSUME NEW s, Answer(r, s) PROVE AllAllowed'
  BY <1>1, <1>2, AnswerAllowed
<1>3. ASSUME NEW q, req' = [req EXCEPT ![r] = q], Allowed(q)
      PROVE  AllAllowed'
  <2>1. (Allowed(q))'
    BY <1>1, <1>3 DEF Allowed, MayDelete
  <2> QED
    BY <1>1, <1>3, <2>1, StepAllowed
<1>4. CASE CreateParent(r)
  <2>1. CASE Repliable(req[r].target, req[r].entity)
    <3> DEFINE place == Place(req[r].target)
               q == [req[r] EXCEPT !.pc = "stamp", !.parent = place.parent,
                        !.depth = place.depth, !.replyTo = place.replyTo]
    <3>1. req' = [req EXCEPT ![r] = q]
      BY <1>1, <1>4, <2>1 DEF CreateParent
    <3>2. ~req[r].late /\ req[r].pc = "parent"
      BY <1>1, <1>4, <2>1 DEF Allowed, Repliable, CreateParent
    <3>3. /\ q.pc = "stamp" /\ q.late = req[r].late /\ q.user = req[r].user
          /\ q.confirmed = req[r].confirmed /\ q.wasAdmin = req[r].wasAdmin
      BY <1>1 DEF Request
    <3>4. Allowed(q)
      BY <1>1, <3>2, <3>3 DEF Allowed
    <3> QED
      BY <1>3, <3>1, <3>4
  <2> QED
    BY <1>2, <1>4, <2>1 DEF CreateParent
<1>5. CASE CreateStamp(r)
  <2> DEFINE q == [req[r] EXCEPT !.pc = "insert", !.key = issued + 1]
  <2>1. req' = [req EXCEPT ![r] = q]
    BY <1>1, <1>5 DEF CreateStamp
  <2>2. /\ q.pc = "insert" /\ q.late = req[r].late /\ q.user = req[r].user
        /\ q.confirmed = req[r].confirmed /\ q.wasAdmin = req[r].wasAdmin
    BY <1>1 DEF Request
  <2>3. Allowed(q)
    BY <1>1, <1>5, <2>2 DEF Allowed, CreateStamp
  <2> QED
    BY <1>3, <2>1, <2>3
<1>6. CASE RoleAnswer(r)
  <2>1. PICK reply \in MeReplies(Users, admins) :
           IF Confirms(req[r].user, reply)
           THEN req' = [req EXCEPT ![r].pc = "recheck",
                                   ![r].confirmed = TRUE]
           ELSE Answer(r, "refused")
    BY <1>6 DEF RoleAnswer
  <2>2. CASE Confirms(req[r].user, reply)
    <3> DEFINE q == [req[r] EXCEPT !.pc = "recheck", !.confirmed = TRUE]
    <3>1. req' = [req EXCEPT ![r] = q]
      BY <1>1, <2>1, <2>2
    <3>2. req[r].user \in admins
      BY <2>2 DEF MeReplies, Confirms
    <3>3. req[r].wasAdmin /\ req[r].pc = "role"
      BY <1>1, <1>6, <3>2 DEF Allowed, RoleAnswer
    <3>4. /\ q.pc = "recheck" /\ q.late = req[r].late
          /\ q.user = req[r].user /\ q.target = req[r].target
          /\ q.wasAdmin = req[r].wasAdmin
      BY <1>1 DEF Request
    <3>5. Allowed(q)
      BY <1>1, <3>3, <3>4 DEF Allowed
    <3> QED
      BY <1>3, <3>1, <3>5
  <2> QED
    BY <1>2, <2>1, <2>2
<1>7. CASE DeleteRecheck(r)
  <2>1. CASE MayDelete(req[r]) /\ ~rows[req[r].target].deleted
    <3> DEFINE q == [req[r] EXCEPT !.pc = "tombstone"]
    <3>1. req' = [req EXCEPT ![r] = q]
      BY <1>1, <1>7, <2>1 DEF DeleteRecheck, Goto
    <3>2. ~req[r].late /\ req[r].pc = "recheck"
      BY <1>1, <1>7, <2>1 DEF Allowed, DeleteRecheck
    <3>3. /\ q.pc = "tombstone" /\ q.late = req[r].late
          /\ q.user = req[r].user /\ q.target = req[r].target
          /\ q.confirmed = req[r].confirmed /\ q.wasAdmin = req[r].wasAdmin
      BY <1>1 DEF Request
    <3>4. Allowed(q)
      BY <1>1, <2>1, <3>2, <3>3 DEF Allowed, MayDelete
    <3> QED
      BY <1>3, <3>1, <3>4
  <2> QED
    BY <1>2, <1>7, <2>1 DEF DeleteRecheck
<1> QED
  BY <1>4, <1>5, <1>6, <1>7

\* The steps that end a request.
LEMMA EndAllowed ==
    ASSUME RulesInv, NEW r \in Requests,
           \/ RoleUnavailable(r) \/ QueryFails(r)
           \/ \E answered \in BOOLEAN : \/ CreateInsert(r, answered)
                                       \/ EditWrite(r, answered)
                                       \/ DeleteWrite(r, answered)
    PROVE  AllAllowed'
<1>1. \E s : Answer(r, s)
  BY DEF RoleUnavailable, QueryFails, CreateInsert, EditWrite, DeleteWrite
<1>2. admins' = admins
  BY DEF RoleUnavailable, QueryFails, CreateInsert, EditWrite, DeleteWrite,
     Steady
<1>3. ForestNext \/ rows' = rows
  <2>1. CASE RoleUnavailable(r) \/ QueryFails(r)
    BY <2>1 DEF RoleUnavailable, QueryFails
  <2> QED
    BY <2>1, InsertRefines, WriteRefines DEF RulesInv
<1> QED
  BY <1>1, <1>2, <1>3, AnswerAllowed

\* The world around the requests.
LEMMA WorldAllowed ==
    ASSUME RulesInv,
           \/ \E n \in outbox : NotificationEnds(n)
           \/ \E u \in Moderators : ChangeRole(u)
           \/ \E m \in MaxDepths : Restart(m)
    PROVE  AllAllowed'
<1>1. CASE \E n \in outbox : NotificationEnds(n)
  BY <1>1 DEF NotificationEnds, Steady, RulesInv, AllAllowed, Allowed,
     MayDelete
<1>2. CASE \E m \in MaxDepths : Restart(m)
  BY <1>2, AnsweredAllowed DEF Restart, AllAllowed
<1>3. ASSUME NEW u \in Moderators, ChangeRole(u), NEW r \in Requests
      PROVE  (Allowed(req[r]))'
  <2>1. /\ rows' = rows
        /\ req[r] \in Request /\ Allowed(req[r])
    BY <1>3 DEF ChangeRole, RulesInv, IndInv, TypeOK, AllAllowed
  <2>2. CASE req[r].user = u
    <3>1. req'[r] = [req[r] EXCEPT !.wasAdmin = TRUE]
      BY <1>3, <2>2 DEF ChangeRole
    <3>2. PICK q : q = req'[r]
      OBVIOUS
    <3>3. /\ q.pc = req[r].pc /\ q.late = req[r].late
          /\ q.user = req[r].user /\ q.target = req[r].target
          /\ q.confirmed = req[r].confirmed /\ q.wasAdmin = TRUE
      BY <2>1, <3>1, <3>2 DEF Request
    <3>4. (Allowed(q))'
      BY <2>1, <3>3 DEF Allowed, MayDelete
    <3> QED
      BY <3>2, <3>4 DEF Allowed, MayDelete
  <2>3. CASE req[r].user # u
    <3>1. req'[r] = req[r]
      BY <1>3, <2>3 DEF ChangeRole
    <3>2. req[r].user \in admins' => req[r].user \in admins
      BY <1>3, <2>3 DEF ChangeRole
    <3> QED
      BY <2>1, <3>1, <3>2 DEF Allowed, MayDelete
  <2> QED
    BY <2>2, <2>3
<1> QED
  BY <1>1, <1>2, <1>3 DEF AllAllowed

LEMMA NextRules == RulesInv /\ [Next]_vars => RulesInv'
<1> SUFFICES ASSUME RulesInv, [Next]_vars PROVE AllAllowed'
  BY NextIndInv DEF RulesInv
<1>1. CASE \E r \in Requests : Arrival(r) \/ Progress(r) \/ RoleAnswer(r)
                                \/ QueryFails(r)
  BY <1>1, ArrivalAllowed, CheckAllowed, EndAllowed DEF Progress
<1>2. CASE UNCHANGED vars
  BY <1>2 DEF vars, RulesInv, AllAllowed, Allowed, MayDelete
<1> QED
  BY <1>1, <1>2, WorldAllowed DEF Next

\* The invariant behind the theorems.
LEMMA RulesHold == Spec => []RulesInv
<1>1. Init => RulesInv
  BY InitRules
<1>2. RulesInv /\ [Next]_vars => RulesInv'
  BY NextRules
<1> QED
  BY <1>1, <1>2, PTL DEF Spec

-----------------------------------------------------------------------------
\* A statement that writes comments is one request's last step, and no other
\* slot moves with it.
LEMMA WriterMoves ==
    ASSUME RulesInv, [Next]_vars, rows' # rows
    PROVE  \E r \in Requests, answered \in BOOLEAN :
              /\ \/ CreateInsert(r, answered) \/ EditWrite(r, answered)
                 \/ DeleteWrite(r, answered)
              /\ Moves(r)
              /\ \A s \in Requests \ {r} : req'[s] = req[s]
<1>1. PICK r \in Requests, answered \in BOOLEAN :
         CreateInsert(r, answered) \/ EditWrite(r, answered)
            \/ DeleteWrite(r, answered)
  <2>1. ASSUME NEW r \in Requests, Arrival(r) \/ RoleAnswer(r) \/ QueryFails(r)
        PROVE  rows' = rows
    BY <2>1 DEF Arrival, CreateComment, UpdateComment, DeleteComment,
       RoleAnswer, QueryFails
  <2>2. ASSUME NEW r \in Requests, CreateParent(r) \/ CreateStamp(r)
                     \/ DeleteRecheck(r) \/ RoleUnavailable(r)
        PROVE  rows' = rows
    BY <2>2 DEF CreateParent, CreateStamp, DeleteRecheck, RoleUnavailable
  <2>3. CASE \/ \E n \in outbox : NotificationEnds(n)
             \/ \E u \in Moderators : ChangeRole(u)
             \/ \E m \in MaxDepths : Restart(m)
             \/ UNCHANGED vars
    BY <2>3 DEF NotificationEnds, ChangeRole, Restart, vars
  <2> QED
    BY <2>1, <2>2, <2>3 DEF Next, Progress
<1>2. PICK s : Answer(r, s)
  BY <1>1 DEF CreateInsert, EditWrite, DeleteWrite
<1>3. /\ req'[r] = Answered(s)
      /\ \A t \in Requests \ {r} : req'[t] = req[t]
  BY <1>2 DEF Answer, RulesInv, IndInv, TypeOK
<1>4. req[r].pc # "idle" /\ admins' = admins
  BY <1>1 DEF CreateInsert, EditWrite, DeleteWrite, Steady
<1>5. Moves(r)
  BY <1>3, <1>4 DEF Moves, Answered
<1> QED
  BY <1>1, <1>3, <1>5

(***************************************************************************)
(* Comments change only at the request of their authors, or are deleted by *)
(* users who were admins at riley-auth at some time of the request,        *)
(* whatever their tokens claim: db::comments::update and soft_delete act   *)
(* on checks that are still good.                                          *)
(***************************************************************************)
THEOREM OnlyAllowedWrite == Spec => WritesAuthorised
<1> DEFINE Right(k, r) ==
             /\ Moves(r) /\ req[r].target = k
             /\ \/ req[r].user = rows[k].user
                \/ /\ req[r].wasAdmin
                   /\ rows'[k] = [rows[k] EXCEPT !.deleted = TRUE]
<1>1. ASSUME RulesInv, [Next]_vars, NEW k \in Posted, rows'[k] # rows[k]
      PROVE  \E r \in Requests : Right(k, r)
  <2>1. PICK r \in Requests, answered \in BOOLEAN :
           /\ \/ CreateInsert(r, answered) \/ EditWrite(r, answered)
              \/ DeleteWrite(r, answered)
           /\ Moves(r)
    BY <1>1, WriterMoves
  <2>2. /\ InFlight(req[r]) /\ Allowed(req[r])
        /\ rows \in [Posted -> Row]
    BY <1>1 DEF RulesInv, AllAllowed, IndInv, TypeOK, RowsOK
  <2>3. ~CreateInsert(r, answered)
    <3> SUFFICES ASSUME CreateInsert(r, answered) PROVE FALSE
      OBVIOUS
    <3>1. PICK q : q = req[r]
      OBVIOUS
    <3>2. q.key \notin Posted
      BY <2>2, <3>1 DEF InFlight, CreateInsert
    <3> QED
      BY <1>1, <3>1, <3>2 DEF CreateInsert
  <2>4. CASE EditWrite(r, answered)
    <3>1. req[r].target = k
      BY <1>1, <2>2, <2>4 DEF EditWrite, Edit
    <3> QED
      BY <2>1, <2>2, <2>4, <3>1 DEF Allowed, EditWrite
  <2>5. CASE DeleteWrite(r, answered)
    <3>1. /\ req[r].target = k
          /\ rows'[k] = [rows[k] EXCEPT !.deleted = TRUE]
      BY <1>1, <2>2, <2>5 DEF DeleteWrite, Remove
    <3>2. req[r].user = rows[k].user \/ req[r].wasAdmin
      BY <2>2, <2>5, <3>1 DEF Allowed, MayDelete, DeleteWrite
    <3> QED
      BY <2>1, <3>1, <3>2
  <2> QED
    BY <2>1, <2>3, <2>4, <2>5
<1>2. RulesInv /\ [Next]_vars =>
         [\A k \in Posted : rows'[k] # rows[k] =>
             \E r \in Requests : Right(k, r)]_vars
  BY <1>1
<1> QED
  BY <1>2, RulesHold, PTL DEF Spec, WritesAuthorised

(***************************************************************************)
(* A request that comes after its target was deleted changes nothing,      *)
(* however its steps and those of the deleting request fall.               *)
(***************************************************************************)
THEOREM TooLateWritesNothing == Spec => LateWritesNothing
<1>1. ASSUME RulesInv, [Next]_vars, NEW s \in Requests, req[s].late,
             Moves(s), rows' # rows
      PROVE  FALSE
  <2>1. PICK r \in Requests, answered \in BOOLEAN :
           /\ \/ CreateInsert(r, answered) \/ EditWrite(r, answered)
              \/ DeleteWrite(r, answered)
           /\ \A t \in Requests \ {r} : req'[t] = req[t]
    BY <1>1, WriterMoves
  <2>2. s = r
    BY <1>1, <2>1 DEF Moves
  <2>3. req[r].pc \in {"insert", "edit", "tombstone"}
    BY <2>1 DEF CreateInsert, EditWrite, DeleteWrite
  <2> QED
    BY <1>1, <2>2, <2>3 DEF RulesInv, AllAllowed, Allowed
<1>2. RulesInv /\ [Next]_vars =>
         [\A r \in Requests : req[r].late /\ Moves(r) => rows' = rows]_vars
  BY <1>1
<1> QED
  BY <1>2, RulesHold, PTL DEF Spec, LateWritesNothing

-----------------------------------------------------------------------------
\* A request that is answered at once, or refused, has changed nothing.
LEMMA RefusedOutcome ==
    ASSUME RulesInv, NEW r \in Requests, req'[r].pc = "idle",
           Arrival(r) \/ RoleAnswer(r) \/ RoleUnavailable(r) \/ QueryFails(r)
    PROVE  Outcome(req[r], req'[r].status)
<1>1. req \in [Requests -> Request] /\ rows' = rows
  BY DEF RulesInv, IndInv, TypeOK, Arrival, CreateComment, UpdateComment,
     DeleteComment, RoleAnswer, RoleUnavailable, QueryFails
<1>2. ASSUME NEW pc, NEW u, NEW k, NEW e, NEW b, pc # "idle",
             Arrive(r, pc, u, k, e, b)
      PROVE  FALSE
  BY <1>1, <1>2 DEF Arrive, Answered
<1>3. Answer(r, "refused") \/ Answer(r, "500")
  <2>1. CASE Arrival(r)
    BY <1>2, <2>1 DEF Arrival, CreateComment, UpdateComment, DeleteComment
  <2>2. CASE RoleAnswer(r)
    <3>1. PICK reply \in MeReplies(Users, admins) :
             \/ req' = [req EXCEPT ![r].pc = "recheck",
                                   ![r].confirmed = TRUE]
             \/ Answer(r, "refused")
      BY <2>2 DEF RoleAnswer
    <3> QED
      BY <1>1, <3>1 DEF Request
  <2> QED
    BY <2>1, <2>2 DEF RoleUnavailable, QueryFails
<1>4. req'[r].status \in {"refused", "500"}
  BY <1>1, <1>3 DEF Answer, Answered
<1> QED
  BY <1>1, <1>4 DEF Outcome

LEMMA CreateOutcome ==
    ASSUME RulesInv, NEW r \in Requests, req'[r].pc = "idle",
           \/ CreateParent(r) \/ CreateStamp(r)
           \/ \E answered \in BOOLEAN : CreateInsert(r, answered)
    PROVE  Outcome(req[r], req'[r].status)
<1>1. /\ req \in [Requests -> Request]
      /\ InFlight(req[r])
  BY DEF RulesInv, IndInv, TypeOK
<1>2. CASE CreateParent(r)
  <2>1. Answer(r, "refused") /\ rows' = rows
    BY <1>1, <1>2 DEF CreateParent, Request
  <2> QED
    BY <1>1, <2>1 DEF Answer, Answered, Outcome
<1>3. ~CreateStamp(r)
  BY <1>1 DEF CreateStamp, Request
<1>4. ASSUME NEW answered \in BOOLEAN, CreateInsert(r, answered)
      PROVE  Outcome(req[r], req'[r].status)
  <2>1. PICK q : q = req[r]
    OBVIOUS
  <2>2. q.key \notin Posted /\ Placed(q)
    BY <1>1, <1>4, <2>1 DEF InFlight, CreateInsert
  <2>3. /\ q.key \in DOMAIN rows'
        /\ rows'[q.key] = [parent |-> q.parent, user |-> q.user,
                           entity |-> q.entity, body |-> q.body,
                           depth |-> q.depth, replyTo |-> q.replyTo,
                           deleted |-> FALSE]
    BY <1>4, <2>1 DEF CreateInsert
  <2>4. q.target # None => \/ q.parent = q.target
                           \/ q.replyTo = rows[q.target].user
    BY <2>2 DEF Placed
  <2>5. req'[r].status \in {"201", "500"}
    BY <1>1, <1>4 DEF CreateInsert, Answer, Answered
  <2>6. \E k \in DOMAIN rows' \ Posted :
           /\ rows'[k].user = q.user
           /\ rows'[k].entity = q.entity
           /\ rows'[k].body = q.body
           /\ q.target # None => \/ rows'[k].parent = q.target
                                 \/ rows'[k].replyTo = rows[q.target].user
    BY <2>2, <2>3, <2>4
  <2> QED
    BY <2>1, <2>5, <2>6 DEF Outcome
<1> QED
  BY <1>2, <1>3, <1>4

LEMMA ChangeOutcome ==
    ASSUME RulesInv, NEW r \in Requests, req'[r].pc = "idle",
           \/ DeleteRecheck(r)
           \/ \E answered \in BOOLEAN : \/ EditWrite(r, answered)
                                       \/ DeleteWrite(r, answered)
    PROVE  Outcome(req[r], req'[r].status)
<1>1. /\ req \in [Requests -> Request]
      /\ rows \in [Posted -> Row]
      /\ InFlight(req[r])
  BY DEF RulesInv, IndInv, TypeOK, RowsOK
<1>2. CASE DeleteRecheck(r)
  <2>1. /\ rows' = rows
        /\ \/ Answer(r, "refused")
           \/ Answer(r, "204") /\ rows[req[r].target].deleted
    BY <1>1, <1>2 DEF DeleteRecheck, Goto, Request
  <2> QED
    BY <1>1, <2>1 DEF Answer, Answered, Outcome
<1>3. ASSUME NEW answered \in BOOLEAN, EditWrite(r, answered)
      PROVE  Outcome(req[r], req'[r].status)
  <2>1. req'[r].status \in {"200", "500"}
    BY <1>1, <1>3 DEF EditWrite, Answer, Answered
  <2>2. req[r].target \in Posted /\ rows[req[r].target] \in Row
    BY <1>1, <1>3 DEF EditWrite, Edit
  <2>3. rows'[req[r].target].body = req[r].body
    BY <1>1, <1>3, <2>2 DEF EditWrite, Edit, Row
  <2> QED
    BY <2>1, <2>3 DEF Outcome
<1>4. ASSUME NEW answered \in BOOLEAN, DeleteWrite(r, answered)
      PROVE  Outcome(req[r], req'[r].status)
  <2>1. req'[r].status \in {"204", "500"}
    BY <1>1, <1>4 DEF DeleteWrite, Answer, Answered
  <2>2. req[r].target \in Posted /\ rows[req[r].target] \in Row
    BY <1>1, <1>4 DEF DeleteWrite, Remove
  <2>3. rows'[req[r].target].deleted
    BY <1>1, <1>4, <2>2 DEF DeleteWrite, Remove, Row
  <2> QED
    BY <2>1, <2>3 DEF Outcome
<1> QED
  BY <1>2, <1>3, <1>4

\* A request's step moves no slot but its own.
LEMMA OneSlot ==
    ASSUME IndInv, NEW r \in Requests,
           Arrival(r) \/ Progress(r) \/ RoleAnswer(r) \/ QueryFails(r)
    PROVE  OthersStay(r)
<1>1. req \in [Requests -> Request]
  BY DEF IndInv, TypeOK
<1>2. \E q : req' = [req EXCEPT ![r] = q]
  <2>1. CASE Arrival(r)
    BY <2>1 DEF Arrival, CreateComment, UpdateComment, DeleteComment, Arrive,
       Answer
  <2>2. CASE CreateParent(r) \/ CreateStamp(r) \/ DeleteRecheck(r)
               \/ RoleUnavailable(r) \/ QueryFails(r)
    BY <1>1, <2>2 DEF CreateParent, CreateStamp, DeleteRecheck,
       RoleUnavailable, QueryFails, Goto, Answer
  <2>3. CASE RoleAnswer(r)
    BY <1>1, <2>3 DEF RoleAnswer, Answer
  <2>4. CASE \E answered \in BOOLEAN : \/ CreateInsert(r, answered)
                                      \/ EditWrite(r, answered)
                                      \/ DeleteWrite(r, answered)
    BY <2>4 DEF CreateInsert, EditWrite, DeleteWrite, Answer
  <2> QED
    BY <2>1, <2>2, <2>3, <2>4 DEF Progress
<1> QED
  BY <1>1, <1>2 DEF OthersStay

(***************************************************************************)
(* Answers tell the truth: 201, 200 and 204 mean that the comment is       *)
(* there, has the new body, is deleted, and 4xx and 503 that the request   *)
(* has changed nothing.                                                    *)
(***************************************************************************)
THEOREM AnswersAreTrue == Spec => AnswersTruthful
<1>1. ASSUME RulesInv, [Next]_vars, NEW r \in Requests, Moves(r),
             req'[r].pc = "idle"
      PROVE  Outcome(req[r], req'[r].status)
  <2>1. CASE Arrival(r) \/ Progress(r) \/ RoleAnswer(r) \/ QueryFails(r)
    BY <1>1, <2>1, RefusedOutcome, CreateOutcome, ChangeOutcome DEF Progress
  <2>2. ASSUME NEW s \in Requests, s # r,
               Arrival(s) \/ Progress(s) \/ RoleAnswer(s) \/ QueryFails(s)
        PROVE  FALSE
    BY <1>1, <2>2, OneSlot DEF RulesInv, OthersStay, Moves
  <2>3. ~(\E n \in outbox : NotificationEnds(n)) /\ ~(UNCHANGED vars)
    BY <1>1 DEF NotificationEnds, Moves, vars
  <2>4. ~(\E u \in Moderators : ChangeRole(u))
    BY <1>1 DEF ChangeRole, Moves
  <2>5. CASE \E m \in MaxDepths : Restart(m)
    <3>1. req'[r].status = None /\ rows' = rows
      BY <2>5 DEF Restart, Answered
    <3> QED
      BY <3>1, StatusAssumption DEF Outcome, Statuses
  <2> QED
    BY <1>1, <2>1, <2>2, <2>3, <2>4, <2>5 DEF Next
<1>2. RulesInv /\ [Next]_vars =>
         [\A r \in Requests : Moves(r) /\ req'[r].pc = "idle" =>
             Outcome(req[r], req'[r].status)]_vars
  BY <1>1
<1> QED
  BY <1>2, RulesHold, PTL DEF Spec, AnswersTruthful
=============================================================================

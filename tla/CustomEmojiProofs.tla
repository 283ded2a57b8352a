------------------------- MODULE CustomEmojiProofs -------------------------
(***************************************************************************)
(* For any number of admins, names, formats, images and requests: emoji    *)
(* change only at the hands of admins, and a listed emoji without an image *)
(* is being deleted, or its name has met one of the two hazards.           *)
(***************************************************************************)
EXTENDS CustomEmoji, TLAPS

USE EmojiAssumption

Begun == {"put", "insert", "read", "purge", "unlist"}

\* The checks: a request past Admit was an admin's and met a server with R2,
\* one before it will be an admin's if riley-auth says so now.
Entitled(q) ==
    /\ q.pc \in Begun => q.wasAdmin /\ base # None
    /\ q.pc = "role" /\ q.user \in admins => q.wasAdmin

\* Keys are used under their own name only, so requests for different names
\* do not meet.
OwnKeys ==
    /\ \A n \in DOMAIN listed : listed[n].key[1] = n
    /\ \A r \in Requests :
          /\ req[r].pc = "insert" =>
                req[r].key \in Keys /\ req[r].key[1] = req[r].name
          /\ req[r].pc = "purge" /\ req[r].key # None =>
                req[r].key \in Keys /\ req[r].key[1] = req[r].name

\* What two requests for a name have to avoid is on record.
Watched == Overlapping \subseteq risky

\* An image that is about to be listed is there, and one that is listed and
\* gone is past the purge of a delete that goes on.
Stored ==
    \A r \in Requests :
       req[r].pc = "insert" /\ req[r].name \notin risky =>
          bucket[req[r].key] # None

Mourned ==
    \A n \in Names \ risky : Broken(n) =>
       \E r \in Requests : req[r].pc = "unlist" /\ req[r].name = n

EmojiInv == /\ TypeOK /\ OwnKeys /\ Watched /\ Stored /\ Mourned
            /\ \A r \in Requests : Entitled(req[r])

-----------------------------------------------------------------------------
\* The shapes of a request.
LEMMA Shapes ==
    ASSUME NEW q \in Request
    PROVE  /\ q.pc = "idle" => q = Idle
           /\ q.pc = "role" =>
                 /\ q.then \in {"put", "read"} /\ q.user \in Users
                 /\ q.name \in Names /\ q.wasAdmin \in BOOLEAN
           /\ q.pc \in Begun =>
                 /\ q.user \in Users /\ q.name \in Names
                 /\ q.key \in Keys \cup {None} /\ q.wasAdmin \in BOOLEAN
           /\ q.pc \in {"idle", "role"} \cup Begun
<1>1. CASE q = Idle
  BY <1>1 DEF Idle, Begun
<1>2. CASE q \in [pc : {"role"}, then : {"put", "read"}, user : Users,
                  name : Names, wasAdmin : BOOLEAN]
  BY <1>2 DEF Begun
<1>3. CASE q \in [pc : Begun, user : Users, name : Names,
                  key : Keys \cup {None}, wasAdmin : BOOLEAN]
  BY <1>3 DEF Begun
<1> QED
  BY <1>1, <1>2, <1>3 DEF Request, Begun

\* What Goto makes of a request.
LEMMA Went ==
    ASSUME NEW r \in Requests, req[r] \in Request,
           req[r].pc \in {"role"} \cup Begun,
           NEW pc \in Begun, NEW key \in Keys \cup {None}, Goto(r, pc, key)
    PROVE  \E q \in Request :
              /\ req' = [req EXCEPT ![r] = q]
              /\ q.pc = pc /\ q.key = key
              /\ q.name = req[r].name /\ q.user = req[r].user
              /\ q.wasAdmin = req[r].wasAdmin
<1> DEFINE q == [pc |-> pc, name |-> req[r].name, key |-> key,
                 user |-> req[r].user, wasAdmin |-> req[r].wasAdmin]
<1>1. /\ req[r].name \in Names /\ req[r].user \in Users
      /\ req[r].wasAdmin \in BOOLEAN
  BY Shapes DEF Begun
<1>2. q \in Request
  BY <1>1 DEF Request, Begun
<1>3. req' = [req EXCEPT ![r] = q]
  BY DEF Goto
<1> QED
  BY <1>2, <1>3

\* A step of one request leaves the others what they are entitled to.
LEMMA MoveEntitled ==
    ASSUME EmojiInv, NEW r \in Requests, NEW q \in Request,
           req' = [req EXCEPT ![r] = q], UNCHANGED <<base, admins>>, Entitled(q)
    PROVE  /\ req' \in [Requests -> Request]
           /\ req'[r] = q
           /\ \A s \in Requests : s # r => req'[s] = req[s]
           /\ \A s \in Requests : Entitled(req[s])'
<1>1. /\ req' \in [Requests -> Request]
      /\ req'[r] = q
      /\ \A s \in Requests : s # r => req'[s] = req[s]
  BY DEF EmojiInv, TypeOK
<1>2. ASSUME NEW s \in Requests PROVE Entitled(req[s])'
  <2>1. Entitled(req[s]) /\ (req'[s] = q \/ req'[s] = req[s])
    BY <1>1 DEF EmojiInv
  <2> QED
    BY <2>1 DEF Entitled
<1> QED
  BY <1>1, <1>2

\* Requests that only begin, end or go on before their first write keep all
\* the rest.
LEMMA QuietKeeps ==
    ASSUME EmojiInv, NEW r \in Requests, NEW q \in Request,
           req' = [req EXCEPT ![r] = q],
           UNCHANGED <<base, listed, bucket, admins>>, Watch,
           Entitled(q), req[r].pc # "unlist",
           q.pc # "insert",
           q.pc = "purge" /\ q.key # None =>
              q.key \in Keys /\ q.key[1] = q.name
    PROVE  EmojiInv'
<1>1. /\ req' \in [Requests -> Request]
      /\ req'[r] = q
      /\ \A s \in Requests : s # r => req'[s] = req[s]
      /\ \A s \in Requests : Entitled(req[s])'
  BY MoveEntitled
<1>2. risky \subseteq risky' /\ risky' \subseteq Names /\ Watched'
  BY DEF Watch, Watched, EmojiInv, TypeOK, Overlapping
<1>3. TypeOK'
  BY <1>1, <1>2 DEF EmojiInv, TypeOK
<1>4. OwnKeys'
  BY <1>1 DEF EmojiInv, OwnKeys
<1>5. Stored'
  BY <1>1, <1>2 DEF EmojiInv, Stored
<1>6. Mourned'
  BY <1>1, <1>2 DEF EmojiInv, Mourned, Broken
<1> QED
  BY <1>1, <1>2, <1>3, <1>4, <1>5, <1>6 DEF EmojiInv

LEMMA AskKeeps ==
    ASSUME EmojiInv, NEW r \in Requests, NEW then \in {"put", "read"},
           NEW u \in Users, NEW n \in Names, Ask(r, then, u, n)
    PROVE  EmojiInv'
<1> DEFINE q == [pc |-> "role", then |-> then, user |-> u, name |-> n,
                 wasAdmin |-> u \in admins]
<1>1. q \in Request
  BY DEF Request
<1>2. Entitled(q)
  BY DEF Entitled, Begun
<1> QED
  BY <1>1, <1>2, QuietKeeps DEF Ask

\* Only a clear yes lets a request go on, and it is about its user, now.
LEMMA AdmitKeeps ==
    ASSUME EmojiInv, NEW r \in Requests, Admit(r)
    PROVE  EmojiInv'
<1>1. PICK reply \in MeReplies(Users, admins) :
         IF Confirms(req[r].user, reply) /\ base # None
         THEN Goto(r, req[r].then, None) ELSE Stop(r)
  BY DEF Admit
<1>2. /\ req[r].pc = "role" /\ req[r] \in Request /\ Entitled(req[r])
      /\ UNCHANGED <<base, listed, bucket, admins>> /\ Watch
  BY DEF Admit, EmojiInv, TypeOK
<1>3. CASE Confirms(req[r].user, reply) /\ base # None
  <2>1. req[r].user \in admins
    <3>1. CASE reply \in [status : {"none", "4xx", "429", "other", "garbled"}]
      BY <1>3, <3>1 DEF Confirms
    <3>2. ASSUME NEW v \in Users,
                 reply = [status |-> "2xx", id |-> v,
                          role |-> IF v \in admins THEN "admin" ELSE "user"]
          PROVE  req[r].user \in admins
      BY <1>3, <3>2 DEF Confirms
    <3> QED
      BY <3>1, <3>2 DEF MeReplies
  <2>2. req[r].then \in {"put", "read"}
    BY <1>2, Shapes
  <2>3. PICK q \in Request :
           /\ req' = [req EXCEPT ![r] = q]
           /\ q.pc = req[r].then /\ q.wasAdmin = req[r].wasAdmin
    BY <1>1, <1>2, <1>3, <2>2, Went DEF Begun
  <2>4. Entitled(q)
    BY <1>2, <1>3, <2>1, <2>2, <2>3 DEF Entitled, Begun
  <2> QED
    BY <1>2, <2>2, <2>3, <2>4, QuietKeeps
<1>4. CASE ~(Confirms(req[r].user, reply) /\ base # None)
  <2>1. Idle \in Request /\ Entitled(Idle) /\ Idle.pc = "idle"
    BY DEF Request, Idle, Entitled, Begun
  <2>2. req' = [req EXCEPT ![r] = Idle]
    BY <1>1, <1>4 DEF Stop
  <2> QED
    BY <1>2, <2>1, <2>2, QuietKeeps
<1> QED
  BY <1>3, <1>4

\* An image that is stored only fills gaps.  What is inserted next has its
\* own image now.
LEMMA StoreKeeps ==
    ASSUME EmojiInv, NEW r \in Requests, req[r].pc = "put",
           NEW key \in Keys, NEW image \in Images, key[1] = req[r].name,
           PutObject(key, image),
           UNCHANGED <<base, listed, admins>>, Watch,
           NEW q \in Request, req' = [req EXCEPT ![r] = q],
           \/ q = Idle
           \/ q.pc = "insert" /\ q.key = key /\ q.name = req[r].name
              /\ q.wasAdmin = req[r].wasAdmin
    PROVE  EmojiInv'
<1>1. /\ bucket' \in [Keys -> Images \cup {None}]
      /\ bucket'[key] # None
      /\ \A k \in Keys : bucket[k] # None => bucket'[k] # None
  BY DEF PutObject, EmojiInv, TypeOK
<1>2. Entitled(req[r])
  BY DEF EmojiInv
<1>3. Entitled(q)
  BY <1>2 DEF Entitled, Idle, Begun
<1>4. /\ req' \in [Requests -> Request]
      /\ req'[r] = q
      /\ \A s \in Requests : s # r => req'[s] = req[s]
      /\ \A s \in Requests : Entitled(req[s])'
  BY <1>3, MoveEntitled
<1>5. risky \subseteq risky' /\ risky' \subseteq Names /\ Watched'
  BY DEF Watch, Watched, EmojiInv, TypeOK, Overlapping
<1>6. TypeOK'
  BY <1>1, <1>4, <1>5 DEF EmojiInv, TypeOK
<1>7. OwnKeys'
  BY <1>4 DEF EmojiInv, OwnKeys, Idle
<1>8. Stored'
  <2> SUFFICES ASSUME NEW s \in Requests, req'[s].pc = "insert",
                      req'[s].name \notin risky'
               PROVE  bucket'[req'[s].key] # None
    BY DEF Stored
  <2>1. CASE s = r
    BY <1>1, <1>4, <2>1 DEF Idle
  <2>2. CASE s # r
    BY <1>1, <1>4, <1>5, <2>2 DEF EmojiInv, Stored, OwnKeys
  <2> QED
    BY <2>1, <2>2
<1>9. Mourned'
  <2> SUFFICES ASSUME NEW n \in Names \ risky', Broken(n)'
               PROVE  \E s \in Requests : req'[s].pc = "unlist" /\ req'[s].name = n
    BY DEF Mourned
  <2>1. listed[n].key \in Keys /\ n \in DOMAIN listed
    BY DEF Broken, EmojiInv, TypeOK, Url
  <2>2. Broken(n)
    BY <1>1, <2>1 DEF Broken
  <2>3. PICK s \in Requests : req[s].pc = "unlist" /\ req[s].name = n
    BY <1>5, <2>2 DEF EmojiInv, Mourned
  <2> QED
    BY <1>4, <2>3
<1> QED
  BY <1>4, <1>5, <1>6, <1>7, <1>8, <1>9 DEF EmojiInv

LEMMA UploadKeeps ==
    ASSUME EmojiInv, NEW r \in Requests, NEW x \in Exts, NEW image \in Images,
           UploadPut(r, x, image) \/ UploadPutFails(r, x, image)
    PROVE  EmojiInv'
<1>1. req[r].pc = "put" /\ req[r] \in Request
  BY DEF UploadPut, UploadPutFails, EmojiInv, TypeOK
<1>2. req[r].name \in Names
  BY <1>1, Shapes DEF Begun
<1>3. <<req[r].name, x>> \in Keys
  BY <1>2 DEF Keys
<1>4. CASE UploadPut(r, x, image)
  <2>1. PICK q \in Request :
           /\ req' = [req EXCEPT ![r] = q]
           /\ q.pc = "insert" /\ q.key = <<req[r].name, x>>
           /\ q.name = req[r].name /\ q.wasAdmin = req[r].wasAdmin
    BY <1>1, <1>3, <1>4, Went DEF UploadPut, Begun
  <2> QED
    BY <1>1, <1>3, <1>4, <2>1, StoreKeeps DEF UploadPut
<1>5. CASE UploadPutFails(r, x, image)
  BY <1>1, <1>3, <1>5, StoreKeeps DEF UploadPutFails, Stop, Request
<1> QED
  BY <1>4, <1>5

LEMMA DeleteReadKeeps ==
    ASSUME EmojiInv, NEW r \in Requests, DeleteRead(r)
    PROVE  EmojiInv'
<1>1. /\ req[r].pc = "read" /\ req[r] \in Request /\ Entitled(req[r])
      /\ UNCHANGED <<base, listed, bucket, admins>> /\ Watch
  BY DEF DeleteRead, EmojiInv, TypeOK
<1>2. CASE req[r].name \in DOMAIN listed
  <2> DEFINE key == KeyOf(listed[req[r].name])
  <2>1. /\ listed[req[r].name].key \in Keys
        /\ listed[req[r].name].key[1] = req[r].name
    BY <1>2 DEF EmojiInv, TypeOK, OwnKeys, Url
  <2>3. /\ key \in Keys \cup {None}
        /\ key # None => key[1] = req[r].name
    BY <2>1 DEF KeyOf
  <2>4. PICK q \in Request :
           /\ req' = [req EXCEPT ![r] = q]
           /\ q.pc = "purge" /\ q.key = key
           /\ q.name = req[r].name /\ q.wasAdmin = req[r].wasAdmin
    BY <1>1, <1>2, <2>3, Went DEF DeleteRead, Begun
  <2>5. Entitled(q)
    BY <1>1, <2>4 DEF Entitled, Begun
  <2> QED
    BY <1>1, <2>3, <2>4, <2>5, QuietKeeps
<1>3. CASE req[r].name \notin DOMAIN listed
  <2>1. Idle \in Request /\ Entitled(Idle) /\ Idle.pc = "idle"
    BY DEF Request, Idle, Entitled, Begun
  <2>2. req' = [req EXCEPT ![r] = Idle]
    BY <1>3 DEF DeleteRead, Stop
  <2> QED
    BY <1>1, <2>1, <2>2, QuietKeeps
<1> QED
  BY <1>2, <1>3

\* What holds of requests that end before they leave anything half done.
LEMMA EndEntitled ==
    ASSUME EmojiInv, NEW r \in Requests, Stop(r), UNCHANGED <<base, admins>>
    PROVE  /\ req' \in [Requests -> Request]
           /\ req'[r] = Idle
           /\ \A s \in Requests : s # r => req'[s] = req[s]
           /\ \A s \in Requests : Entitled(req[s])'
<1>1. Idle \in Request /\ Entitled(Idle)
  BY DEF Request, Idle, Entitled, Begun
<1> QED
  BY <1>1, MoveEntitled DEF Stop

\* The row of an upload has its image unless a delete of the name overlaps.
LEMMA UploadInsertKeeps ==
    ASSUME EmojiInv, NEW r \in Requests, UploadInsert(r)
    PROVE  EmojiInv'
<1> DEFINE n == req[r].name
           k == req[r].key
<1>1. /\ req[r].pc = "insert" /\ req[r] \in Request
      /\ UNCHANGED <<base, bucket, admins>> /\ Watch /\ Stop(r)
  BY DEF UploadInsert, EmojiInv, TypeOK
<1>2. n \in Names /\ k \in Keys /\ k[1] = n
  BY <1>1, Shapes DEF Begun, EmojiInv, OwnKeys
<1>3. /\ req' \in [Requests -> Request]
      /\ req'[r] = Idle
      /\ \A s \in Requests : s # r => req'[s] = req[s]
      /\ \A s \in Requests : Entitled(req[s])'
  BY <1>1, EndEntitled
<1>4. risky \subseteq risky' /\ risky' \subseteq Names /\ Watched'
  BY <1>1 DEF Watch, Watched, EmojiInv, TypeOK, Overlapping
<1>5. Stored'
  BY <1>1, <1>3, <1>4 DEF EmojiInv, Stored, Idle
<1>6. CASE n \in DOMAIN listed
  <2>1. listed' = listed
    BY <1>6 DEF UploadInsert
  <2>2. TypeOK' /\ OwnKeys'
    BY <1>1, <1>3, <1>4, <2>1 DEF EmojiInv, TypeOK, OwnKeys, Idle
  <2>3. Mourned'
    BY <1>1, <1>3, <1>4, <2>1 DEF EmojiInv, Mourned, Broken
  <2> QED
    BY <1>3, <1>4, <1>5, <2>2, <2>3 DEF EmojiInv
<1>7. CASE n \notin DOMAIN listed
  <2>1. base \in Bases
    BY <1>1 DEF EmojiInv, TypeOK, Settings, Entitled, Begun
  <2>2. /\ DOMAIN listed' = DOMAIN listed \cup {n}
        /\ listed'[n] = [base |-> base, key |-> k]
        /\ \A m \in DOMAIN listed : listed'[m] = listed[m]
        /\ listed' \in [DOMAIN listed' -> Url]
    BY <1>2, <1>7, <2>1 DEF UploadInsert, EmojiInv, TypeOK, Url
  <2>3. TypeOK'
    BY <1>1, <1>2, <1>3, <1>4, <2>2 DEF EmojiInv, TypeOK
  <2>4. OwnKeys'
    BY <1>2, <1>3, <2>2 DEF EmojiInv, OwnKeys, Idle
  <2>5. Mourned'
    <3> SUFFICES ASSUME NEW m \in Names \ risky', Broken(m)'
                 PROVE  \E s \in Requests : req'[s].pc = "unlist" /\ req'[s].name = m
      BY DEF Mourned
    <3>1. m # n
      BY <1>1, <1>4, <2>2 DEF Broken, EmojiInv, Stored
    <3>2. Broken(m)
      BY <1>1, <2>2, <3>1 DEF Broken
    <3>3. PICK s \in Requests : req[s].pc = "unlist" /\ req[s].name = m
      BY <1>4, <3>2 DEF EmojiInv, Mourned
    <3> QED
      BY <1>1, <1>3, <3>3
  <2> QED
    BY <1>3, <1>4, <1>5, <2>3, <2>4, <2>5 DEF EmojiInv
<1> QED
  BY <1>6, <1>7

\* The purge: what it takes away, it is about to unlist, and an upload that
\* meant to list it overlaps.
LEMMA DeletePurgeKeeps ==
    ASSUME EmojiInv, NEW r \in Requests, NEW works \in BOOLEAN,
           DeletePurge(r, works)
    PROVE  EmojiInv'
<1> DEFINE n == req[r].name
           q == [req[r] EXCEPT !.pc = "unlist"]
<1>1. /\ req[r].pc = "purge" /\ req[r] \in Request /\ Entitled(req[r])
      /\ UNCHANGED <<base, listed, admins>> /\ Watch
      /\ req' = [req EXCEPT ![r] = q]
  BY DEF DeletePurge, EmojiInv, TypeOK
<1>2. req[r] \in [pc : Begun, user : Users, name : Names,
                  key : Keys \cup {None}, wasAdmin : BOOLEAN]
  BY <1>1 DEF Request, Idle, Begun
<1>3. /\ q \in Request /\ q.pc = "unlist" /\ q.name = n
      /\ q.wasAdmin = req[r].wasAdmin /\ n \in Names
  BY <1>2 DEF Request, Begun
<1>4. Entitled(q)
  BY <1>1, <1>3 DEF Entitled, Begun
<1>5. /\ req' \in [Requests -> Request]
      /\ req'[r] = q
      /\ \A s \in Requests : s # r => req'[s] = req[s]
      /\ \A s \in Requests : Entitled(req[s])'
  BY <1>1, <1>3, <1>4, MoveEntitled
<1>6. risky \subseteq risky' /\ risky' \subseteq Names /\ Watched'
  BY <1>1 DEF Watch, Watched, EmojiInv, TypeOK, Overlapping
<1>7. /\ bucket' \in [Keys -> Images \cup {None}]
      /\ \A k \in Keys : k[1] # n => bucket'[k] = bucket[k]
  BY <1>1 DEF DeletePurge, EmojiInv, TypeOK, OwnKeys
<1>8. TypeOK' /\ OwnKeys'
  BY <1>1, <1>3, <1>5, <1>6, <1>7 DEF EmojiInv, TypeOK, OwnKeys
<1>9. Stored'
  <2> SUFFICES ASSUME NEW s \in Requests, req'[s].pc = "insert",
                      req'[s].name \notin risky'
               PROVE  bucket'[req'[s].key] # None
    BY DEF Stored
  <2>1. s # r /\ req'[s] = req[s]
    BY <1>3, <1>5
  <2>2. req[s].name \in Names
    BY <2>1, Shapes DEF Begun, EmojiInv, TypeOK
  <2>3. Uploading(req[s].name)'
    BY <2>1 DEF Uploading
  <2>4. n = req[s].name => Deleting(req[s].name)'
    BY <1>3, <1>5 DEF Deleting
  <2>5. req[s].name # n
    BY <1>6, <2>1, <2>2, <2>3, <2>4 DEF Watched, Overlapping
  <2>6. req[s].key \in Keys /\ req[s].key[1] = req[s].name
    BY <2>1 DEF EmojiInv, OwnKeys
  <2>7. bucket[req[s].key] # None
    BY <1>6, <2>1 DEF EmojiInv, Stored
  <2> QED
    BY <1>7, <2>1, <2>5, <2>6, <2>7
<1>10. Mourned'
  <2> SUFFICES ASSUME NEW m \in Names \ risky', Broken(m)'
               PROVE  \E s \in Requests : req'[s].pc = "unlist" /\ req'[s].name = m
    BY DEF Mourned
  <2>1. CASE m = n
    BY <1>3, <1>5, <2>1
  <2>2. CASE m # n
    <3>1. /\ m \in DOMAIN listed
          /\ listed[m].key \in Keys /\ listed[m].key[1] = m
      BY <1>1 DEF Broken, EmojiInv, TypeOK, OwnKeys, Url
    <3>2. Broken(m)
      BY <1>1, <1>7, <2>2, <3>1 DEF Broken
    <3>3. PICK s \in Requests : req[s].pc = "unlist" /\ req[s].name = m
      BY <1>6, <3>2 DEF EmojiInv, Mourned
    <3> QED
      BY <1>1, <1>5, <3>3
  <2> QED
    BY <2>1, <2>2
<1> QED
  BY <1>5, <1>6, <1>8, <1>9, <1>10 DEF EmojiInv

\* The row goes last, and with it what its image was missed for.
LEMMA DeleteUnlistKeeps ==
    ASSUME EmojiInv, NEW r \in Requests, DeleteUnlist(r)
    PROVE  EmojiInv'
<1> DEFINE n == req[r].name
<1>1. /\ req[r].pc = "unlist" /\ Stop(r) /\ Watch
      /\ UNCHANGED <<base, bucket, admins>>
      /\ DOMAIN listed' = DOMAIN listed \ {n}
      /\ \A m \in DOMAIN listed' : listed'[m] = listed[m]
      /\ listed' = [m \in DOMAIN listed' |-> listed'[m]]
  BY DEF DeleteUnlist
<1>2. /\ req' \in [Requests -> Request]
      /\ req'[r] = Idle
      /\ \A s \in Requests : s # r => req'[s] = req[s]
      /\ \A s \in Requests : Entitled(req[s])'
  BY <1>1, EndEntitled
<1>3. risky \subseteq risky' /\ risky' \subseteq Names /\ Watched'
  BY <1>1 DEF Watch, Watched, EmojiInv, TypeOK, Overlapping
<1>4. TypeOK' /\ OwnKeys'
  BY <1>1, <1>2, <1>3 DEF EmojiInv, TypeOK, OwnKeys, Idle
<1>5. Stored'
  BY <1>1, <1>2, <1>3 DEF EmojiInv, Stored, Idle
<1>6. Mourned'
  <2> SUFFICES ASSUME NEW m \in Names \ risky', Broken(m)'
               PROVE  \E s \in Requests : req'[s].pc = "unlist" /\ req'[s].name = m
    BY DEF Mourned
  <2>1. m # n /\ Broken(m)
    BY <1>1 DEF Broken
  <2>2. PICK s \in Requests : req[s].pc = "unlist" /\ req[s].name = m
    BY <1>3, <2>1 DEF EmojiInv, Mourned
  <2> QED
    BY <1>2, <2>1, <2>2
<1> QED
  BY <1>2, <1>3, <1>4, <1>5, <1>6 DEF EmojiInv

\* A request that is cut short may leave a deletion half done, which is the
\* other hazard.
LEMMA CutShortKeeps ==
    ASSUME EmojiInv, NEW r \in Requests, CutShort(r)
    PROVE  EmojiInv'
<1>1. /\ UNCHANGED <<base, listed, bucket, admins>> /\ Stop(r)
      /\ risky' = risky \cup HalfDeleted({r})
  BY DEF CutShort
<1>2. /\ req' \in [Requests -> Request]
      /\ req'[r] = Idle
      /\ \A s \in Requests : s # r => req'[s] = req[s]
      /\ \A s \in Requests : Entitled(req[s])'
  BY <1>1, EndEntitled
<1>3. /\ risky \subseteq risky' /\ risky' \subseteq Names
      /\ req[r].pc = "unlist" => req[r].name \in risky'
  <2>1. req[r].pc = "unlist" => req[r].name \in Names
    BY Shapes DEF Begun, EmojiInv, TypeOK
  <2> QED
    BY <1>1, <2>1 DEF HalfDeleted, EmojiInv, TypeOK
<1>4. Overlapping' \subseteq Overlapping
  BY <1>2 DEF Overlapping, Uploading, Deleting, Idle
<1>5. TypeOK' /\ OwnKeys' /\ Watched' /\ Stored'
  <2>1. TypeOK'
    BY <1>1, <1>2, <1>3 DEF EmojiInv, TypeOK
  <2>2. OwnKeys'
    BY <1>1, <1>2 DEF EmojiInv, OwnKeys, Idle
  <2>3. Watched'
    BY <1>3, <1>4 DEF EmojiInv, Watched
  <2>4. Stored'
    BY <1>1, <1>2, <1>3 DEF EmojiInv, Stored, Idle
  <2> QED
    BY <2>1, <2>2, <2>3, <2>4
<1>6. Mourned'
  <2> SUFFICES ASSUME NEW m \in Names \ risky', Broken(m)'
               PROVE  \E s \in Requests : req'[s].pc = "unlist" /\ req'[s].name = m
    BY DEF Mourned
  <2>1. PICK s \in Requests : req[s].pc = "unlist" /\ req[s].name = m
    BY <1>1, <1>3 DEF Broken, EmojiInv, Mourned
  <2> QED
    BY <1>2, <1>3, <2>1
<1> QED
  BY <1>2, <1>5, <1>6 DEF EmojiInv

\* A restart cuts all of them short.
LEMMA RestartKeeps ==
    ASSUME EmojiInv, NEW b \in Settings, Restart(b)
    PROVE  EmojiInv'
<1>1. /\ base' = b /\ UNCHANGED <<listed, bucket, admins>>
      /\ req' = [r \in Requests |-> Idle]
      /\ risky' = risky \cup HalfDeleted(Requests)
  BY DEF Restart
<1>2. /\ \A r \in Requests : req'[r] = Idle
      /\ req' \in [Requests -> Request]
      /\ \A s \in Requests : Entitled(req[s])'
  BY <1>1 DEF Request, Idle, Entitled, Begun
<1>3. ASSUME NEW r \in Requests, req[r].pc = "unlist"
      PROVE  req[r].name \in risky' /\ req[r].name \in Names
  BY <1>1, <1>3, Shapes DEF HalfDeleted, Begun, EmojiInv, TypeOK
<1>4. HalfDeleted(Requests) \subseteq Names
  BY <1>3 DEF HalfDeleted
<1>5. TypeOK'
  BY <1>1, <1>2, <1>4 DEF EmojiInv, TypeOK
<1>6. OwnKeys'
  BY <1>1, <1>2 DEF EmojiInv, OwnKeys, Idle
<1>7. Watched' /\ Stored'
  BY <1>2 DEF Watched, Overlapping, Uploading, Stored, Idle
<1>8. Mourned'
  BY <1>1, <1>3 DEF EmojiInv, Mourned, Broken
<1> QED
  BY <1>2, <1>5, <1>6, <1>7, <1>8 DEF EmojiInv

\* A new role is one the requests of the user have had.
LEMMA ChangeRoleKeeps ==
    ASSUME EmojiInv, NEW u \in Users, ChangeRole(u)
    PROVE  EmojiInv'
<1>1. /\ UNCHANGED <<base, listed, bucket, risky>> /\ admins' \subseteq Users
      /\ \A v : v # u => (v \in admins' <=> v \in admins)
  BY DEF ChangeRole, EmojiInv, TypeOK
<1>2. ASSUME NEW r \in Requests
      PROVE  /\ req'[r] \in Request
             /\ req'[r].pc = req[r].pc
             /\ req[r].pc \in Begun =>
                   req'[r].name = req[r].name /\ req'[r].key = req[r].key
             /\ Entitled(req[r])'
  <2>1. req[r] \in Request /\ Entitled(req[r])
    BY DEF EmojiInv, TypeOK
  <2>2. CASE req[r] # Idle /\ req[r].user = u
    <3>1. req'[r] = [req[r] EXCEPT !.wasAdmin = TRUE]
      BY <2>2 DEF ChangeRole
    <3>2. CASE req[r] \in [pc : {"role"}, then : {"put", "read"}, user : Users,
                           name : Names, wasAdmin : BOOLEAN]
      <4>1. /\ req'[r] \in [pc : {"role"}, then : {"put", "read"}, user : Users,
                            name : Names, wasAdmin : BOOLEAN]
            /\ req'[r].pc = "role" /\ req'[r].wasAdmin /\ req[r].pc = "role"
        BY <3>1, <3>2
      <4> QED
        BY <4>1 DEF Request, Entitled, Begun
    <3>3. CASE req[r] \in [pc : Begun, user : Users, name : Names,
                           key : Keys \cup {None}, wasAdmin : BOOLEAN]
      <4>1. /\ req'[r] \in [pc : Begun, user : Users, name : Names,
                            key : Keys \cup {None}, wasAdmin : BOOLEAN]
            /\ req'[r].pc = req[r].pc /\ req'[r].wasAdmin
            /\ req'[r].name = req[r].name /\ req'[r].key = req[r].key
        BY <3>1, <3>3
      <4>2. req'[r] \in Request
        BY <4>1 DEF Request, Begun
      <4> QED
        BY <1>1, <2>1, <4>1, <4>2 DEF Entitled
    <3> QED
      BY <2>1, <2>2, <3>2, <3>3 DEF Request, Begun
  <2>3. CASE ~(req[r] # Idle /\ req[r].user = u)
    <3>1. req'[r] = req[r]
      BY <2>3 DEF ChangeRole
    <3>2. req[r].pc = "role" => req[r].user # u
      BY <2>3 DEF Idle
    <3> QED
      BY <1>1, <2>1, <3>1, <3>2 DEF Entitled
  <2> QED
    BY <2>2, <2>3
<1>3. req' \in [Requests -> Request]
  BY <1>2 DEF ChangeRole
<1>4. TypeOK' /\ OwnKeys'
  BY <1>1, <1>2, <1>3 DEF EmojiInv, TypeOK, OwnKeys, Begun
<1>5. Watched'
  BY <1>1, <1>2 DEF EmojiInv, Watched, Overlapping, Uploading, Deleting, Begun
<1>6. Stored'
  BY <1>1, <1>2 DEF EmojiInv, Stored, Begun
<1>7. Mourned'
  BY <1>1, <1>2 DEF EmojiInv, Mourned, Broken, Begun
<1> QED
  BY <1>2, <1>4, <1>5, <1>6, <1>7 DEF EmojiInv

LEMMA InitEmoji == Init => EmojiInv
<1> SUFFICES ASSUME Init PROVE EmojiInv
  OBVIOUS
<1>1. \A r \in Requests : req[r] = Idle
  BY DEF Init
<1>2. TypeOK
  BY DEF Init, TypeOK, Request
<1>3. OwnKeys /\ Watched /\ Stored
  BY <1>1 DEF Init, OwnKeys, Watched, Overlapping, Uploading, Stored, Idle
<1>4. Mourned
  BY DEF Init, Mourned, Broken
<1>5. \A r \in Requests : Entitled(req[r])
  BY <1>1 DEF Entitled, Idle, Begun
<1> QED
  BY <1>2, <1>3, <1>4, <1>5 DEF EmojiInv

LEMMA NextEmoji == EmojiInv /\ [Next]_vars => EmojiInv'
<1> SUFFICES ASSUME EmojiInv, [Next]_vars PROVE EmojiInv'
  OBVIOUS
<1>1. CASE Next
  BY <1>1, AskKeeps, AdmitKeeps, UploadKeeps, UploadInsertKeeps,
     DeleteReadKeeps, DeletePurgeKeeps, DeleteUnlistKeeps, CutShortKeeps,
     ChangeRoleKeeps, RestartKeeps DEF Next
<1>2. CASE UNCHANGED vars
  BY <1>2 DEF vars, EmojiInv, TypeOK, OwnKeys, Watched, Overlapping, Uploading,
     Deleting, Stored, Mourned, Broken, Entitled
<1> QED
  BY <1>1, <1>2

LEMMA AlwaysEmoji == Spec => []EmojiInv
BY InitEmoji, NextEmoji, PTL DEF Spec

(***************************************************************************)
(* The table, the bucket and the requests keep their types.                *)
(***************************************************************************)
THEOREM EmojiTyped == Spec => []TypeOK
BY AlwaysEmoji, PTL DEF EmojiInv

(***************************************************************************)
(* A listed emoji whose image is gone is being deleted, unless an upload   *)
(* and a delete of its name overlapped or a delete stopped half way:       *)
(* whatever else fails or races leaves no broken emoji.                    *)
(***************************************************************************)
THEOREM BrokenByHazardsOnly == Spec => []OnlyHazardsBreak
<1>1. EmojiInv => OnlyHazardsBreak
  BY DEF EmojiInv, Mourned, OnlyHazardsBreak, Deleting
<1> QED
  BY <1>1, AlwaysEmoji, PTL

(***************************************************************************)
(* Whatever changes in the table or in R2 is the work of a request whose   *)
(* user was an admin at riley-auth at some time during it.                 *)
(***************************************************************************)
THEOREM OnlyAdminsChange == Spec => ChangesByAdmins
<1>1. ASSUME EmojiInv, Next, UNCHANGED <<listed, bucket>> => FALSE
      PROVE  \E r \in Requests : Works(r) /\ req[r].wasAdmin
  <2>1. \E r \in Requests :
           /\ req[r].pc \in {"put", "insert", "purge", "unlist"}
           /\ req'[r].pc # req[r].pc
           /\ admins' = admins
    <3>1. ASSUME NEW r \in Requests, NEW x \in Exts, NEW i \in Images,
                 UploadPut(r, x, i) \/ UploadPutFails(r, x, i)
          PROVE  /\ req[r].pc = "put" /\ req'[r].pc # "put"
                 /\ admins' = admins
      BY <1>1, <3>1
         DEF UploadPut, UploadPutFails, Goto, Stop, Idle, EmojiInv, TypeOK
    <3>2. ASSUME NEW r \in Requests, UploadInsert(r)
          PROVE  /\ req[r].pc = "insert" /\ req'[r].pc # "insert"
                 /\ admins' = admins
      BY <1>1, <3>2 DEF UploadInsert, Stop, Idle, EmojiInv, TypeOK
    <3>3. ASSUME NEW r \in Requests, NEW works \in BOOLEAN,
                 DeletePurge(r, works)
          PROVE  /\ req[r].pc = "purge" /\ req'[r].pc # "purge"
                 /\ admins' = admins
      <4>1. /\ req[r].pc = "purge" /\ admins' = admins
            /\ req' = [req EXCEPT ![r] = [req[r] EXCEPT !.pc = "unlist"]]
        BY <3>3 DEF DeletePurge
      <4>2. req[r] \in [pc : Begun, user : Users, name : Names,
                        key : Keys \cup {None}, wasAdmin : BOOLEAN]
        BY <1>1, <4>1 DEF EmojiInv, TypeOK, Request, Idle, Begun
      <4> QED
        BY <1>1, <4>1, <4>2 DEF EmojiInv, TypeOK
    <3>4. ASSUME NEW r \in Requests, DeleteUnlist(r)
          PROVE  /\ req[r].pc = "unlist" /\ req'[r].pc # "unlist"
                 /\ admins' = admins
      BY <1>1, <3>4 DEF DeleteUnlist, Stop, Idle, EmojiInv, TypeOK
    <3>5. \/ \E r \in Requests, x \in Exts, i \in Images :
               UploadPut(r, x, i) \/ UploadPutFails(r, x, i)
          \/ \E r \in Requests : UploadInsert(r) \/ DeleteUnlist(r)
          \/ \E r \in Requests, works \in BOOLEAN : DeletePurge(r, works)
      BY <1>1 DEF Next, Ask, Admit, DeleteRead, CutShort, ChangeRole, Restart
    <3> QED
      BY <3>1, <3>2, <3>3, <3>4, <3>5
  <2> QED
    BY <1>1, <2>1 DEF EmojiInv, Entitled, Works, Begun, Idle
<1>2. EmojiInv /\ [Next]_vars =>
        [listed' # listed \/ bucket' # bucket =>
            \E r \in Requests : Works(r) /\ req[r].wasAdmin]_vars
  BY <1>1 DEF vars
<1> QED
  BY <1>2, AlwaysEmoji, PTL DEF Spec, ChangesByAdmins
=============================================================================

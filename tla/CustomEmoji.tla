---------------------------- MODULE CustomEmoji ----------------------------
(***************************************************************************)
(* Custom emoji live in two places: a row of custom_emojis names the image *)
(* and R2 stores it.  No transaction spans the two, so upload_emoji and    *)
(* delete_emoji (routes/custom_emoji.rs) write one and then the other, and *)
(* other admins' requests, failures and crashes fall in between.           *)
(*                                                                         *)
(* Requests of users whose token does not even claim to be an admin's, and *)
(* uploads with a bad name or file, are refused before they write anything *)
(* and are left out.  Names are as the code stores them: trimmed, lower    *)
(* case.                                                                   *)
(***************************************************************************)
EXTENDS Naturals, RoleCheck

CONSTANTS
    Names,         \* valid emoji names
    Exts,          \* file extensions: png, gif, webp, jpg
    Images,        \* what the uploaded files contain
    Bases,         \* values of r2.public_url used by the deployments
    Users,         \* users with a token that claims the role "admin"
    Requests,      \* slots for concurrent requests
    None           \* no object, or no [r2] in the configuration

ASSUME EmojiAssumption == /\ None \notin Images /\ None \notin Bases
                          /\ None \notin Names \X Exts

VARIABLES
    base,          \* r2.public_url of the running server
    listed,        \* the custom_emojis table: name -> image_url
    bucket,        \* R2: key -> stored image, or None
    req,           \* request slot -> the request it is serving
    admins,        \* users whose role at riley-auth is "admin" now
    risky          \* history: names that met one of the hazards below

vars == <<base, listed, bucket, req, admins, risky>>

Keys == Names \X Exts

\* image_url: the key below the public_url of the time.
Url == [base : Bases, key : Keys]

Idle == [pc |-> "idle"]

Settings == Bases \cup {None}

Init == /\ base \in Settings
        /\ listed = [n \in {} |-> None]
        /\ bucket = [k \in Keys |-> None]
        /\ req = [r \in Requests |-> Idle]
        /\ admins \in SUBSET Users
        /\ risky = {}

-----------------------------------------------------------------------------
(***************************************************************************)
(* Two things can part a row from its image: an upload between its two     *)
(* writes at the same time as a delete of that name between its reading    *)
(* the row and deleting it, and a delete that stops after the first of its *)
(* two writes.                                                             *)
(***************************************************************************)
Uploading(n) == \E r \in Requests : req[r].pc = "insert" /\ req[r].name = n
Deleting(n) ==
    \E r \in Requests : req[r].pc \in {"purge", "unlist"} /\ req[r].name = n
Overlapping == {n \in Names : Uploading(n) /\ Deleting(n)}

HalfDeleted(S) == {req[r].name : r \in {s \in S : req[s].pc = "unlist"}}

Stop(r) == req' = [req EXCEPT ![r] = Idle]

Watch == risky' = risky \cup Overlapping'

\* Mutant: the row is written although the image was not stored.
PutIgnoringErrors(key, image) == bucket' \in {bucket,
                                              [bucket EXCEPT ![key] = image]}

PutObject(key, image) == bucket' = [bucket EXCEPT ![key] = image]

\* A request for name n, from user u, begins with the role check; `then` is
\* what it does next.  wasAdmin: history, u was an admin at some time since.
Ask(r, then, u, n) ==
    /\ req[r].pc = "idle"
    /\ req' = [req EXCEPT ![r] = [pc |-> "role", then |-> then, user |-> u,
                                  name |-> n, wasAdmin |-> u \in admins]]
    /\ UNCHANGED <<base, listed, bucket, admins>> /\ Watch

\* Request r goes on to step pc, with the object it is about.
Goto(r, pc, key) ==
    req' = [req EXCEPT ![r] = [pc |-> pc, name |-> req[r].name, key |-> key,
                               user |-> req[r].user,
                               wasAdmin |-> req[r].wasAdmin]]

\* require_admin, and R2 has to be configured: else 403, 503 or 500.
Admit(r) ==
    /\ req[r].pc = "role"
    /\ \E reply \in MeReplies(Users, admins) :
          IF Confirms(req[r].user, reply) /\ base # None
          THEN Goto(r, req[r].then, None) ELSE Stop(r)
    /\ UNCHANGED <<base, listed, bucket, admins>> /\ Watch

\* upload_emoji puts the image under emoji/{name}.{ext} before it knows
\* whether the name is free.
UploadPut(r, x, image) ==
    /\ req[r].pc = "put"
    /\ PutObject(<<req[r].name, x>>, image)
    /\ Goto(r, "insert", <<req[r].name, x>>)
    /\ UNCHANGED <<base, listed, admins>> /\ Watch

\* put_object reports an error; R2 may have stored the image nevertheless.
UploadPutFails(r, x, image) ==
    /\ req[r].pc = "put"
    /\ PutObject(<<req[r].name, x>>, image)
    /\ Stop(r)
    /\ UNCHANGED <<base, listed, admins>> /\ Watch

\* db::custom_emoji::create: custom_emojis_name_key refuses a second row.
UploadInsert(r) ==
    LET q == req[r] IN
    /\ q.pc = "insert"
    /\ listed' = IF q.name \in DOMAIN listed THEN listed
                 ELSE [n \in DOMAIN listed \cup {q.name} |->
                         IF n = q.name THEN [base |-> base, key |-> q.key]
                         ELSE listed[n]]
    /\ Stop(r)
    /\ UNCHANGED <<base, bucket, admins>> /\ Watch

-----------------------------------------------------------------------------
\* Mutant: the wrong half of the URL is taken for the key.
WrongHalf(url) == url.base

\* The key of an image: its URL without public_url.  If public_url has
\* changed meanwhile, the URL itself is taken, which names no object.
KeyOf(url) == IF url.base = base THEN url.key ELSE None

\* delete_emoji looks the row up to find the key; else 404.
DeleteRead(r) ==
    /\ req[r].pc = "read"
    /\ IF req[r].name \in DOMAIN listed
       THEN Goto(r, "purge", KeyOf(listed[req[r].name])) ELSE Stop(r)
    /\ UNCHANGED <<base, listed, bucket, admins>> /\ Watch

\* delete_object is best effort: the handler goes on when it fails.
DeletePurge(r, works) ==
    /\ req[r].pc = "purge"
    /\ bucket' = IF works /\ req[r].key # None
                 THEN [bucket EXCEPT ![req[r].key] = None] ELSE bucket
    /\ req' = [req EXCEPT ![r].pc = "unlist"]
    /\ UNCHANGED <<base, listed, admins>> /\ Watch

\* db::custom_emoji::delete_by_name
DeleteUnlist(r) ==
    /\ req[r].pc = "unlist"
    /\ listed' = [n \in DOMAIN listed \ {req[r].name} |-> listed[n]]
    /\ Stop(r)
    /\ UNCHANGED <<base, bucket, admins>> /\ Watch

\* A statement fails, or the client disconnects and the handler is dropped.
CutShort(r) ==
    /\ req[r].pc # "idle"
    /\ Stop(r)
    /\ UNCHANGED <<base, listed, bucket, admins>>
    /\ risky' = risky \cup HalfDeleted({r})

\* The server stops and starts again, perhaps with another [r2].
Restart(b) ==
    /\ base' = b
    /\ req' = [r \in Requests |-> Idle]
    /\ UNCHANGED <<listed, bucket, admins>>
    /\ risky' = risky \cup HalfDeleted(Requests)

\* riley-auth promotes or demotes a user.
ChangeRole(u) ==
    /\ admins' = IF u \in admins THEN admins \ {u} ELSE admins \cup {u}
    /\ req' = [r \in Requests |->
                 IF req[r] # Idle /\ req[r].user = u
                 THEN [req[r] EXCEPT !.wasAdmin = TRUE] ELSE req[r]]
    /\ UNCHANGED <<base, listed, bucket, risky>>

Next ==
    \/ \E r \in Requests :
          \/ \E then \in {"put", "read"}, u \in Users, n \in Names :
                Ask(r, then, u, n)
          \/ Admit(r)
          \/ \E x \in Exts, i \in Images :
                UploadPut(r, x, i) \/ UploadPutFails(r, x, i)
          \/ UploadInsert(r)
          \/ DeleteRead(r)
          \/ \E works \in BOOLEAN : DeletePurge(r, works)
          \/ DeleteUnlist(r)
          \/ CutShort(r)
    \/ \E u \in Users : ChangeRole(u)
    \/ \E b \in Settings : Restart(b)

Spec == Init /\ [][Next]_vars

-----------------------------------------------------------------------------
Request == {Idle}
    \cup [pc : {"role"}, then : {"put", "read"}, user : Users, name : Names,
          wasAdmin : BOOLEAN]
    \cup [pc : {"put", "insert", "read", "purge", "unlist"}, user : Users,
          name : Names, key : Keys \cup {None}, wasAdmin : BOOLEAN]

TypeOK ==
    /\ base \in Settings
    /\ DOMAIN listed \subseteq Names
    /\ listed \in [DOMAIN listed -> Url]
    /\ bucket \in [Keys -> Images \cup {None}]
    /\ req \in [Requests -> Request]
    /\ admins \subseteq Users
    /\ risky \subseteq Names

(***************************************************************************)
(* A listed emoji whose image is gone is about to be unlisted, unless one  *)
(* of the two hazards met its name.  In particular uploads that fail or    *)
(* crash half way, failures of R2, and any number of uploads racing for a  *)
(* name or deletes of it never leave a broken emoji by themselves.         *)
(***************************************************************************)
Broken(n) == n \in DOMAIN listed /\ bucket[listed[n].key] = None

OnlyHazardsBreak ==
    \A n \in Names \ risky : Broken(n) => Deleting(n)

(***************************************************************************)
(* Emoji change only at the hands of admins: whatever is stored, replaced  *)
(* or removed, in the table or in R2, is the work of a request whose user  *)
(* was an admin at riley-auth at some time during the request - however    *)
(* old the token, whatever riley-auth answers, and however roles change    *)
(* while a file is being uploaded.                                         *)
(***************************************************************************)
Works(r) == req'[r] # req[r] /\ req[r] # Idle /\ admins' = admins

ChangesByAdmins ==
    [][listed' # listed \/ bucket' # bucket =>
          \E r \in Requests : Works(r) /\ req[r].wasAdmin]_vars

(***************************************************************************)
(* "public, max-age=31536000, immutable" (routes/custom_emoji.rs:138): the *)
(* image behind the URL of a listed emoji never turns into another.        *)
(* Refuted: uploading an image for a name that is taken replaces the image *)
(* first and only then finds that the name is taken.                       *)
(***************************************************************************)
ImagesImmutable ==
    [][\A n \in DOMAIN listed :
          bucket[listed[n].key] # None =>
             bucket'[listed[n].key] \in {bucket[listed[n].key], None}]_vars
=============================================================================

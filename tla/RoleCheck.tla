----------------------------- MODULE RoleCheck -----------------------------
(***************************************************************************)
(* RoleChecker::require_admin (auth.rs): a token that claims the role      *)
(* "admin" may be weeks old, so the server asks riley-auth's GET /auth/me  *)
(* what the user's role is now.  Anything but a clear yes is a no.         *)
(*                                                                         *)
(* The module has no state; the handlers of CommentThreads and CustomEmoji *)
(* use it at the step in which the response comes back.                    *)
(***************************************************************************)

(***************************************************************************)
(* What the call can come back with: a role read at this moment, of the    *)
(* token's user or - from a proxy, a cache or a wrong URL - of another; or *)
(* a response that is none (unreachable, or 5 s are over), refuses the     *)
(* token, asks to slow down, fails, redirects, or can not be parsed.       *)
(***************************************************************************)
MeReplies(users, admins) ==
    {[status |-> "2xx", id |-> v, role |-> IF v \in admins THEN "admin"
                                           ELSE "user"] : v \in users}
    \cup [status : {"none", "4xx", "429", "other", "garbled"}]

\* Mutant: the role is believed without a look at whose it is.
ConfirmsAnyId(sub, reply) == reply.status = "2xx" /\ reply.role = "admin"

\* Ok(()).  All else is refused: 403 if riley-auth rejects the token or
\* answers for another user or role, 503 if it gives no usable answer.
Confirms(sub, reply) ==
    /\ reply.status = "2xx"
    /\ reply.id = sub
    /\ reply.role = "admin"
=============================================================================

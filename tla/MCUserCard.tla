----------------------------- MODULE MCUserCard -----------------------------
(* UserCard, with the writers of Reactions, on a small instance. *)
EXTENDS UserCard, TLC

CONSTANTS u1, u2, e1, b1, thumb, r1, r2

MCUsers == {u1, u2}
MCEntities == {e1}
MCBodies == {b1}
MCEmojis == {thumb}
MCRequests == {r1, r2}

Symmetry == Permutations(MCUsers) \cup Permutations(Requests)
=============================================================================

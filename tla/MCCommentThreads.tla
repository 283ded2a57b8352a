-------------------------- MODULE MCCommentThreads --------------------------
(* CommentThreads on small instances. *)
EXTENDS CommentThreads, TLC

CONSTANTS u1, u2, e1, e2, b1, b2, r1, r2

TwoUsers == {u1, u2}
Mod == {u2}
Nobody == {}
OneEntity == {e1}
TwoEntities == {e1, e2}
OneBody == {b1}
TwoBodies == {b1, b2}
OneRequest == {r1}
TwoRequests == {r1, r2}

Zero == {0}
One == {1}
OneTwo == {1, 2}
Depths == {0, 1}

Symmetry == Permutations(TwoUsers) \cup Permutations(TwoEntities)
              \cup Permutations(TwoBodies) \cup Permutations(TwoRequests)

SymmetryB == Permutations(TwoBodies) \cup Permutations(TwoRequests)
=============================================================================

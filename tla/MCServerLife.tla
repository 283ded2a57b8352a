---------------------------- MODULE MCServerLife ----------------------------
(* ServerLife on the small instances of MCCommentThreads. *)
EXTENDS MCCommentThreads, ServerLife
=============================================================================

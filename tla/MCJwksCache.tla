---------------------------- MODULE MCJwksCache ----------------------------
(* JwksCache on a small instance. *)
EXTENDS JwksCache

CONSTANTS k1, k2, enc

MCSigning == {k1, k2}
MCOther == {enc}
NoOther == {}
=============================================================================

--------------------------- MODULE MCCustomEmoji ---------------------------
(* CustomEmoji on a small instance: one name that everybody wants. *)
EXTENDS CustomEmoji, TLC

CONSTANTS party, png, gif, i1, i2, r1, r2, r3, url1, url2, ann, bob

MCNames == {party}
MCExts == {png, gif}
MCImages == {i1, i2}
OneImage == {i1}
MCBases == {url1, url2}
MCUsers == {ann, bob}
MCRequests == {r1, r2, r3}

Symmetry == Permutations(MCExts) \cup Permutations(MCImages)
              \cup Permutations(MCRequests) \cup Permutations(MCBases)
              \cup Permutations(MCUsers)
=============================================================================

--------------------------- MODULE MCDocumentEdits ---------------------------
(* Three requests of any kind for a page of two words, and two restarts. *)
EXTENDS DocumentEdits

CONSTANTS r1, r2, r3, w1, w2

ThreeRequests == {r1, r2, r3}
TwoWords == {w1, w2}
Alike == Permutations(ThreeRequests) \cup Permutations(TwoWords)
=============================================================================

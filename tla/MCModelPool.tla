----------------------------- MODULE MCModelPool -----------------------------
(* Small instances of ModelPool: two small models fit together, the large one
   only alone, and the huge one not at all. *)
EXTENDS ModelPool, TLC

CONSTANTS r1, r2, r3, small1, small2, large, huge

TwoReq == {r1, r2}
ThreeReq == {r1, r2, r3}
MCLoader == {small1, small2, large, huge}
MCVram == [l \in MCLoader |-> CASE l = huge -> 5 [] l = large -> 4 [] OTHER -> 2]
TwoLoader == {small1, large}
TwoVram == [l \in TwoLoader |-> MCVram[l]]
Symmetry == Permutations(ThreeReq) \cup Permutations({small1, small2})
=============================================================================

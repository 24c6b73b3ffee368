---------------------------- MODULE MCTranslateJob ----------------------------
(* Small instances of TranslateJob: agents that may fail any unit. *)
EXTENDS TranslateJob, TLC

CONSTANTS u1, u2, u3, w1, w2, w3

TwoUnits == {u1, u2}
ThreeUnits == {u1, u2, u3}
TwoWorkers == {w1, w2}
ThreeWorkers == {w1, w2, w3}
AnyReply == [w \in TwoWorkers |-> Reply]
AnyReplyOfThree == [w \in ThreeWorkers |-> Reply]
Symmetry == Permutations(ThreeUnits) \cup Permutations(ThreeWorkers)
=============================================================================

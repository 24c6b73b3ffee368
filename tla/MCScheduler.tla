----------------------------- MODULE MCScheduler -----------------------------
\* Model values for Scheduler: one blocking identity more than slots, so that
\* blocking newcomers can keep overtaking a structural waiter, and two bulk ones,
\* which could fill both slots.
EXTENDS Scheduler, TLC

CONSTANTS block1, block2, block3, struct1, bulk1, bulk2

MCClass(r) ==
  CASE r \in {block1, block2, block3} -> BLOCKING
    [] r = struct1                    -> STRUCTURAL
    [] OTHER                          -> BULK

MCReq == {block1, block2, block3, struct1, bulk1, bulk2}
MCClassOf == [r \in MCReq |-> MCClass(r)]
=============================================================================

----------------------------- MODULE MCInferGate -----------------------------
(* Small instances of InferGate. *)
EXTENDS InferGate

CONSTANTS block1, bulk1, bulk2, bulk3

MCReq == {block1, bulk1, bulk2, bulk3}
MCClassOf == [r \in MCReq |-> IF r = block1 THEN BLOCKING ELSE BULK]
=============================================================================

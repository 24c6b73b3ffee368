--------------------------- MODULE AnalyzerContract ---------------------------
(***************************************************************************)
(* What a pipeline promises of its analyzers (RFC 0005): one after the     *)
(* other, each a transaction. Either the whole of its change, as its       *)
(* manifest declares it, becomes visible together with its marks, or it is *)
(* on the list of failures and nothing has changed. A permission violation *)
(* ends the execution; nothing is promised of the document it leaves.      *)
(***************************************************************************)
EXTENDS KrmTree

VARIABLES tree, rg, kg, step, failures,
          state   \* idle, executing, done, aborted

vars == <<tree, rg, kg, step, failures, state>>

Turn == state = "executing" /\ step <= Len(Analyzers)

Start ==
  /\ state # "executing" /\ state' = "executing"
  /\ step' = 1 /\ failures' = {} /\ rg' = <<>> /\ kg' = {}
  /\ UNCHANGED tree

\* The graphs only grow, and only for one who may: steps at the end, in its name.
GraphsGrow(name) ==
  /\ IsPrefix(rg, rg')
  /\ rg' # rg => "RG_MUTATE_EDGES" \in Permits[name]
  /\ \A i \in DOMAIN rg' \ DOMAIN rg : rg'[i].by = name
  /\ kg \subseteq kg'
  /\ kg' # kg => "KG_MUTATE_EDGES" \in Permits[name]

\* Every block names the analyzer, and none that nobody named before.
Credited(name) ==
  \A b \in DOMAIN tree' :
    /\ "READ" \in Permits[name] => name \in tree'[b].applied
    /\ tree'[b].applied \subseteq {name} \cup Named(tree)

Commit ==
  /\ Turn
  /\ Declared(tree, tree', Permits[Analyzers[step]])
  /\ Credited(Analyzers[step])
  /\ GraphsGrow(Analyzers[step])
  /\ step' = step + 1
  /\ UNCHANGED <<failures, state>>

Fail ==
  /\ Turn
  /\ failures' = failures \cup {Analyzers[step]}
  /\ step' = step + 1
  /\ UNCHANGED <<tree, rg, kg, state>>

Abort ==
  /\ Turn /\ state' = "aborted"
  /\ UNCHANGED <<step, failures>>

End ==
  /\ state = "executing" /\ step > Len(Analyzers) /\ state' = "done"
  /\ UNCHANGED <<tree, rg, kg, step, failures>>

Next == Start \/ Commit \/ Fail \/ Abort \/ End

Init == state = "idle"

Spec == Init /\ [][Next]_vars
=============================================================================

------------------------------- MODULE Pipeline -------------------------------
(***************************************************************************)
(* PipelineRunner.execute (analyzers/pipeline.py): analyzers run one after *)
(* the other over one document tree and two graphs. Before each, document  *)
(* and graphs are copied; an exception puts the copies back and the next   *)
(* analyzer runs; a permission the proxies or the comparison afterwards    *)
(* miss ends the execution with the document as it is.                     *)
(*                                                                         *)
(* What an analyzer does between is its own business: any change of blocks *)
(* (they are reached through their parents, past the proxy of the document *)
(* root) and any call of a graph proxy. Only ReadingOrderAnalyzer is       *)
(* spelled out. A block is reduced to its class, its tombstone and its     *)
(* marks; the log lines of the final validation are left out.              *)
(***************************************************************************)
EXTENDS KrmTree

CONSTANTS Original,    \* blocks the adapter may give
          MaxOps,      \* bound: changes of one analyzer in one run
          MaxRuns      \* bound: executions over the document

ASSUME PipelineAssumption ==
  /\ Original \subseteq Block
  /\ {MaxOps, MaxRuns} \subseteq Nat

VARIABLES tree,      \* the blocks of the document, by id
          rg,        \* steps of the Reading Graph
          kg,        \* blocks with a semantic edge in the Knowledge Graph
          step,      \* index of the analyzer whose turn it is
          phase,     \* idle, between, running, done, aborted
          before,    \* doc_snap, rg_snap, kg_snap of the running analyzer
          failures,  \* analyzers rolled back by this execution
          ops, runs

vars == <<tree, rg, kg, step, phase, before, failures, ops, runs>>

NoSnapshot == [tree |-> <<>>, rg |-> <<>>, kg |-> {}]

Init ==
  /\ tree \in UNION {[B -> {Fresh(ty) : ty \in Type}] : B \in SUBSET Original}
  /\ rg = <<>> /\ kg = {}
  /\ before = NoSnapshot
  /\ step = 1 /\ phase = "idle" /\ failures = {} /\ ops = 0 /\ runs = 0

Current == Analyzers[step]

May(permission) == permission \in Permits[Current]

-----------------------------------------------------------------------------
(* The runner *)

\* execute() over the document with new graphs: an import, or the graph
\* endpoint that rebuilds what a restart lost over the analyzed document.
Execute ==
  /\ phase \in {"idle", "done", "aborted"}
  /\ runs < MaxRuns /\ runs' = runs + 1
  /\ rg' = <<>> /\ kg' = {}
  /\ step' = 1 /\ failures' = {} /\ phase' = "between"
  /\ UNCHANGED <<tree, before, ops>>

Begin ==
  /\ phase = "between" /\ step <= Len(Analyzers)
  /\ before' = [tree |-> tree, rg |-> rg, kg |-> kg]
  /\ phase' = "running"
  /\ UNCHANGED <<tree, rg, kg, step, failures, ops, runs>>

Finish ==
  /\ phase = "between" /\ step > Len(Analyzers)
  /\ phase' = "done"
  /\ UNCHANGED <<tree, rg, kg, step, before, failures, ops, runs>>

\* run() returned and the comparison found nothing undeclared.
Succeeds ==
  /\ phase = "running"
  /\ Current = ReadingOrder => ops = Len(FlowSteps(tree))
  /\ Declared(before.tree, tree, Permits[Current])
  /\ tree' = Marked(tree, Current)
  /\ step' = step + 1 /\ phase' = "between" /\ before' = NoSnapshot
  /\ ops' = 0
  /\ UNCHANGED <<rg, kg, failures, runs>>

\* Fault: forgets the graphs.
RestoredTree == tree' = before.tree /\ UNCHANGED <<rg, kg>>

\* _restore_state of the document and both graphs.
Restored == tree' = before.tree /\ rg' = before.rg /\ kg' = before.kg

\* run() raised, or add_step did.
RollsBack ==
  /\ failures' = failures \cup {Current}
  /\ Restored
  /\ step' = step + 1 /\ phase' = "between" /\ before' = NoSnapshot
  /\ ops' = 0
  /\ UNCHANGED runs

Fails ==
  /\ phase = "running" /\ Current # ReadingOrder
  /\ RollsBack

Aborted ==
  /\ phase' = "aborted" /\ before' = NoSnapshot /\ ops' = 0
  /\ UNCHANGED <<tree, rg, kg, step, failures, runs>>

\* SecurityViolationError of the comparison is raised again, without rollback,
Refused ==
  /\ phase = "running"
  /\ ~Declared(before.tree, tree, Permits[Current])
  /\ Aborted

\* and so is that of a proxy.
Denied ==
  /\ phase = "running" /\ Current # ReadingOrder
  /\ ~(Proxied \subseteq Permits[Current])
  /\ Aborted

-----------------------------------------------------------------------------
(* The analyzers *)

Working ==
  /\ phase = "running" /\ Current # ReadingOrder
  /\ ops < MaxOps /\ ops' = ops + 1
  /\ UNCHANGED <<step, phase, before, failures, runs>>

\* Blocks are reached through the document root, whose proxy asks for READ;
\* they are then changed directly, past any other permission.
Reaching == Working /\ May("READ") /\ UNCHANGED <<rg, kg>>

AddBlock(b, n) ==
  /\ Reaching /\ b \notin DOMAIN tree
  /\ tree' = [x \in DOMAIN tree \cup {b} |-> IF x = b THEN n ELSE tree[x]]

Insert(b, ty) == AddBlock(b, Fresh(ty))

Split(b, of) == of \in DOMAIN tree /\ AddBlock(b, Piece(tree[of]))

Delete(b) ==
  /\ Reaching /\ b \in DOMAIN tree
  /\ tree' = Restrict(tree, DOMAIN tree \ {b})

\* A new block under the old id, with the marks of the old or without.
Transform(b, ty) ==
  /\ Reaching /\ b \in DOMAIN tree /\ tree[b].type # ty
  /\ \E n \in {[tree[b] EXCEPT !.type = ty], Fresh(ty)} :
       tree' = [tree EXCEPT ![b] = n]

SetTombstone(b) ==
  /\ Reaching /\ b \in DOMAIN tree
  /\ tree' = [tree EXCEPT ![b].tomb = ~@]

\* GuardedReadingGraph.add_step; one that closes a cycle raises (Fails). The name
\* on the step is the caller's argument, and every analyzer passes its own.
AddStep(e) ==
  /\ Working /\ May("RG_MUTATE_EDGES")
  /\ e.by = Current /\ Accepts(rg, e)
  /\ rg' = Append(rg, e)
  /\ UNCHANGED <<tree, kg>>

\* GuardedKnowledgeGraph.add_edge, idempotent (add_entity is its like).
AddEdge(b) ==
  /\ Working /\ May("KG_MUTATE_EDGES")
  /\ kg' = kg \cup {b}
  /\ UNCHANGED <<tree, rg>>

\* ReadingOrderAnalyzer adds the next step of its loops; a cycle raises.
OrdersReading ==
  /\ phase = "running" /\ Current = ReadingOrder
  /\ ops < Len(FlowSteps(tree))
  /\ \E e \in Step :
       /\ e = FlowSteps(tree)[ops + 1] /\ e.by = Current
       /\ IF Accepts(rg, e)
          THEN /\ rg' = Append(rg, e) /\ ops' = ops + 1
               /\ UNCHANGED <<tree, kg, step, phase, before, failures, runs>>
          ELSE RollsBack

-----------------------------------------------------------------------------
Change ==
  \/ \E b \in Block, ty \in Type : Insert(b, ty) \/ Transform(b, ty)
  \/ \E b, of \in Block : Split(b, of)
  \/ \E b \in Block : Delete(b) \/ SetTombstone(b) \/ AddEdge(b)
  \/ \E s, t \in Block, track \in Track :
       AddStep([source |-> s, target |-> t, track |-> track, by |-> Current])

Next ==
  \/ Execute \/ Begin \/ Finish
  \/ Succeeds \/ Fails \/ Refused \/ Denied
  \/ Change \/ OrdersReading

Spec == Init /\ [][Next]_vars

-----------------------------------------------------------------------------
(* Properties *)

\* Types of the tree, the graphs and the control state of an execution.
TypeOK ==
  /\ IsTree(tree) /\ rg \in Seq(Step) /\ kg \in SUBSET Block
  /\ step \in 1..(Len(Analyzers) + 1)
  /\ phase \in {"idle", "between", "running", "done", "aborted"}
  /\ phase = "running" => step <= Len(Analyzers)
  /\ before = [tree |-> before.tree, rg |-> before.rg, kg |-> before.kg]
  /\ IsTree(before.tree) /\ before.rg \in Seq(Step) /\ before.kg \in SUBSET Block
  /\ failures \in SUBSET Name /\ ops \in Nat /\ runs \in Nat

\* No track of the Reading Graph ever holds a cycle, through additions by
\* several analyzers, refusals and rollbacks (RFC 0004 5.1): validate_invariants
\* does not look for one, because add_step is to prevent it.
TracksAcyclic == \A track \in Track : Acyclic(Edges(rg, track))

\* A block is calibrated at most once, whatever analyzers calibrate and however
\* often the pipeline runs over the document (_calibrate_confidences). What a
\* piece of a split block brings along is not counted.
CalibratedOnce == \A b \in DOMAIN tree : tree[b].rescaled <= 1

\* Between Begin and its outcome an analyzer has done nothing yet: the contract
\* sees the state from before it.
Contract ==
  INSTANCE AnalyzerContract WITH
    tree <- IF phase = "running" THEN before.tree ELSE tree,
    rg <- IF phase = "running" THEN before.rg ELSE rg,
    kg <- IF phase = "running" THEN before.kg ELSE kg,
    state <- IF phase \in {"between", "running"} THEN "executing" ELSE phase

\* The pipeline keeps the contract of RFC 0005: a failure is invisible, a
\* success declared, credited and in the analyzer's turn.
ImplementsContract == Contract!Spec
=============================================================================

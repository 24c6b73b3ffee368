------------------------------- MODULE KrmTree -------------------------------
(***************************************************************************)
(* The document as the pipeline sees it (krm/models.py, analyzers/base.py, *)
(* analyzers/pipeline.py): blocks by id, each with its class, tombstone    *)
(* and the marks of the pipeline; what a manifest permits; the marks of a  *)
(* successful analyzer; and the steps ReadingOrderAnalyzer derives.        *)
(* Every confidence is taken to be one that rescaling changes.             *)
(***************************************************************************)
EXTENDS ReadingGraph

CONSTANTS Type,        \* classes of blocks
          LeafTypes,   \* those ReadingOrderAnalyzer sequences (_LEAF_TYPES)
          Order,       \* every block, in document order
          Ref,         \* captions and footnotes: [source, type, target, track]
          Main,        \* ReadingTrack.MAIN_FLOW
          SideTracks,  \* CAPTION_FLOW, FOOTNOTE_FLOW: the order of their loops
          Analyzers,   \* the pipeline
          ReadingOrder,\* ReadingOrderAnalyzer
          Permits,     \* permissions of each manifest
          Calibrating  \* analyzers whose manifest has a calibration_category

\* The permissions the Guarded* proxies ask for.
Proxied == {"READ", "MUTATE_ATTRIBUTES", "TOMBSTONE", "RG_READ", "RG_MUTATE_EDGES",
            "KG_READ", "KG_MUTATE_ENTITIES", "KG_MUTATE_EDGES"}

Permission == Proxied \cup {"TRANSFORM_NODE", "INSERT"}

\* `rescaled` counts the calibrations of this block's confidence since it was
\* built, `score` tells whether metadata["calibration"] marks it.
Node == [type : Type, tomb : BOOLEAN, applied : SUBSET Name, rescaled : Nat,
         score : {"raw", "calibrated"}]

IsTree(t) == DOMAIN t \subseteq Block /\ t \in [DOMAIN t -> Node]

ASSUME ManifestAssumption ==
  /\ Analyzers \in Seq(Name)
  /\ Permits \in [Name -> SUBSET Permission]
  /\ ReadingOrder \in Name
  /\ {"READ", "RG_MUTATE_EDGES"} \subseteq Permits[ReadingOrder]
  /\ Main \in Track
  /\ SideTracks \in Seq(Track)
  /\ Order \in Seq(Block)
  /\ Ref \subseteq [source : Block, type : Type, target : Block, track : Track]

Fresh(ty) ==
  [type |-> ty, tomb |-> FALSE, applied |-> {}, rescaled |-> 0, score |-> "raw"]

\* A part of a split block: shares its provenance, has no marker of its own.
Piece(n) == [Fresh(n.type) EXCEPT !.applied = n.applied]

\* The analyzers the blocks of a tree name.
Named(t) == UNION {t[b].applied : b \in DOMAIN t}

-----------------------------------------------------------------------------
(* Permissions and marks *)

\* _verify_krm_permissions: what the manifest declares covers the difference.
Declared(was, is, permissions) ==
  LET stayed == DOMAIN was \cap DOMAIN is
  IN  /\ DOMAIN was \subseteq DOMAIN is \/ "TRANSFORM_NODE" \in permissions
      /\ DOMAIN is \subseteq DOMAIN was \/ "INSERT" \in permissions
      /\ \A b \in stayed :
           /\ is[b].type = was[b].type \/ "TRANSFORM_NODE" \in permissions
           /\ is[b].tomb => was[b].tomb \/ "TOMBSTONE" \in permissions
           /\ was[b].tomb => is[b].tomb

\* Fault: does not look for the marker.
CalibratedAgain(t) ==
  [b \in DOMAIN t |-> [t[b] EXCEPT !.rescaled = @ + 1, !.score = "calibrated"]]

\* _calibrate_confidences: every block of the document that has no marker.
Calibrated(t) ==
  [b \in DOMAIN t |->
     IF t[b].score = "calibrated" THEN t[b]
     ELSE [t[b] EXCEPT !.rescaled = @ + 1, !.score = "calibrated"]]

\* _record_provenance.
Recorded(t, name) == [b \in DOMAIN t |-> [t[b] EXCEPT !.applied = @ \cup {name}]]

Marked(t, name) ==
  LET scored == IF name \in Calibrating THEN Calibrated(t) ELSE t
  IN  IF "READ" \in Permits[name] THEN Recorded(scored, name) ELSE scored

-----------------------------------------------------------------------------
(* Reading order *)

Leaves(t) ==
  Kept(Order, {b \in DOMAIN t : ~t[b].tomb /\ t[b].type \in LeafTypes})

NewStep(source, target, track) ==
  [source |-> source, target |-> target, track |-> track, by |-> ReadingOrder]

\* The captions or footnotes of the leaves, in their order: of a block that refers
\* to several footnotes, one.
SideSteps(t, track) ==
  LET ref(b) == {r \in Ref : r.source = b /\ r.type = t[b].type /\ r.track = track}
      from == Kept(Leaves(t), {b \in DOMAIN t : ref(b) # {}})
  IN  [i \in DOMAIN from |->
         NewStep(from[i], (CHOOSE r \in ref(from[i]) : TRUE).target, track)]

\* The steps ReadingOrderAnalyzer adds: consecutive leaves, then the rest.
FlowSteps(t) ==
  LET leaves == Leaves(t)
      chain == [i \in 1..(Len(leaves) - 1) |-> NewStep(leaves[i], leaves[i + 1], Main)]
  IN  chain \o FlattenSeq([i \in DOMAIN SideTracks |-> SideSteps(t, SideTracks[i])])
=============================================================================

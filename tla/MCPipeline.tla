------------------------------ MODULE MCPipeline ------------------------------
(***************************************************************************)
(* Model values for the pipeline and the chunker: three blocks of three    *)
(* classes, the third of which only an analyzer can insert, under a        *)
(* pipeline of one analyzer that may change everything, one that may only  *)
(* tombstone and ReadingOrderAnalyzer.                                     *)
(***************************************************************************)
EXTENDS Chunker

CONSTANTS b1, b2, b3, main, notes, free, meek, order

MCBlock == {b1, b2, b3}
MCType == {"paragraph", "caption", "footnote"}
MCOrder == <<b1, b2, b3>>
MCOriginal == {b1, b2}
MCTrack == {main, notes}
MCSide == <<notes>>
MCName == {free, meek, order}
MCAnalyzers == <<free, meek, order>>
MCPermits ==
  free :> Permission @@
  meek :> {"READ", "TOMBSTONE", "RG_MUTATE_EDGES"} @@
  order :> {"READ", "RG_MUTATE_EDGES"}
MCCalibrating == {free, meek}
MCRef == {[source |-> b1, type |-> "paragraph", target |-> b3, track |-> notes]}
LeafOf == {"paragraph", "caption"}
AtomicOf == {"footnote"}
MuteOf == {"caption"}
MCTitles == b1 :> <<"Part">> @@ b2 :> <<"Part", "">> @@ b3 :> <<"Part", "Notes">>
MCTokens == b1 :> 1 @@ b2 :> 2 @@ b3 :> 1
=============================================================================

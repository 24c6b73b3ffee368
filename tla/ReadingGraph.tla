----------------------------- MODULE ReadingGraph -----------------------------
(***************************************************************************)
(* The Reading Graph (graph/reading_graph.py): steps between blocks on     *)
(* parallel tracks, in the order in which they were added. add_step        *)
(* searches the track for a path back before it appends; heads and         *)
(* get_sequence read the graph off again for the chunker. The two          *)
(* adjacency maps of the code are indexes of the one list of edges.        *)
(* All steps have the same confidence, so the "best" branch is the first.  *)
(***************************************************************************)
EXTENDS Integers, Sequences, FiniteSets, SequencesExt, Functions

CONSTANTS Block,   \* ids of blocks
          Track,   \* reading tracks
          Name     \* names of analyzers

Step == [source : Block, target : Block, track : Track, by : Name]

\* The steps of one track as a relation.
Edges(graph, track) ==
  {<<e.source, e.target>> : e \in {s \in Range(graph) : s.track = track}}

Closed(C, E) == \A e \in E : e[1] \in C => e[2] \in C

\* What the breadth-first search of _has_path decides: `to` is in every set
\* that holds `from` and all successors of its members.
HasPath(E, from, to) ==
  \A C \in SUBSET Block : from \in C /\ Closed(C, E) => to \in C

\* Fault: searches from the source to the target, as in "already connected".
AcceptsForward(graph, e) == ~HasPath(Edges(graph, e.track), e.source, e.target)

\* add_step raises CyclicReadingPathError exactly when this is FALSE.
Accepts(graph, e) == ~HasPath(Edges(graph, e.track), e.target, e.source)

-----------------------------------------------------------------------------
(* Parts of a sequence, in its order *)

\* The elements at some of its indices.
At(s, I) ==
  LET kept[n \in 0..Len(s)] ==
        IF n = 0 THEN <<>>
        ELSE IF n \in I THEN Append(kept[n - 1], s[n]) ELSE kept[n - 1]
  IN  kept[Len(s)]

\* Those that are in a set.
Kept(s, S) == At(s, {i \in DOMAIN s : s[i] \in S})

-----------------------------------------------------------------------------
(* Reading the graph back *)

Incoming(graph, b, track) == {e \in Range(graph) : e.target = b /\ e.track = track}

\* Where chains start, in the order of insertion. A node may be the source of
\* several steps: only the first counts.
heads(graph, track) ==
  LET starts(i) ==
        /\ graph[i].track = track
        /\ Incoming(graph, graph[i].source, track) = {}
        /\ \A j \in 1..(i - 1) :
             graph[j].track = track => graph[j].source # graph[i].source
  IN  At([i \in DOMAIN graph |-> graph[i].source], {i \in DOMAIN graph : starts(i)})

\* Fault: follows the steps of every track.
get_sequence_AnyTrack(graph, root, track) ==
  LET hop[n \in 0..Cardinality(Block)] ==
        IF n = 0 THEN <<root>>
        ELSE LET seen == hop[n - 1]
                 out == {i \in DOMAIN graph :
                           graph[i].source = Last(seen) /\ graph[i].target \notin Range(seen)}
             IN  IF out = {} THEN seen ELSE Append(seen, graph[Min(out)].target)
  IN  hop[Cardinality(Block)]

\* The chain from `root`, after at most n hops to nodes not visited before.
get_sequence(graph, root, track) ==
  LET hop[n \in 0..Cardinality(Block)] ==
        IF n = 0 THEN <<root>>
        ELSE LET seen == hop[n - 1]
                 out == {i \in DOMAIN graph :
                           /\ graph[i].source = Last(seen)
                           /\ graph[i].track = track
                           /\ graph[i].target \notin Range(seen)}
             IN  IF out = {} THEN seen ELSE Append(seen, graph[Min(out)].target)
  IN  hop[Cardinality(Block)]

-----------------------------------------------------------------------------
(* Acyclic: every set of blocks has one without a successor in the set.    *)
(* For a finite graph this is the absence of cycles.                       *)

Acyclic(E) ==
  \A S \in (SUBSET Block) \ {{}} : \E b \in S : \A c \in S : <<b, c>> \notin E
=============================================================================

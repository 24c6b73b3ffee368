------------------------------- MODULE Chunker -------------------------------
(***************************************************************************)
(* SemanticChunker.build_chunks (ai_layer/chunker.py) over whatever tree   *)
(* and Reading Graph the pipeline left: the live blocks in the order of    *)
(* the main flow, then those the flow does not reach in document order;    *)
(* atomic blocks alone, the others gathered while they have one path of    *)
(* titles and a budget of tokens. A chunk is its sequence of blocks.       *)
(***************************************************************************)
EXTENDS Pipeline

CONSTANTS AtomicTypes,   \* _is_atomic_block
          MuteTypes,     \* classes _extract_text_from_node has no text for
          Titles,        \* titles of the containers around each block, outermost
                         \* first, "" for one that has none
          Tokens,        \* estimated tokens of each block's text, 0 for none
          MaxTokens      \* max_narrative_tokens

ASSUME ChunkerAssumption ==
  /\ AtomicTypes \cup MuteTypes \subseteq Type
  /\ Titles \in [Block -> Seq(STRING)]
  /\ Tokens \in [Block -> Nat]
  /\ MaxTokens \in Nat

\* A block stands in the document once, as ReadingOrderAnalyzer stands in a pipeline
\* (analyzers/__init__.py:119); captions and footnotes have tracks of their own.
ASSUME FlowAssumption ==
  /\ IsFiniteSet(Block) /\ IsInjective(Order)
  /\ Main \notin Range(SideTracks)
  /\ \A i, j \in DOMAIN Analyzers :
       Analyzers[i] = ReadingOrder /\ Analyzers[j] = ReadingOrder => i = j

\* _collect_nodes_recursive: the live blocks in document order.
Collected == Kept(Order, {b \in DOMAIN tree : ~tree[b].tomb})

Size(b) == IF tree[b].type \in MuteTypes THEN 0 ELSE Tokens[b]

\* Sections of one title, and a section and an untitled one in it, have one path.
container_path(b) == SelectSeq(Titles[b], LAMBDA title : title # "")

Atomic(b) == tree[b].type \in AtomicTypes

\* Each element where it occurs first.
Distinct(s) == At(s, {i \in DOMAIN s : \A j \in 1..(i - 1) : s[j] # s[i]})

\* The main flow from each of its heads.
Flow ==
  LET head == heads(rg, Main)
  IN  FlattenSeq([i \in DOMAIN head |-> get_sequence(rg, head[i], Main)])

\* Fault: without the fall-through to document order.
ordered_nodes_FlowOnly == Distinct(Kept(Flow, Range(Collected)))

ordered_nodes == Distinct(Kept(Flow, Range(Collected)) \o Collected)

Total(blocks) ==
  LET sum[n \in 0..Len(blocks)] == IF n = 0 THEN 0 ELSE sum[n - 1] + Size(blocks[n])
  IN  sum[Len(blocks)]

\* _create_chunk makes none of blocks without text.
Created(blocks) == IF Total(blocks) = 0 THEN <<>> ELSE <<blocks>>

Flushed(acc) == [chunks |-> acc.chunks \o Created(acc.buffer), buffer |-> <<>>]

Fits(acc, b) ==
  acc.buffer = <<>> \/ /\ container_path(Head(acc.buffer)) = container_path(b)
                       /\ Total(acc.buffer) + Size(b) <= MaxTokens

Take(acc, b) ==
  IF Atomic(b)
  THEN [Flushed(acc) EXCEPT !.chunks = @ \o Created(<<b>>)]
  ELSE LET room == IF Fits(acc, b) THEN acc ELSE Flushed(acc)
       IN  [room EXCEPT !.buffer = Append(@, b)]

build_chunks ==
  LET nodes == ordered_nodes
      taken[n \in 0..Len(nodes)] ==
        IF n = 0 THEN [chunks |-> <<>>, buffer |-> <<>>] ELSE Take(taken[n - 1], nodes[n])
  IN  Flushed(taken[Len(nodes)]).chunks

-----------------------------------------------------------------------------
(* Properties *)

\* No text is lost and none is doubled, whatever the graph looks like: every
\* live block with text is in exactly one chunk, once, and no other block is
\* the source of text (RFC 0007; build_chunks' fall-through to document order).
ChunksCoverDocument ==
  LET chunks == build_chunks
      sources == FlattenSeq(chunks)
  IN  /\ IsInjective(sources)
      /\ Range(sources) \subseteq Range(Collected)
      /\ \A b \in Range(Collected) : Size(b) > 0 => b \in Range(sources)

\* An atomic block is never mixed with or cut by others; a chunk of several
\* blocks stays within the budget and under the one path of titles that it is
\* labelled with, which is not always one container ("No code/table rupture").
ChunksKeepTheirLimits ==
  \A i \in DOMAIN build_chunks :
    LET chunk == build_chunks[i]
    IN  Len(chunk) > 1 =>
          /\ \A b \in Range(chunk) : ~Atomic(b) /\ container_path(b) = container_path(chunk[1])
          /\ Total(chunk) <= MaxTokens

\* Chunks are a partition of the text, and each is one a reader can use.
ChunksSound == ChunksCoverDocument /\ ChunksKeepTheirLimits

\* After an execution in which ReadingOrderAnalyzer came last and succeeded and
\* nobody else touched the main flow, the leaves come out in document order.
ChunksFollowTheDocument ==
  (/\ phase = "done"
   /\ Last(Analyzers) = ReadingOrder /\ ReadingOrder \notin failures
   /\ \A e \in Range(rg) : e.track = Main => e.by = ReadingOrder)
  => Kept(ordered_nodes, {b \in DOMAIN tree : tree[b].type \in LeafTypes}) = Leaves(tree)
=============================================================================

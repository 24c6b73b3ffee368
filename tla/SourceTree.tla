------------------------------ MODULE SourceTree ------------------------------
(***************************************************************************)
(* What the source adapters build (adapters/_shared.py): containers nested *)
(* by the levels a source declares, with blocks in them. A container that  *)
(* has been left is not entered again, so that the items in the order they *)
(* are made, each with the container it stands in, are the document.       *)
(*                                                                         *)
(* A block is the words it says, one after the other; the word read from   *)
(* the n-th event of a source is n.                                        *)
(***************************************************************************)
EXTENDS SequencesExt, Integers, FiniteSets

Item(kind, says) ==
  [kind |-> kind, says |-> says, level |-> 0,
   parent |-> 0,     \* index of its container, 0 for a root
   of |-> 0,         \* produced_by_cell_id: the item of a notebook cell
   id |-> <<>>,      \* what it is derived from in the source
   cells |-> {}]     \* of a table, where they stand

\* stack: indices of the open containers.
EmptyTree == [items |-> <<>>, stack |-> <<>>]

\* Fault: a container of the same level stays open.
LeftOpen(tree, level) ==
  LET left == {k \in DOMAIN tree.stack : tree.items[tree.stack[k]].level <= level}
  IN  SubSeq(tree.stack, 1, Max({0} \cup left))

\* What stays open when a container of a level opens: all up to the last that is
\* shallower; those behind it are popped.
StillOpen(tree, level) ==
  LET shallower == {k \in DOMAIN tree.stack : tree.items[tree.stack[k]].level < level}
  IN  SubSeq(tree.stack, 1, Max({0} \cup shallower))

Push(tree, container, above) ==
  [items |-> Append(tree.items, [container EXCEPT !.parent = IF above = <<>> THEN 0 ELSE Last(above)]),
   stack |-> Append(above, Len(tree.items) + 1)]

\* ContainerStack.open
Opened(tree, says, level) ==
  Push(tree, [Item("container", says) EXCEPT !.level = level], StillOpen(tree, level))

\* ContainerStack.current: a root of its own when nothing is open.
WithCurrent(tree) ==
  IF tree.stack # <<>> THEN tree
  ELSE Push(tree, [Item("document", <<>>) EXCEPT !.level = 1], <<>>)

\* ContainerStack.add
Added(tree, block) ==
  LET t == WithCurrent(tree)
  IN  [t EXCEPT !.items = Append(@, [block EXCEPT !.parent = Last(t.stack)])]

\* An adapter never gives a document without a container.
Rooted(tree) == IF tree.items = <<>> THEN WithCurrent(tree) ELSE tree

IsContainer(item) == item.kind \in {"container", "document"}

Said(tree) == FlattenSeq([i \in DOMAIN tree.items |-> tree.items[i].says])
=============================================================================

------------------------------- MODULE MCSources -------------------------------
(* Short sources of every format; tables with cells merged down and across. *)
EXTENDS Sources

TwoLevels == 1..2

Plain(n) == [span |-> n, merge |-> "none"]
Begin(n) == [span |-> n, merge |-> "restart"]
Go(n) == [span |-> n, merge |-> "continue"]

SomeGrids ==
  {<<<<Begin(1), Plain(2)>>, <<Go(1), Begin(1), Plain(1)>>, <<Go(1), Go(1), Plain(1)>>>>,
   <<<<Begin(2)>>, <<Plain(1), Plain(1)>>, <<Go(2)>>>>,
   <<<<Begin(1), Begin(1)>>, <<Begin(1), Go(1)>>, <<Go(1), Plain(1)>>>>}

SomeBoxes ==
  {[at |-> Flat, noise |-> 0]} \cup {[at |-> "top", noise |-> n] : n \in 0..1}

ShortSources == [markdown |-> 5, text |-> 6, docx |-> 3, notebook |-> 5, pdf |-> 4]
=============================================================================

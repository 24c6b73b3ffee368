---------------------------- MODULE PipelineProofs ----------------------------
(***************************************************************************)
(* Proofs about the pipeline and the chunker, for every set of blocks,     *)
(* every pipeline of analyzers with any permissions and any number of      *)
(* changes and runs.                                                       *)
(*                                                                         *)
(* A graph is acyclic when every set of blocks has a sink, so one more     *)
(* step is harmless when the blocks reachable from its target do not reach *)
(* its source: split a set by that closed set. What an analyzer has done   *)
(* so far is compared with the snapshot (Since), as the contract does.     *)
(*                                                                         *)
(* What the chunker computes is a recursion over a sequence. Each such     *)
(* recursion has a function that satisfies it (RecursionExists), and what  *)
(* holds of the function at 0 and goes from n - 1 to n holds of all of it  *)
(* (UpTo). The lemmas on sequences come first, then the pipeline, then the *)
(* chunks (Good), then whose steps the Reading Graph holds (ReadingInv).   *)
(***************************************************************************)
EXTENDS Chunker, SequenceTheorems, WellFoundedInduction, FiniteSetTheorems, TLAPS

-----------------------------------------------------------------------------
(* Induction and recursion, without a predicate as a parameter *)

\* A set of numbers has a least element.
LEMMA LeastOf ==
  ASSUME NEW N \in SUBSET Nat, N # {}
  PROVE  \E n \in N : \A m \in N : n <= m
<1>1. PICK n \in N : \A m \in N : ~(<<m, n>> \in OpToRel(<, Nat))
  BY WFMin, NatLessThanWellFounded
<1>2. ASSUME NEW m \in N PROVE n <= m
  <2>1. ~(m < n)
    BY <1>1 DEF OpToRel
  <2> QED
    BY <2>1
<1> QED
  BY <1>2

\* A set that holds 0 and with a number the next one holds all of them up to N.
LEMMA UpTo ==
  ASSUME NEW N \in Nat, NEW S, 0 \in S, \A n \in 1..N : n - 1 \in S => n \in S
  PROVE  \A n \in 0..N : n \in S
<1> DEFINE Bad == (0..N) \ S
<1>1. ASSUME Bad # {} PROVE FALSE
  <2>1. PICK n \in Bad : \A m \in Bad : n <= m
    <3>1. Bad \in SUBSET Nat
      OBVIOUS
    <3> HIDE DEF Bad
    <3> QED
      BY <1>1, <3>1, LeastOf
  <2>2. n \in 0..N /\ n \notin S /\ n # 0
    BY <2>1
  <2>3. n \in 1..N /\ n - 1 \in 0..N /\ ~(n <= n - 1)
    BY <2>2
  <2>4. n - 1 \notin Bad
    BY <2>1, <2>3
  <2> QED
    BY <2>2, <2>3, <2>4
<1> QED
  BY <1>1

\* A set that holds the empty sequence and with a sequence those one longer.
LEMMA EverySeq ==
  ASSUME NEW X, NEW S, <<>> \in S, \A s \in Seq(X) : \A e \in X : s \in S => Append(s, e) \in S
  PROVE  \A s \in Seq(X) : s \in S
<1> SUFFICES ASSUME NEW s \in Seq(X) PROVE s \in S
  OBVIOUS
<1> DEFINE P == {n \in 0..Len(s) : SubSeq(s, 1, n) \in S}
<1>1. Len(s) \in Nat
  OBVIOUS
<1>2. 0 \in P
  <2>1. SubSeq(s, 1, 0) = <<>>
    OBVIOUS
  <2>2. SubSeq(s, 1, 0) \in S
    BY <2>1, Zenon
  <2> QED
    BY <1>1, <2>2
<1>3. ASSUME NEW n \in 1..Len(s), n - 1 \in P PROVE n \in P
  <2> DEFINE front == SubSeq(s, 1, n - 1)
  <2>1. front \in Seq(X) /\ s[n] \in X /\ front \in S
    BY <1>3
  <2>2. SubSeq(s, 1, n) = Append(front, s[n])
    OBVIOUS
  <2> HIDE DEF front
  <2>3. SubSeq(s, 1, n) \in S
    BY <2>1, <2>2, Zenon
  <2> QED
    BY <2>3
<1> HIDE DEF P
<1>4. Len(s) \in P
  BY <1>1, <1>2, <1>3, UpTo
<1>5. SubSeq(s, 1, Len(s)) = s
  OBVIOUS
<1> QED
  BY <1>4, <1>5 DEF P

\* f is the recursion that starts at `base` and goes on by F.
Recursion(f, N, base, F) == f = [n \in 0..N |-> IF n = 0 THEN base ELSE F[<<n, f[n - 1]>>]]

\* There is such a function.
LEMMA RecursionExists ==
  ASSUME NEW A, NEW base \in A, NEW N \in Nat, NEW F \in [(1..N) \X A -> A]
  PROVE  \E f \in [0..N -> A] : Recursion(f, N, base, F)
<1> DEFINE P == {n \in 0..N : \E f \in [0..n -> A] : Recursion(f, n, base, F)}
<1>1. 0 \in P
  <2> DEFINE f == [n \in 0..0 |-> base]
  <2>1. f \in [0..0 -> A] /\ Recursion(f, 0, base, F)
    BY DEF Recursion
  <2> QED
    BY <2>1
<1>2. ASSUME NEW n \in 1..N, n - 1 \in P PROVE n \in P
  <2>1. PICK f \in [0..(n - 1) -> A] : Recursion(f, n - 1, base, F)
    BY <1>2
  <2> DEFINE g == [m \in 0..n |-> IF m = n THEN F[<<n, f[n - 1]>>] ELSE f[m]]
  <2>2. \A m \in 0..(n - 1) : g[m] = f[m]
    OBVIOUS
  <2>3. f[n - 1] \in A /\ F[<<n, f[n - 1]>>] \in A
    OBVIOUS
  <2>4. g \in [0..n -> A]
    BY <2>3
  <2>5. ASSUME NEW m \in 0..n PROVE g[m] = IF m = 0 THEN base ELSE F[<<m, g[m - 1]>>]
    <3>1. CASE m = n
      BY <2>2, <3>1
    <3>2. CASE m # n
      <4>1. m \in 0..(n - 1)
        BY <3>2
      <4>2. f[m] = IF m = 0 THEN base ELSE F[<<m, f[m - 1]>>]
        BY <2>1, <4>1 DEF Recursion
      <4>3. m # 0 => m - 1 \in 0..(n - 1)
        BY <4>1
      <4> QED
        BY <2>2, <4>1, <4>2, <4>3
    <3> QED
      BY <3>1, <3>2
  <2> HIDE DEF g
  <2>6. Recursion(g, n, base, F)
    BY <2>4, <2>5 DEF Recursion
  <2> QED
    BY <2>4, <2>6
<1> HIDE DEF P
<1>3. N \in P
  BY <1>1, <1>2, UpTo
<1> QED
  BY <1>3 DEF P

-----------------------------------------------------------------------------
(* Parts of a sequence *)

\* What At's function is at each index.
AtSteps(f, s, I) ==
  /\ f[0] = <<>>
  /\ \A n \in 1..Len(s) : f[n] = IF n \in I THEN Append(f[n - 1], s[n]) ELSE f[n - 1]

\* At is one of them.
LEMMA AtIs ==
  ASSUME NEW X, NEW s \in Seq(X), NEW I
  PROVE  \E f \in [0..Len(s) -> Seq(X)] : AtSteps(f, s, I) /\ At(s, I) = f[Len(s)]
<1> DEFINE N == Len(s)
           F == [p \in (1..N) \X Seq(X) |-> IF p[1] \in I THEN Append(p[2], s[p[1]]) ELSE p[2]]
           Is(f) == f = [n \in 0..N |-> IF n = 0 THEN <<>>
                                        ELSE IF n \in I THEN Append(f[n - 1], s[n]) ELSE f[n - 1]]
           g == CHOOSE f : Is(f)
<1>1. N \in Nat /\ \A n \in 1..N : s[n] \in X
  OBVIOUS
<1>2. F \in [(1..N) \X Seq(X) -> Seq(X)]
  BY <1>1
<1>3. PICK f \in [0..N -> Seq(X)] : Recursion(f, N, <<>>, F)
  <2>1. <<>> \in Seq(X)
    OBVIOUS
  <2> HIDE DEF F, N
  <2> QED
    BY <1>1, <1>2, <2>1, RecursionExists
<1>4. ASSUME NEW n \in 0..N
      PROVE  f[n] = IF n = 0 THEN <<>> ELSE IF n \in I THEN Append(f[n - 1], s[n]) ELSE f[n - 1]
  <2>1. f[n] = IF n = 0 THEN <<>> ELSE F[<<n, f[n - 1]>>]
    BY <1>3 DEF Recursion
  <2>2. n # 0 => n - 1 \in 0..N /\ n \in 1..N
    BY <1>1
  <2>3. n # 0 => f[n - 1] \in Seq(X)
    BY <2>2
  <2> QED
    BY <2>1, <2>2, <2>3
<1>5. Is(f)
  BY <1>4
<1>6. Is(g)
  BY <1>5
<1>7. At(s, I) = g[N]
  BY DEF At
<1> HIDE DEF g
<1>8. \A n \in 0..N : g[n] = IF n = 0 THEN <<>> ELSE IF n \in I THEN Append(g[n - 1], s[n]) ELSE g[n - 1]
  BY <1>6
<1> DEFINE P == {n \in 0..N : g[n] \in Seq(X)}
<1>9. \A n \in 0..N : n \in P
  <2>1. 0 \in P
    <3>1. 0 \in 0..N
      BY <1>1
    <3>2. g[0] = <<>>
      BY <1>8, <3>1
    <3>3. g[0] \in Seq(X)
      BY <3>2
    <3> QED
      BY <3>1, <3>3
  <2>2. ASSUME NEW n \in 1..N, n - 1 \in P PROVE n \in P
    <3>1. g[n - 1] \in Seq(X) /\ s[n] \in X /\ n \in 0..N /\ n # 0
      BY <1>1, <2>2
    <3>2. Append(g[n - 1], s[n]) \in Seq(X)
      BY <3>1
    <3>3. g[n] = IF n \in I THEN Append(g[n - 1], s[n]) ELSE g[n - 1]
      BY <1>8, <3>1
    <3> HIDE DEF N
    <3>4. g[n] \in Seq(X)
      BY <3>1, <3>2, <3>3
    <3> QED
      BY <3>1, <3>4
  <2> HIDE DEF P
  <2> QED
    BY <1>1, <2>1, <2>2, UpTo
<1>10. DOMAIN g = 0..N
  BY <1>6
<1>11. g \in [0..N -> Seq(X)]
  BY <1>6, <1>9, <1>10
<1>12. AtSteps(g, s, I)
  BY <1>1, <1>8 DEF AtSteps
<1> QED
  BY <1>7, <1>11, <1>12

\* Two that agree on the sequence and on what is taken agree.
LEMMA AtUnique ==
  ASSUME NEW X, NEW s \in Seq(X), NEW t \in Seq(X), NEW I, NEW J, NEW f, NEW g,
         AtSteps(f, s, I), AtSteps(g, t, J), NEW N \in Nat, N <= Len(s), N <= Len(t),
         \A n \in 1..N : s[n] = t[n] /\ (n \in I <=> n \in J)
  PROVE  f[N] = g[N]
<1> DEFINE P == {n \in 0..N : f[n] = g[n]}
<1>1. 0 \in P
  BY DEF AtSteps
<1>2. ASSUME NEW n \in 1..N, n - 1 \in P PROVE n \in P
  <2>1. f[n - 1] = g[n - 1] /\ n \in 1..Len(s) /\ n \in 1..Len(t) /\ n \in 0..N
    BY <1>2
  <2> QED
    BY <2>1 DEF AtSteps
<1> HIDE DEF P
<1>3. \A n \in 0..N : n \in P
  BY <1>1, <1>2, UpTo
<1> QED
  BY <1>3 DEF P

\* Parts of a sequence are made of its elements.
LEMMA AtType ==
  ASSUME NEW X, NEW s \in Seq(X), NEW I
  PROVE  At(s, I) \in Seq(X)
<1>1. Len(s) \in 0..Len(s)
  OBVIOUS
<1> QED
  BY <1>1, AtIs

\* Only indices of the sequence matter.
LEMMA AtSame ==
  ASSUME NEW X, NEW s \in Seq(X), NEW I, NEW J, \A n \in 1..Len(s) : n \in I <=> n \in J
  PROVE  At(s, I) = At(s, J)
<1>1. PICK f : AtSteps(f, s, I) /\ At(s, I) = f[Len(s)]
  BY AtIs
<1>2. PICK g : AtSteps(g, s, J) /\ At(s, J) = g[Len(s)]
  BY AtIs
<1>3. Len(s) \in Nat
  OBVIOUS
<1> QED
  BY <1>1, <1>2, <1>3, AtUnique

\* There is no part of the empty sequence but itself,
LEMMA AtEmpty ==
  ASSUME NEW I
  PROVE  At(<<>>, I) = <<>>
<1>1. <<>> \in Seq({}) /\ Len(<<>>) = 0
  OBVIOUS
<1>2. PICK f : AtSteps(f, <<>>, I) /\ At(<<>>, I) = f[0]
  BY <1>1, AtIs
<1> QED
  BY <1>2 DEF AtSteps

\* One element more.
LEMMA AtAppend ==
  ASSUME NEW X, NEW s \in Seq(X), NEW e \in X, NEW I
  PROVE  At(Append(s, e), I) = IF Len(s) + 1 \in I THEN Append(At(s, I), e) ELSE At(s, I)
<1> DEFINE t == Append(s, e)
           N == Len(s)
<1>1. /\ t \in Seq(X) /\ Len(t) = N + 1 /\ N \in Nat
      /\ t[N + 1] = e /\ \A n \in 1..N : t[n] = s[n]
  OBVIOUS
<1> HIDE DEF t, N
<1>2. PICK f : AtSteps(f, s, I) /\ At(s, I) = f[N]
  BY AtIs DEF N
<1>3. PICK g : AtSteps(g, t, I) /\ At(t, I) = g[N + 1]
  BY <1>1, AtIs
<1>4. f[N] = g[N]
  BY <1>1, <1>2, <1>3, AtUnique DEF N
<1>5. g[N + 1] = IF N + 1 \in I THEN Append(g[N], e) ELSE g[N]
  <2>1. N + 1 \in 1..Len(t) /\ (N + 1) - 1 = N
    BY <1>1
  <2> QED
    BY <1>1, <1>3, <2>1 DEF AtSteps
<1> QED
  BY <1>2, <1>3, <1>4, <1>5 DEF t, N

\* and nothing in it to filter.
LEMMA KeptEmpty ==
  ASSUME NEW S
  PROVE  Kept(<<>>, S) = <<>>
  BY AtEmpty DEF Kept

\* Filtering goes element by element.
LEMMA KeptAppend ==
  ASSUME NEW X, NEW s \in Seq(X), NEW e \in X, NEW S
  PROVE  Kept(Append(s, e), S) = IF e \in S THEN Append(Kept(s, S), e) ELSE Kept(s, S)
<1> DEFINE t == Append(s, e)
           I == {i \in DOMAIN s : s[i] \in S}
           J == {i \in DOMAIN t : t[i] \in S}
           N == Len(s)
<1>1. /\ N \in Nat /\ DOMAIN s = 1..N /\ DOMAIN t = 1..(N + 1)
      /\ t[N + 1] = e /\ \A n \in 1..N : t[n] = s[n]
  OBVIOUS
<1> HIDE DEF t
<1>2. N + 1 \in J <=> e \in S
  BY <1>1
<1>3. \A n \in 1..N : n \in I <=> n \in J
  BY <1>1
<1>4. Kept(s, S) = At(s, I) /\ Kept(t, S) = At(t, J)
  BY DEF Kept
<1> HIDE DEF I, J
<1>5. At(s, I) = At(s, J)
  BY <1>3, AtSame
<1>6. At(t, J) = IF N + 1 \in J THEN Append(At(s, J), e) ELSE At(s, J)
  BY AtAppend DEF t
<1> QED
  BY <1>2, <1>4, <1>5, <1>6 DEF t

-----------------------------------------------------------------------------
(* What sequences are made of *)

\* Of a sequence and one element more.
LEMMA AppendFacts ==
  ASSUME NEW X, NEW s \in Seq(X), NEW e \in X
  PROVE  /\ Range(Append(s, e)) = Range(s) \cup {e}
         /\ IsInjective(Append(s, e)) <=> IsInjective(s) /\ e \notin Range(s)
<1> DEFINE t == Append(s, e)
           N == Len(s)
<1>1. /\ N \in Nat /\ DOMAIN s = 1..N /\ DOMAIN t = 1..(N + 1)
      /\ t[N + 1] = e /\ \A n \in 1..N : t[n] = s[n]
  OBVIOUS
<1> HIDE DEF t, N
<1>2. Range(t) = Range(s) \cup {e}
  <2>1. ASSUME NEW x \in Range(t) PROVE x \in Range(s) \cup {e}
    <3>1. PICK n \in 1..(N + 1) : t[n] = x
      BY <1>1, <2>1 DEF Range
    <3>2. CASE n = N + 1
      BY <1>1, <3>1, <3>2
    <3>3. CASE n # N + 1
      <4>1. n \in 1..N
        BY <1>1, <3>3
      <4> QED
        BY <1>1, <3>1, <4>1 DEF Range
    <3> QED
      BY <3>2, <3>3
  <2>2. ASSUME NEW x \in Range(s) PROVE x \in Range(t)
    <3>1. PICK n \in 1..N : s[n] = x
      BY <1>1, <2>2 DEF Range
    <3>2. n \in 1..(N + 1) /\ t[n] = x
      BY <1>1, <3>1
    <3> QED
      BY <1>1, <3>2 DEF Range
  <2>3. e \in Range(t)
    <3>1. N + 1 \in 1..(N + 1)
      BY <1>1
    <3> QED
      BY <1>1, <3>1 DEF Range
  <2> QED
    BY <2>1, <2>2, <2>3
<1>3. ASSUME IsInjective(t) PROVE IsInjective(s) /\ e \notin Range(s)
  <2>1. \A i, j \in 1..(N + 1) : t[i] = t[j] => i = j
    BY <1>1, <1>3 DEF IsInjective
  <2>2. IsInjective(s)
    BY <1>1, <2>1 DEF IsInjective
  <2>3. ASSUME e \in Range(s) PROVE FALSE
    <3>1. PICK n \in 1..N : s[n] = e
      BY <1>1, <2>3 DEF Range
    <3>2. t[n] = t[N + 1] /\ n # N + 1 /\ n \in 1..(N + 1) /\ N + 1 \in 1..(N + 1)
      BY <1>1, <3>1
    <3> QED
      BY <2>1, <3>2
  <2> QED
    BY <2>2, <2>3
<1>4. ASSUME IsInjective(s), e \notin Range(s) PROVE IsInjective(t)
  <2>1. \A i \in 1..N : s[i] # e
    BY <1>1, <1>4 DEF Range
  <2>2. \A i, j \in 1..N : s[i] = s[j] => i = j
    BY <1>1, <1>4 DEF IsInjective
  <2>3. \A i \in 1..(N + 1) : i \in 1..N \/ i = N + 1
    BY <1>1
  <2>4. \A i, j \in 1..(N + 1) : t[i] = t[j] => i = j
    BY <1>1, <2>1, <2>2, <2>3
  <2> QED
    BY <1>1, <2>4 DEF IsInjective
<1> QED
  BY <1>2, <1>3, <1>4 DEF t

\* Of the empty sequence.
LEMMA EmptyFacts == Range(<<>>) = {} /\ IsInjective(<<>>)
  BY DEF Range, IsInjective

\* Of two sequences one after the other.
LEMMA ConcatFacts ==
  ASSUME NEW X, NEW s \in Seq(X), NEW t \in Seq(X)
  PROVE  /\ Range(s \o t) = Range(s) \cup Range(t)
         /\ IsInjective(s \o t) <=>
              IsInjective(s) /\ IsInjective(t) /\ Range(s) \cap Range(t) = {}
<1> DEFINE P == {u \in Seq(X) :
             /\ Range(s \o u) = Range(s) \cup Range(u)
             /\ IsInjective(s \o u) <=>
                  IsInjective(s) /\ IsInjective(u) /\ Range(s) \cap Range(u) = {}}
<1>1. <<>> \in P
  <2>1. s \o <<>> = s /\ <<>> \in Seq(X)
    OBVIOUS
  <2> QED
    BY <2>1, EmptyFacts
<1>2. ASSUME NEW u \in Seq(X), NEW e \in X, u \in P PROVE Append(u, e) \in P
  <2>1. s \o Append(u, e) = Append(s \o u, e) /\ s \o u \in Seq(X) /\ Append(u, e) \in Seq(X)
    OBVIOUS
  <2>2. /\ Range(s \o u) = Range(s) \cup Range(u)
        /\ IsInjective(s \o u) <=>
             IsInjective(s) /\ IsInjective(u) /\ Range(s) \cap Range(u) = {}
    BY <1>2
  <2>3. /\ Range(Append(u, e)) = Range(u) \cup {e}
        /\ IsInjective(Append(u, e)) <=> IsInjective(u) /\ e \notin Range(u)
    BY AppendFacts
  <2>4. /\ Range(Append(s \o u, e)) = Range(s \o u) \cup {e}
        /\ IsInjective(Append(s \o u, e)) <=> IsInjective(s \o u) /\ e \notin Range(s \o u)
    BY <2>1, AppendFacts
  <2>5. Range(s \o Append(u, e)) = Range(s) \cup Range(Append(u, e))
    BY <2>1, <2>2, <2>3, <2>4
  <2>6. IsInjective(s \o Append(u, e)) <=> IsInjective(s \o u) /\ e \notin Range(s) \cup Range(u)
    BY <2>1, <2>2, <2>4
  <2>7. Range(s) \cap Range(Append(u, e)) = {} <=> e \notin Range(s) /\ Range(s) \cap Range(u) = {}
    BY <2>3
  <2> QED
    BY <2>1, <2>2, <2>3, <2>5, <2>6, <2>7
<1> HIDE DEF P
<1>3. \A u \in Seq(X) : u \in P
  BY <1>1, <1>2, EverySeq
<1> QED
  BY <1>3 DEF P

\* Filtering takes those in the set, and leaves the order.
LEMMA KeptFacts ==
  ASSUME NEW X, NEW S, NEW s \in Seq(X)
  PROVE  /\ Kept(s, S) \in Seq(X)
         /\ Range(Kept(s, S)) = Range(s) \cap S
         /\ IsInjective(s) => IsInjective(Kept(s, S))
<1> DEFINE P == {u \in Seq(X) :
             /\ Kept(u, S) \in Seq(X)
             /\ Range(Kept(u, S)) = Range(u) \cap S
             /\ IsInjective(u) => IsInjective(Kept(u, S))}
<1>1. <<>> \in P
  <2>1. <<>> \in Seq(X)
    OBVIOUS
  <2> QED
    BY <2>1, EmptyFacts, KeptEmpty
<1>2. ASSUME NEW u \in Seq(X), NEW e \in X, u \in P PROVE Append(u, e) \in P
  <2> DEFINE k == Kept(u, S)
  <2>1. /\ k \in Seq(X) /\ Range(k) = Range(u) \cap S
        /\ IsInjective(u) => IsInjective(k)
    BY <1>2
  <2>2. Kept(Append(u, e), S) = IF e \in S THEN Append(k, e) ELSE k
    BY KeptAppend
  <2> HIDE DEF k
  <2>3. /\ Range(Append(u, e)) = Range(u) \cup {e}
        /\ IsInjective(Append(u, e)) <=> IsInjective(u) /\ e \notin Range(u)
    BY AppendFacts
  <2>4. /\ Range(Append(k, e)) = Range(k) \cup {e}
        /\ IsInjective(Append(k, e)) <=> IsInjective(k) /\ e \notin Range(k)
    BY <2>1, AppendFacts
  <2>5. Append(u, e) \in Seq(X) /\ Append(k, e) \in Seq(X)
    BY <2>1
  <2>6. CASE e \in S
    BY <2>1, <2>2, <2>3, <2>4, <2>5, <2>6
  <2>7. CASE e \notin S
    BY <2>1, <2>2, <2>3, <2>5, <2>7
  <2> QED
    BY <2>6, <2>7
<1> HIDE DEF P
<1>3. s \in P
  BY <1>1, <1>2, EverySeq
<1> QED
  BY <1>3 DEF P

\* Distinct goes element by element.
LEMMA DistinctAppend ==
  ASSUME NEW X, NEW s \in Seq(X), NEW e \in X
  PROVE  Distinct(Append(s, e)) = IF e \in Range(s) THEN Distinct(s) ELSE Append(Distinct(s), e)
<1> DEFINE t == Append(s, e)
           I == {i \in DOMAIN s : \A j \in 1..(i - 1) : s[j] # s[i]}
           J == {i \in DOMAIN t : \A j \in 1..(i - 1) : t[j] # t[i]}
           N == Len(s)
<1>1. /\ N \in Nat /\ DOMAIN s = 1..N /\ DOMAIN t = 1..(N + 1)
      /\ t[N + 1] = e /\ \A n \in 1..N : t[n] = s[n]
  OBVIOUS
<1> HIDE DEF t
<1>2. N + 1 \in J <=> e \notin Range(s)
  <2>1. N + 1 \in 1..(N + 1) /\ (N + 1) - 1 = N
    BY <1>1
  <2>2. N + 1 \in J <=> \A j \in 1..N : t[j] # e
    BY <1>1, <2>1
  <2>3. e \in Range(s) <=> \E j \in 1..N : s[j] = e
    BY <1>1 DEF Range
  <2> QED
    BY <1>1, <2>2, <2>3
<1>3. \A n \in 1..N : n \in I <=> n \in J
  <2>1. ASSUME NEW n \in 1..N PROVE n \in I <=> n \in J
    <3>1. n \in 1..(N + 1) /\ \A j \in 1..(n - 1) : j \in 1..N
      BY <1>1
    <3> QED
      BY <1>1, <3>1
  <2> QED
    BY <2>1
<1>4. Distinct(s) = At(s, I) /\ Distinct(t) = At(t, J)
  BY DEF Distinct
<1> HIDE DEF I, J
<1>5. At(s, I) = At(s, J)
  BY <1>3, AtSame
<1>6. At(t, J) = IF N + 1 \in J THEN Append(At(s, J), e) ELSE At(s, J)
  BY AtAppend DEF t
<1> QED
  BY <1>2, <1>4, <1>5, <1>6 DEF t

\* Nothing occurs in the empty sequence.
LEMMA DistinctEmpty == Distinct(<<>>) = <<>>
  BY AtEmpty DEF Distinct

\* It has every element, and has it once.
LEMMA DistinctFacts ==
  ASSUME NEW X, NEW s \in Seq(X)
  PROVE  Distinct(s) \in Seq(X) /\ Range(Distinct(s)) = Range(s) /\ IsInjective(Distinct(s))
<1> DEFINE P == {u \in Seq(X) :
             Distinct(u) \in Seq(X) /\ Range(Distinct(u)) = Range(u) /\ IsInjective(Distinct(u))}
<1>1. <<>> \in P
  <2>1. <<>> \in Seq(X)
    OBVIOUS
  <2> QED
    BY <2>1, EmptyFacts, DistinctEmpty
<1>2. ASSUME NEW u \in Seq(X), NEW e \in X, u \in P PROVE Append(u, e) \in P
  <2> DEFINE k == Distinct(u)
  <2>1. k \in Seq(X) /\ Range(k) = Range(u) /\ IsInjective(k)
    BY <1>2
  <2>2. Distinct(Append(u, e)) = IF e \in Range(u) THEN k ELSE Append(k, e)
    BY DistinctAppend
  <2> HIDE DEF k
  <2>3. Range(Append(u, e)) = Range(u) \cup {e}
    BY AppendFacts
  <2>4. /\ Range(Append(k, e)) = Range(k) \cup {e}
        /\ IsInjective(Append(k, e)) <=> IsInjective(k) /\ e \notin Range(k)
    BY <2>1, AppendFacts
  <2>5. Append(u, e) \in Seq(X) /\ Append(k, e) \in Seq(X)
    BY <2>1
  <2>6. CASE e \in Range(u)
    BY <2>1, <2>2, <2>3, <2>5, <2>6
  <2>7. CASE e \notin Range(u)
    BY <2>1, <2>2, <2>3, <2>4, <2>5, <2>7
  <2> QED
    BY <2>6, <2>7
<1> HIDE DEF P
<1>3. s \in P
  BY <1>1, <1>2, EverySeq
<1> QED
  BY <1>3 DEF P

-----------------------------------------------------------------------------
(* Sequences of sequences *)

\* What FlattenSeq's function is at each index.
FlatSteps(f, c) == f[1] = c[1] /\ \A i \in 2..Len(c) : f[i] = f[i - 1] \o c[i]

\* FlattenSeq is one of them.
LEMMA FlattenIs ==
  ASSUME NEW X, NEW c \in Seq(Seq(X)), Len(c) # 0
  PROVE  \E f \in [1..Len(c) -> Seq(X)] : FlatSteps(f, c) /\ FlattenSeq(c) = f[Len(c)]
<1> DEFINE N == Len(c)
           F == [p \in (1..(N - 1)) \X Seq(X) |-> p[2] \o c[p[1] + 1]]
           Is(f) == f = [i \in 1..N |-> IF i = 1 THEN c[i] ELSE f[i - 1] \o c[i]]
           g == CHOOSE f : Is(f)
<1>1. N \in Nat /\ N - 1 \in Nat /\ N >= 1 /\ \A n \in 1..N : c[n] \in Seq(X)
  OBVIOUS
<1>2. F \in [(1..(N - 1)) \X Seq(X) -> Seq(X)]
  <2>1. ASSUME NEW n \in 1..(N - 1), NEW x \in Seq(X) PROVE x \o c[n + 1] \in Seq(X)
    <3>1. c[n + 1] \in Seq(X)
      BY <1>1
    <3> QED
      BY <3>1
  <2> HIDE DEF N
  <2> QED
    BY <2>1
<1>3. PICK f \in [0..(N - 1) -> Seq(X)] : Recursion(f, N - 1, c[1], F)
  <2>1. c[1] \in Seq(X)
    BY <1>1
  <2> HIDE DEF F, N
  <2> QED
    BY <1>1, <1>2, <2>1, RecursionExists
<1> DEFINE h == [i \in 1..N |-> f[i - 1]]
<1>4. ASSUME NEW i \in 1..N
      PROVE  h[i] = IF i = 1 THEN c[i] ELSE h[i - 1] \o c[i]
  <2>1. i - 1 \in 0..(N - 1)
    BY <1>1
  <2>2. f[i - 1] = IF i - 1 = 0 THEN c[1] ELSE F[<<i - 1, f[(i - 1) - 1]>>]
    BY <1>3, <2>1 DEF Recursion
  <2>3. i # 1 => i - 1 \in 1..N /\ i - 1 \in 1..(N - 1) /\ (i - 1) - 1 \in 0..(N - 1) /\ (i - 1) + 1 = i
    BY <1>1
  <2>4. i # 1 => f[(i - 1) - 1] \in Seq(X)
    BY <2>3
  <2>5. i # 1 => F[<<i - 1, f[(i - 1) - 1]>>] = f[(i - 1) - 1] \o c[i]
    BY <2>3, <2>4
  <2>6. i = 1 => f[i - 1] = c[1]
    BY <2>2
  <2>7. h[i] = f[i - 1] /\ (i # 1 => h[i - 1] = f[(i - 1) - 1])
    BY <2>3
  <2>8. i # 1 => f[i - 1] = f[(i - 1) - 1] \o c[i]
    <3> HIDE DEF F, N
    <3>1. i # 1 => i - 1 # 0
      BY <1>1
    <3> QED
      BY <2>2, <2>5, <3>1
  <2> HIDE DEF F, N, h
  <2>9. CASE i = 1
    BY <2>6, <2>7, <2>9
  <2>10. CASE i # 1
    BY <2>7, <2>8, <2>10
  <2> QED
    BY <2>9, <2>10
<1>5. Is(h)
  <2>1. h = [i \in 1..N |-> h[i]]
    OBVIOUS
  <2> HIDE DEF h, N
  <2> QED
    BY <1>4, <2>1
<1>6. Is(g)
  <2> HIDE DEF h
  <2> QED
    BY <1>5
<1>7. FlattenSeq(c) = g[N]
  BY DEF FlattenSeq
<1> HIDE DEF g
<1>8. \A i \in 1..N : g[i] = IF i = 1 THEN c[i] ELSE g[i - 1] \o c[i]
  BY <1>6
<1>9. DOMAIN g = 1..N
  BY <1>6
<1> HIDE DEF N
<1> DEFINE P == {n \in 0..(N - 1) : g[n + 1] \in Seq(X)}
<1>10. \A n \in 0..(N - 1) : n \in P
  <2>1. 0 \in P
    <3>1. 0 \in 0..(N - 1) /\ 0 + 1 = 1 /\ 1 \in 1..N
      BY <1>1
    <3>2. g[1] = c[1]
      BY <1>8, <3>1
    <3>3. g[0 + 1] \in Seq(X)
      BY <1>1, <3>1, <3>2
    <3> QED
      BY <3>1, <3>3
  <2>2. ASSUME NEW n \in 1..(N - 1), n - 1 \in P PROVE n \in P
    <3>1. n + 1 \in 1..N /\ n + 1 # 1 /\ (n + 1) - 1 = (n - 1) + 1 /\ n \in 0..(N - 1)
      BY <1>1
    <3>2. g[(n - 1) + 1] \in Seq(X) /\ c[n + 1] \in Seq(X)
      BY <1>1, <2>2, <3>1
    <3>3. g[n + 1] = g[(n - 1) + 1] \o c[n + 1]
      BY <1>8, <3>1
    <3>4. g[n + 1] \in Seq(X)
      BY <3>2, <3>3
    <3> QED
      BY <3>1, <3>4
  <2> HIDE DEF P
  <2> QED
    BY <1>1, <2>1, <2>2, UpTo
<1>11. ASSUME NEW i \in 1..N PROVE g[i] \in Seq(X)
  <2>1. i - 1 \in 0..(N - 1) /\ (i - 1) + 1 = i
    BY <1>1
  <2>2. g[(i - 1) + 1] \in Seq(X)
    BY <1>10, <2>1
  <2> QED
    BY <2>1, <2>2
<1>12. g \in [1..N -> Seq(X)]
  <2>1. g = [i \in 1..N |-> g[i]]
    BY <1>6
  <2> QED
    BY <1>11, <2>1
<1>13. FlatSteps(g, c)
  <2>1. \A i \in 2..N : i \in 1..N /\ i # 1
    BY <1>1
  <2>2. 1 \in 1..N
    BY <1>1
  <2> QED
    BY <1>8, <2>1, <2>2 DEF FlatSteps, N
<1> QED
  BY <1>7, <1>12, <1>13 DEF N

\* No sequences make an empty one.
LEMMA FlattenEmpty == FlattenSeq(<<>>) = <<>>
  BY DEF FlattenSeq

\* Sequences of elements make a sequence of elements.
LEMMA FlattenType ==
  ASSUME NEW X, NEW c \in Seq(Seq(X))
  PROVE  FlattenSeq(c) \in Seq(X)
<1>1. CASE Len(c) = 0
  <2>1. c = <<>> /\ <<>> \in Seq(X)
    BY <1>1
  <2> QED
    BY <2>1, FlattenEmpty
<1>2. CASE Len(c) # 0
  <2>1. Len(c) \in 1..Len(c)
    BY <1>2
  <2> QED
    BY <1>2, <2>1, FlattenIs
<1> QED
  BY <1>1, <1>2

\* One sequence more.
LEMMA FlattenAppend ==
  ASSUME NEW X, NEW c \in Seq(Seq(X)), NEW x \in Seq(X)
  PROVE  FlattenSeq(Append(c, x)) = FlattenSeq(c) \o x
<1> DEFINE t == Append(c, x)
           N == Len(c)
<1>1. /\ t \in Seq(Seq(X)) /\ Len(t) = N + 1 /\ N \in Nat
      /\ t[N + 1] = x /\ \A n \in 1..N : t[n] = c[n]
  OBVIOUS
<1> HIDE DEF t
<1>2. Len(t) # 0
  BY <1>1
<1>3. PICK g : FlatSteps(g, t) /\ FlattenSeq(t) = g[N + 1]
  BY <1>1, <1>2, FlattenIs
<1>4. CASE N = 0
  <2>1. c = <<>>
    BY <1>4
  <2>2. FlattenSeq(t) = x
    BY <1>1, <1>3, <1>4 DEF FlatSteps
  <2>3. <<>> \o x = x
    OBVIOUS
  <2> QED
    BY <2>1, <2>2, <2>3, FlattenEmpty DEF t
<1>5. CASE N # 0
  <2>1. PICK f : FlatSteps(f, c) /\ FlattenSeq(c) = f[N]
    BY <1>5, FlattenIs
  <2> HIDE DEF N
  <2> DEFINE P == {n \in 0..(N - 1) : f[n + 1] = g[n + 1]}
  <2>2. 0 \in P
    <3>1. 0 \in 0..(N - 1) /\ 0 + 1 = 1 /\ 1 \in 1..N
      BY <1>1, <1>5
    <3>2. f[1] = c[1] /\ g[1] = t[1] /\ t[1] = c[1]
      BY <1>1, <1>3, <2>1, <3>1 DEF FlatSteps
    <3>3. f[0 + 1] = g[0 + 1]
      BY <3>1, <3>2
    <3> QED
      BY <3>1, <3>3
  <2>3. ASSUME NEW n \in 1..(N - 1), n - 1 \in P PROVE n \in P
    <3>1. n + 1 \in 2..N /\ n + 1 \in 1..N /\ n + 1 \in 2..(N + 1) /\ (n + 1) - 1 = (n - 1) + 1 /\ n \in 0..(N - 1)
      BY <1>1
    <3>2. f[(n - 1) + 1] = g[(n - 1) + 1]
      BY <2>3
    <3>3. f[n + 1] = f[(n + 1) - 1] \o c[n + 1] /\ g[n + 1] = g[(n + 1) - 1] \o t[n + 1]
      BY <1>1, <1>3, <2>1, <3>1 DEF FlatSteps, N
    <3>4. f[n + 1] = g[n + 1]
      BY <1>1, <3>1, <3>2, <3>3
    <3> QED
      BY <3>1, <3>4
  <2>4. \A n \in 0..(N - 1) : n \in P
    <3>1. N - 1 \in Nat
      BY <1>1, <1>5
    <3> HIDE DEF P
    <3> QED
      BY <2>2, <2>3, <3>1, UpTo
  <2>5. f[N] = g[N]
    <3>1. N - 1 \in 0..(N - 1) /\ (N - 1) + 1 = N
      BY <1>1, <1>5
    <3>2. f[(N - 1) + 1] = g[(N - 1) + 1]
      BY <2>4, <3>1
    <3> QED
      BY <3>1, <3>2
  <2>6. g[N + 1] = g[N] \o x
    <3>1. N + 1 \in 2..Len(t) /\ (N + 1) - 1 = N
      BY <1>1, <1>5
    <3> QED
      BY <1>1, <1>3, <3>1 DEF FlatSteps
  <2> QED
    BY <1>3, <2>1, <2>5, <2>6 DEF t
<1> QED
  BY <1>4, <1>5

-----------------------------------------------------------------------------
(* Reading graphs *)

\* A step whose target does not reach its source closes no cycle.
LEMMA OneMoreEdge ==
  ASSUME NEW E, Acyclic(E), NEW s \in Block, NEW t \in Block, ~HasPath(E, t, s)
  PROVE  Acyclic(E \cup {<<s, t>>})
<1>1. PICK C \in SUBSET Block : t \in C /\ Closed(C, E) /\ s \notin C
  BY DEF HasPath
<1> SUFFICES ASSUME NEW S \in (SUBSET Block) \ {{}}
             PROVE  \E b \in S : \A c \in S : <<b, c>> \notin E \cup {<<s, t>>}
  BY DEF Acyclic
<1>2. CASE S \cap C = {}
  <2>1. PICK b \in S : \A c \in S : <<b, c>> \notin E
    BY DEF Acyclic
  <2>2. t \notin S
    BY <1>1, <1>2
  <2> QED
    BY <2>1, <2>2
<1>3. CASE S \cap C # {}
  <2>1. PICK b \in S \cap C : \A c \in S \cap C : <<b, c>> \notin E
    BY <1>3 DEF Acyclic
  <2>2. ASSUME NEW c \in S, <<b, c>> \in E
        PROVE  FALSE
    <3>1. c \in C
      BY <1>1, <2>1, <2>2 DEF Closed
    <3> QED
      BY <3>1, <2>1, <2>2
  <2>3. b # s
    BY <1>1
  <2> QED
    BY <2>1, <2>2, <2>3
<1> QED
  BY <1>2, <1>3

AllAcyclic(graph) == \A track \in Track : Acyclic(Edges(graph, track))

LEMMA RangeOfAppend ==
  ASSUME NEW g \in Seq(Step), NEW e \in Step
  PROVE  Range(Append(g, e)) = Range(g) \cup {e}
  BY AppendProperties DEF Range

\* The graph of one more step has one more edge, on its track only.
LEMMA EdgesOfAppend ==
  ASSUME NEW g \in Seq(Step), NEW e \in Step, NEW track \in Track
  PROVE  Edges(Append(g, e), track) =
           IF e.track = track THEN Edges(g, track) \cup {<<e.source, e.target>>}
           ELSE Edges(g, track)
  BY RangeOfAppend DEF Edges

\* add_step keeps every track acyclic.
LEMMA AcceptedStep ==
  ASSUME NEW g \in Seq(Step), NEW e \in Step, AllAcyclic(g), Accepts(g, e)
  PROVE  AllAcyclic(Append(g, e))
<1> SUFFICES ASSUME NEW track \in Track
             PROVE  Acyclic(Edges(Append(g, e), track))
  BY DEF AllAcyclic
<1>1. CASE e.track = track
  <2>1. e.source \in Block /\ e.target \in Block
    BY DEF Step
  <2>2. Acyclic(Edges(g, track))
    BY DEF AllAcyclic
  <2>3. ~HasPath(Edges(g, track), e.target, e.source)
    BY <1>1 DEF Accepts
  <2>4. Acyclic(Edges(g, track) \cup {<<e.source, e.target>>})
    BY <2>1, <2>2, <2>3, OneMoreEdge
  <2> QED
    BY <1>1, <2>4, EdgesOfAppend
<1>2. CASE e.track # track
  BY <1>2, EdgesOfAppend DEF AllAcyclic
<1> QED
  BY <1>1, <1>2

LEMMA EmptyGraph == AllAcyclic(<<>>)
<1>1. Range(<<>>) = {}
  BY DEF Range
<1>2. \A track : Edges(<<>>, track) = {}
  BY <1>1 DEF Edges
<1>3. Acyclic({})
  BY DEF Acyclic
<1> QED
  BY <1>2, <1>3 DEF AllAcyclic

-----------------------------------------------------------------------------
(* The inductive invariant *)

\* The marker and the number of rescalings agree.
Scored(t) == \A b \in DOMAIN t : t[b].rescaled = IF t[b].score = "calibrated" THEN 1 ELSE 0

\* Since the snapshot, the graphs have only grown, by the running analyzer.
GraphsGrown ==
  /\ Len(before.rg) <= Len(rg)
  /\ \A i \in 1..Len(before.rg) : rg[i] = before.rg[i]
  /\ \A i \in 1..Len(rg) : i > Len(before.rg) =>
       rg[i].by = Current /\ May("RG_MUTATE_EDGES")
  /\ before.kg \subseteq kg
  /\ kg # before.kg => May("KG_MUTATE_EDGES")

\* No block names an analyzer that nobody named then.
NothingCredited == \A b \in DOMAIN tree : tree[b].applied \subseteq Named(before.tree)

Since == phase = "running" => GraphsGrown /\ NothingCredited

IInv ==
  /\ TypeOK
  /\ AllAcyclic(rg) /\ AllAcyclic(before.rg)
  /\ Scored(tree) /\ Scored(before.tree)
  /\ Since

-----------------------------------------------------------------------------
(* Trees *)

LEMMA EmptyTree == IsTree(<<>>) /\ Scored(<<>>)
  BY DEF IsTree, Scored

LEMMA FreshNode ==
  ASSUME NEW ty \in Type
  PROVE  /\ Fresh(ty) \in Node
         /\ Fresh(ty).applied = {}
         /\ Fresh(ty).rescaled = 0 /\ Fresh(ty).score = "raw"
  BY DEF Fresh, Node

LEMMA ScoreNode ==
  ASSUME NEW n \in Node, n.rescaled = 0,
         NEW m, m = [n EXCEPT !.rescaled = @ + 1, !.score = "calibrated"]
  PROVE  /\ m \in Node
         /\ m.rescaled = 1 /\ m.score = "calibrated"
         /\ m.type = n.type /\ m.tomb = n.tomb /\ m.applied = n.applied
<1>1. n = [type |-> n.type, tomb |-> n.tomb, applied |-> n.applied,
           rescaled |-> 0, score |-> n.score]
  BY DEF Node
<1>2. /\ n.type \in Type /\ n.tomb \in BOOLEAN /\ n.applied \in SUBSET Name
  BY DEF Node
<1> DEFINE k == [n EXCEPT !.rescaled = @ + 1]
<1>3. k = [type |-> n.type, tomb |-> n.tomb, applied |-> n.applied,
           rescaled |-> 1, score |-> n.score]
  BY <1>1
<1>4. m = [k EXCEPT !.score = "calibrated"]
  BY DEF k
<1> HIDE DEF k
<1>5. m = [type |-> n.type, tomb |-> n.tomb, applied |-> n.applied,
           rescaled |-> 1, score |-> "calibrated"]
  BY <1>3, <1>4
<1> QED
  BY <1>2, <1>5 DEF Node

LEMMA CreditNode ==
  ASSUME NEW n \in Node, NEW name \in Name,
         NEW m, m = [n EXCEPT !.applied = @ \cup {name}]
  PROVE  /\ m \in Node
         /\ m.rescaled = n.rescaled /\ m.score = n.score
         /\ m.type = n.type /\ m.tomb = n.tomb
         /\ m.applied = n.applied \cup {name}
<1>1. m = [type |-> n.type, tomb |-> n.tomb, applied |-> n.applied \cup {name},
           rescaled |-> n.rescaled, score |-> n.score]
  BY DEF Node
<1> QED
  BY <1>1 DEF Node

\* The marks of a success: types, scores, credit and nothing else.
LEMMA MarkedTree ==
  ASSUME NEW t, IsTree(t), Scored(t), NEW name \in Name
  PROVE  /\ IsTree(Marked(t, name))
         /\ Scored(Marked(t, name))
         /\ DOMAIN Marked(t, name) = DOMAIN t
         /\ \A b \in DOMAIN t :
              /\ Marked(t, name)[b].type = t[b].type
              /\ Marked(t, name)[b].tomb = t[b].tomb
              /\ Marked(t, name)[b].applied \subseteq t[b].applied \cup {name}
              /\ "READ" \in Permits[name] => name \in Marked(t, name)[b].applied
<1> DEFINE scored == IF name \in Calibrating THEN Calibrated(t) ELSE t
<1>1. /\ IsTree(scored) /\ Scored(scored) /\ DOMAIN scored = DOMAIN t
      /\ \A b \in DOMAIN t :
           /\ scored[b].type = t[b].type /\ scored[b].tomb = t[b].tomb
           /\ scored[b].applied = t[b].applied
  <2>1. CASE name \in Calibrating
    <3>1. DOMAIN scored = DOMAIN t
      BY <2>1 DEF Calibrated
    <3>2. ASSUME NEW b \in DOMAIN t
          PROVE  /\ scored[b] \in Node
                 /\ scored[b].rescaled = IF scored[b].score = "calibrated" THEN 1 ELSE 0
                 /\ scored[b].type = t[b].type /\ scored[b].tomb = t[b].tomb
                 /\ scored[b].applied = t[b].applied
      <4>1. t[b] \in Node /\ t[b].rescaled = IF t[b].score = "calibrated" THEN 1 ELSE 0
        BY DEF IsTree, Scored
      <4>2. scored[b] = IF t[b].score = "calibrated" THEN t[b]
                        ELSE [t[b] EXCEPT !.rescaled = @ + 1, !.score = "calibrated"]
        BY <2>1 DEF Calibrated
      <4>3. CASE t[b].score = "calibrated"
        BY <4>1, <4>2, <4>3
      <4>4. CASE t[b].score # "calibrated"
        BY <4>1, <4>2, <4>4, ScoreNode DEF Node
      <4> QED
        BY <4>3, <4>4
    <3>3. IsTree(scored)
      <4>1. scored = [b \in DOMAIN t |-> scored[b]]
        BY <2>1 DEF Calibrated
      <4> QED
        BY <3>1, <3>2, <4>1 DEF IsTree
    <3> QED
      BY <3>1, <3>2, <3>3 DEF Scored
  <2>2. CASE name \notin Calibrating
    BY <2>2
  <2> QED
    BY <2>1, <2>2
<1> HIDE DEF scored
<1>2. CASE "READ" \in Permits[name]
  <2>1. Marked(t, name) = Recorded(scored, name)
    BY <1>2 DEF Marked, scored
  <2>2. DOMAIN Marked(t, name) = DOMAIN t
    BY <1>1, <2>1 DEF Recorded
  <2>3. ASSUME NEW b \in DOMAIN t
        PROVE  /\ Marked(t, name)[b] = [scored[b] EXCEPT !.applied = @ \cup {name}]
               /\ scored[b] \in Node
    BY <1>1, <2>1 DEF Recorded, IsTree
  <2>4. ASSUME NEW b \in DOMAIN t
        PROVE  /\ Marked(t, name)[b] \in Node
               /\ Marked(t, name)[b].rescaled = scored[b].rescaled
               /\ Marked(t, name)[b].score = scored[b].score
               /\ Marked(t, name)[b].type = scored[b].type
               /\ Marked(t, name)[b].tomb = scored[b].tomb
               /\ Marked(t, name)[b].applied = scored[b].applied \cup {name}
    <3> DEFINE n == scored[b]
               m == Marked(t, name)[b]
    <3>1. n \in Node /\ m = [n EXCEPT !.applied = @ \cup {name}]
      BY <2>3
    <3> HIDE DEF n, m
    <3>2. /\ m \in Node
          /\ m.rescaled = n.rescaled /\ m.score = n.score
          /\ m.type = n.type /\ m.tomb = n.tomb
          /\ m.applied = n.applied \cup {name}
      BY <3>1, CreditNode
    <3> QED
      BY <3>2 DEF n, m
  <2>5. IsTree(Marked(t, name))
    <3>1. Marked(t, name) = [b \in DOMAIN t |-> Marked(t, name)[b]]
      BY <1>1, <2>1 DEF Recorded
    <3> QED
      BY <2>2, <2>4, <3>1 DEF IsTree
  <2> QED
    BY <1>1, <2>2, <2>4, <2>5 DEF Scored
<1>3. CASE "READ" \notin Permits[name]
  BY <1>1, <1>3 DEF Marked, scored
<1> QED
  BY <1>2, <1>3

-----------------------------------------------------------------------------
(* The invariant holds initially and is kept *)

LEMMA Initially == Init => IInv
<1> SUFFICES ASSUME Init PROVE IInv
  OBVIOUS
<1>1. PICK B \in SUBSET Original : tree \in [B -> {Fresh(ty) : ty \in Type}]
  BY DEF Init
<1>2. B \subseteq Block
  BY PipelineAssumption
<1>3. ASSUME NEW b \in B
      PROVE  /\ tree[b] \in Node /\ tree[b].rescaled = 0 /\ tree[b].score = "raw"
  <2>1. PICK ty \in Type : tree[b] = Fresh(ty)
    BY <1>1
  <2> QED
    BY <2>1, FreshNode
<1>4. IsTree(tree) /\ Scored(tree)
  <2>1. tree \in [B -> Node]
    BY <1>1, <1>3
  <2> QED
    BY <1>2, <1>3, <2>1 DEF IsTree, Scored
<1>5. /\ before = NoSnapshot /\ before.tree = <<>> /\ before.rg = <<>> /\ before.kg = {}
  BY DEF Init, NoSnapshot
<1>6. /\ rg = <<>> /\ kg = {} /\ step = 1 /\ phase = "idle" /\ failures = {}
      /\ ops = 0 /\ runs = 0
  BY DEF Init
<1>7. TypeOK
  <2>1. Len(Analyzers) \in Nat
    BY ManifestAssumption
  <2> QED
    BY <1>4, <1>5, <1>6, <2>1, EmptyTree, EmptySeq DEF TypeOK, NoSnapshot
<1> QED
  BY <1>4, <1>5, <1>6, <1>7, EmptyTree, EmptyGraph DEF IInv, Since

LEMMA CurrentName ==
  ASSUME TypeOK, phase = "running"
  PROVE  Current \in Name
  BY ManifestAssumption DEF TypeOK, Current

LEMMA ExecuteKeeps == ASSUME IInv, Execute PROVE IInv'
<1>1. TypeOK'
  <2>1. Len(Analyzers) \in Nat
    BY ManifestAssumption
  <2> QED
    BY <2>1, EmptySeq, PipelineAssumption DEF IInv, TypeOK, Execute
<1> QED
  BY <1>1, EmptyGraph DEF IInv, Since, Execute, Scored, AllAcyclic

\* At its start an analyzer has changed nothing.
LEMMA BeginKeeps == ASSUME IInv, Begin PROVE IInv'
<1>1. before' = [tree |-> tree, rg |-> rg, kg |-> kg]
  BY DEF Begin
<1>2. before'.tree = tree /\ before'.rg = rg /\ before'.kg = kg
  BY <1>1
<1>3. UNCHANGED <<tree, rg, kg, step, failures, ops, runs>> /\ phase' = "running"
  BY DEF Begin
<1>4. TypeOK'
  BY <1>1, <1>2, <1>3 DEF IInv, TypeOK, Begin
<1>5. AllAcyclic(rg)' /\ AllAcyclic(before.rg)'
  BY <1>2, <1>3 DEF IInv, AllAcyclic
<1>6. Scored(tree)' /\ Scored(before.tree)'
  BY <1>2, <1>3 DEF IInv, Scored
<1>7. GraphsGrown'
  <2>1. Len(rg) \in Nat
    BY DEF IInv, TypeOK
  <2> QED
    BY <1>2, <1>3, <2>1 DEF GraphsGrown
<1>8. NothingCredited'
  <2>1. ASSUME NEW b \in DOMAIN tree
        PROVE  tree[b].applied \subseteq Named(tree)
    BY DEF Named
  <2> QED
    BY <1>2, <1>3, <2>1 DEF NothingCredited
<1> QED
  BY <1>4, <1>5, <1>6, <1>7, <1>8 DEF IInv, Since

LEMMA FinishKeeps == ASSUME IInv, Finish PROVE IInv'
<1>1. TypeOK'
  BY DEF IInv, TypeOK, Finish
<1> QED
  BY <1>1 DEF IInv, Since, Finish, Scored, AllAcyclic

\* Dropping the snapshot.
LEMMA NoSnapshotFits ==
  /\ NoSnapshot = [tree |-> NoSnapshot.tree, rg |-> NoSnapshot.rg, kg |-> NoSnapshot.kg]
  /\ IsTree(NoSnapshot.tree) /\ NoSnapshot.rg \in Seq(Step) /\ NoSnapshot.kg \in SUBSET Block
  /\ Scored(NoSnapshot.tree) /\ AllAcyclic(NoSnapshot.rg)
<1>1. NoSnapshot.tree = <<>> /\ NoSnapshot.rg = <<>> /\ NoSnapshot.kg = {}
  BY DEF NoSnapshot
<1> QED
  BY <1>1, EmptyTree, EmptyGraph, EmptySeq DEF NoSnapshot

\* Succeeds marks the tree and leaves the graphs.
LEMMA SucceedsKeeps == ASSUME IInv, Succeeds PROVE IInv'
<1>1. /\ tree' = Marked(tree, Current) /\ before' = NoSnapshot
      /\ step' = step + 1 /\ phase' = "between" /\ ops' = 0
      /\ UNCHANGED <<rg, kg, failures, runs>> /\ phase = "running"
  BY DEF Succeeds
<1>2. IsTree(tree)' /\ Scored(tree)'
  BY <1>1, CurrentName, MarkedTree DEF IInv, TypeOK
<1>3. TypeOK'
  <2>1. Len(Analyzers) \in Nat
    BY ManifestAssumption
  <2> QED
    BY <1>1, <1>2, <2>1, NoSnapshotFits DEF IInv, TypeOK
<1>4. AllAcyclic(rg)' /\ AllAcyclic(before.rg)' /\ Scored(before.tree)'
  BY <1>1, NoSnapshotFits DEF IInv, AllAcyclic
<1> QED
  BY <1>1, <1>2, <1>3, <1>4 DEF IInv, Since

LEMMA RollsBackKeeps == ASSUME IInv, phase = "running", RollsBack PROVE IInv'
<1>1. /\ tree' = before.tree /\ rg' = before.rg /\ kg' = before.kg
      /\ failures' = failures \cup {Current} /\ before' = NoSnapshot
      /\ step' = step + 1 /\ phase' = "between" /\ ops' = 0 /\ runs' = runs
  BY DEF RollsBack, Restored
<1>2. TypeOK'
  <2>1. Len(Analyzers) \in Nat
    BY ManifestAssumption
  <2>2. Current \in Name
    BY CurrentName DEF IInv
  <2> QED
    BY <1>1, <2>1, <2>2, NoSnapshotFits DEF IInv, TypeOK
<1>3. AllAcyclic(rg)' /\ AllAcyclic(before.rg)' /\ Scored(tree)' /\ Scored(before.tree)'
  BY <1>1, NoSnapshotFits DEF IInv, AllAcyclic
<1> QED
  BY <1>1, <1>2, <1>3 DEF IInv, Since

LEMMA AbortedKeeps == ASSUME IInv, Aborted PROVE IInv'
<1>1. /\ before' = NoSnapshot /\ phase' = "aborted" /\ ops' = 0
      /\ UNCHANGED <<tree, rg, kg, step, failures, runs>>
  BY DEF Aborted
<1>2. TypeOK'
  BY <1>1, NoSnapshotFits DEF IInv, TypeOK
<1>3. AllAcyclic(rg)' /\ AllAcyclic(before.rg)' /\ Scored(tree)' /\ Scored(before.tree)'
  BY <1>1, NoSnapshotFits DEF IInv, AllAcyclic, Scored
<1> QED
  BY <1>1, <1>2, <1>3 DEF IInv, Since

-----------------------------------------------------------------------------
(* The invariant is kept by the changes of the analyzers *)

\* A change of blocks that keeps the marks of those that stay.
LEMMA TreeChangeKeeps ==
  ASSUME IInv, Working, UNCHANGED <<rg, kg>>,
         IsTree(tree'), Scored(tree'), NothingCredited'
  PROVE  IInv'
<1>1. /\ phase = "running" /\ ops' = ops + 1
      /\ UNCHANGED <<rg, kg, step, phase, before, failures, runs>>
  BY DEF Working
<1>2. TypeOK'
  BY <1>1 DEF IInv, TypeOK
<1>3. GraphsGrown'
  BY <1>1 DEF IInv, Since, GraphsGrown, Current, May
<1>4. AllAcyclic(rg)' /\ AllAcyclic(before.rg)' /\ Scored(before.tree)'
  BY <1>1 DEF IInv, AllAcyclic, Scored
<1> QED
  BY <1>1, <1>2, <1>3, <1>4 DEF IInv, Since

\* One block more, which credits nobody.
LEMMA AddBlockKeeps ==
  ASSUME IInv, NEW b \in Block, NEW n \in Node, AddBlock(b, n),
         n.rescaled = 0, n.score = "raw", n.applied \subseteq Named(before.tree)
  PROVE  IInv'
<1>1. /\ Working /\ UNCHANGED <<rg, kg>> /\ b \notin DOMAIN tree
      /\ tree' = [x \in DOMAIN tree \cup {b} |-> IF x = b THEN n ELSE tree[x]]
  BY DEF AddBlock, Reaching
<1>2. /\ phase = "running" /\ before' = before
      /\ IsTree(tree) /\ Scored(tree) /\ NothingCredited
  BY <1>1 DEF Working, IInv, TypeOK, Since
<1>3. DOMAIN tree' = DOMAIN tree \cup {b}
  BY <1>1
<1>4. ASSUME NEW x \in DOMAIN tree'
      PROVE  /\ tree'[x] \in Node
             /\ tree'[x].rescaled = IF tree'[x].score = "calibrated" THEN 1 ELSE 0
             /\ tree'[x].applied \subseteq Named(before.tree)
  <2>1. CASE x = b
    BY <1>1, <2>1
  <2>2. CASE x # b
    <3>1. x \in DOMAIN tree /\ tree'[x] = tree[x]
      BY <1>1, <1>3, <2>2
    <3> QED
      BY <1>2, <3>1 DEF IsTree, Scored, NothingCredited
  <2> QED
    BY <2>1, <2>2
<1>5. IsTree(tree')
  <2>1. tree' \in [DOMAIN tree \cup {b} -> Node]
    BY <1>1, <1>3, <1>4
  <2> QED
    BY <1>2, <1>3, <2>1 DEF IsTree
<1>6. Scored(tree') /\ NothingCredited'
  BY <1>2, <1>4 DEF Scored, NothingCredited
<1> QED
  BY <1>1, <1>5, <1>6, TreeChangeKeeps

LEMMA InsertKeeps ==
  ASSUME IInv, NEW b \in Block, NEW ty \in Type, Insert(b, ty)
  PROVE  IInv'
  BY FreshNode, AddBlockKeeps DEF Insert

LEMMA SplitKeeps ==
  ASSUME IInv, NEW b \in Block, NEW of \in Block, Split(b, of)
  PROVE  IInv'
<1> DEFINE n == Piece(tree[of])
<1>1. AddBlock(b, n) /\ of \in DOMAIN tree
  BY DEF Split
<1>2. /\ tree[of] \in Node
      /\ tree[of].applied \subseteq Named(before.tree)
  BY <1>1 DEF AddBlock, Reaching, Working, IInv, TypeOK, IsTree, Since, NothingCredited
<1>3. tree[of].type \in Type /\ tree[of].applied \in SUBSET Name
  BY <1>2 DEF Node
<1>4. n = [type |-> tree[of].type, tomb |-> FALSE, applied |-> tree[of].applied,
           rescaled |-> 0, score |-> "raw"]
  <2> DEFINE f == Fresh(tree[of].type)
  <2>1. f = [type |-> tree[of].type, tomb |-> FALSE, applied |-> {},
             rescaled |-> 0, score |-> "raw"]
    BY DEF Fresh
  <2>2. n = [f EXCEPT !.applied = tree[of].applied]
    BY DEF Piece
  <2> HIDE DEF f, n
  <2> QED
    BY <2>1, <2>2
<1> HIDE DEF n
<1>5. n \in Node /\ n.rescaled = 0 /\ n.score = "raw" /\ n.applied = tree[of].applied
  BY <1>3, <1>4 DEF Node
<1> QED
  BY <1>1, <1>2, <1>5, AddBlockKeeps

LEMMA DeleteKeeps ==
  ASSUME IInv, NEW b \in Block, Delete(b)
  PROVE  IInv'
<1>1. /\ Working /\ UNCHANGED <<rg, kg>>
      /\ tree' = [x \in DOMAIN tree \ {b} |-> tree[x]]
  BY DEF Delete, Reaching, Restrict
<1>2. /\ phase = "running" /\ before' = before
      /\ IsTree(tree) /\ Scored(tree) /\ NothingCredited
  BY <1>1 DEF Working, IInv, TypeOK, Since
<1>3. /\ DOMAIN tree' = DOMAIN tree \ {b}
      /\ \A x \in DOMAIN tree' : tree'[x] = tree[x]
  BY <1>1
<1>4. IsTree(tree')
  <2>1. \A x \in DOMAIN tree \ {b} : tree[x] \in Node
    BY <1>2 DEF IsTree
  <2>2. tree' \in [DOMAIN tree \ {b} -> Node]
    BY <1>1, <2>1
  <2> QED
    BY <1>2, <1>3, <2>2 DEF IsTree
<1>5. Scored(tree') /\ NothingCredited'
  BY <1>2, <1>3 DEF Scored, NothingCredited
<1> QED
  BY <1>1, <1>4, <1>5, TreeChangeKeeps

\* What a change of class or tombstone leaves of a block.
LEMMA ChangedNode ==
  ASSUME NEW n \in Node, NEW ty \in Type, NEW m,
         m = [n EXCEPT !.type = ty] \/ m = [n EXCEPT !.tomb = ~@]
  PROVE  /\ m \in Node
         /\ m.rescaled = n.rescaled /\ m.score = n.score /\ m.applied = n.applied
<1>1. /\ n.type \in Type /\ n.tomb \in BOOLEAN /\ n.applied \in SUBSET Name
      /\ n.rescaled \in Nat /\ n.score \in {"raw", "calibrated"}
  BY DEF Node
<1>2. CASE m = [n EXCEPT !.type = ty]
  <2>1. m = [type |-> ty, tomb |-> n.tomb, applied |-> n.applied,
             rescaled |-> n.rescaled, score |-> n.score]
    BY <1>2 DEF Node
  <2> QED
    BY <1>1, <2>1 DEF Node
<1>3. CASE m = [n EXCEPT !.tomb = ~@]
  <2>1. m = [type |-> n.type, tomb |-> ~n.tomb, applied |-> n.applied,
             rescaled |-> n.rescaled, score |-> n.score]
    BY <1>3 DEF Node
  <2>2. (~n.tomb) \in BOOLEAN
    OBVIOUS
  <2> QED
    BY <1>1, <2>1, <2>2 DEF Node
<1> QED
  BY <1>2, <1>3

\* One block changes, its marks do not, or it loses them.
LEMMA BlockChangeKeeps ==
  ASSUME IInv, Working, UNCHANGED <<rg, kg>>, NEW b \in DOMAIN tree, NEW m \in Node,
         tree' = [tree EXCEPT ![b] = m],
         m.rescaled = IF m.score = "calibrated" THEN 1 ELSE 0,
         m.applied \subseteq tree[b].applied
  PROVE  IInv'
<1>2. /\ phase = "running" /\ before' = before
      /\ IsTree(tree) /\ Scored(tree) /\ NothingCredited
  BY DEF Working, IInv, TypeOK, Since
<1>3. /\ DOMAIN tree' = DOMAIN tree
      /\ \A x \in DOMAIN tree : tree'[x] = IF x = b THEN m ELSE tree[x]
  BY <1>2 DEF IsTree
<1>4. IsTree(tree')
  <2>1. tree' \in [DOMAIN tree -> Node]
    BY <1>2 DEF IsTree
  <2> QED
    BY <1>2, <1>3, <2>1 DEF IsTree
<1>5. Scored(tree') /\ NothingCredited'
  BY <1>2, <1>3 DEF Scored, NothingCredited
<1> QED
  BY <1>4, <1>5, TreeChangeKeeps

LEMMA TransformKeeps ==
  ASSUME IInv, NEW b \in Block, NEW ty \in Type, Transform(b, ty)
  PROVE  IInv'
<1> DEFINE n == tree[b]
<1>1. /\ Working /\ UNCHANGED <<rg, kg>> /\ b \in DOMAIN tree
  BY DEF Transform, Reaching
<1>2. PICK m \in {[n EXCEPT !.type = ty], Fresh(ty)} : tree' = [tree EXCEPT ![b] = m]
  BY DEF Transform
<1>3. n \in Node /\ n.rescaled = IF n.score = "calibrated" THEN 1 ELSE 0
  BY <1>1 DEF IInv, TypeOK, IsTree, Scored
<1> HIDE DEF n
<1>4. /\ m \in Node /\ m.applied \subseteq n.applied
      /\ m.rescaled = IF m.score = "calibrated" THEN 1 ELSE 0
  <2>1. CASE m = [n EXCEPT !.type = ty]
    BY <1>3, <2>1, ChangedNode
  <2>2. CASE m = Fresh(ty)
    BY <2>2, FreshNode
  <2> QED
    BY <1>2, <2>1, <2>2
<1> QED
  BY <1>1, <1>2, <1>4, BlockChangeKeeps DEF n

LEMMA SetTombstoneKeeps ==
  ASSUME IInv, NEW b \in Block, SetTombstone(b)
  PROVE  IInv'
<1> DEFINE n == tree[b]
           m == [n EXCEPT !.tomb = ~@]
<1>1. /\ Working /\ UNCHANGED <<rg, kg>> /\ b \in DOMAIN tree
      /\ tree' = [tree EXCEPT ![b] = m]
  BY DEF SetTombstone, Reaching
<1>2. n \in Node /\ n.type \in Type /\ n.rescaled = IF n.score = "calibrated" THEN 1 ELSE 0
  BY <1>1 DEF IInv, TypeOK, IsTree, Node, Scored
<1> HIDE DEF n
<1>3. /\ m \in Node
      /\ m.rescaled = n.rescaled /\ m.score = n.score /\ m.applied = n.applied
  BY <1>2, ChangedNode
<1> HIDE DEF m
<1> QED
  BY <1>1, <1>2, <1>3, BlockChangeKeeps DEF n

-----------------------------------------------------------------------------
(* The invariant is kept by the calls of the graphs *)

\* An accepted step at the end of the Reading Graph.
LEMMA OneMoreStepKeeps ==
  ASSUME IInv, NEW e \in Step, phase = "running", May("RG_MUTATE_EDGES"),
         e.by = Current, Accepts(rg, e), rg' = Append(rg, e), ops' = ops + 1,
         UNCHANGED <<tree, kg, step, phase, before, failures, runs>>
  PROVE  IInv'
<1>1. TypeOK'
  <2>1. rg' \in Seq(Step)
    BY AppendProperties DEF IInv, TypeOK
  <2> QED
    BY <2>1 DEF IInv, TypeOK
<1>2. AllAcyclic(rg)'
  <2>1. AllAcyclic(Append(rg, e))
    BY AcceptedStep DEF IInv, TypeOK
  <2> QED
    BY <2>1 DEF AllAcyclic
<1>3. AllAcyclic(before.rg)' /\ Scored(tree)' /\ Scored(before.tree)'
  BY DEF IInv, AllAcyclic, Scored
<1>4. GraphsGrown'
  <2>1. /\ rg \in Seq(Step) /\ GraphsGrown
        /\ before.rg \in Seq(Step)
    BY DEF IInv, TypeOK, Since
  <2>2. /\ Len(rg') = Len(rg) + 1 /\ Len(rg) \in Nat /\ Len(before.rg) \in Nat
        /\ \A i \in 1..Len(rg) : rg'[i] = rg[i]
        /\ rg'[Len(rg) + 1] = e
    BY <2>1, AppendProperties
  <2>3. Len(before.rg) <= Len(rg')
    BY <2>1, <2>2 DEF GraphsGrown
  <2>4. \A i \in 1..Len(before.rg) : rg'[i] = before.rg[i]
    BY <2>1, <2>2 DEF GraphsGrown
  <2>5. ASSUME NEW i \in 1..Len(rg'), i > Len(before.rg)
        PROVE  rg'[i].by = Current /\ May("RG_MUTATE_EDGES")
    <3>1. CASE i = Len(rg) + 1
      BY <2>2, <3>1
    <3>2. CASE i # Len(rg) + 1
      <4>1. i \in 1..Len(rg)
        BY <2>2, <3>2
      <4> QED
        BY <2>1, <2>2, <2>5, <4>1 DEF GraphsGrown
    <3> QED
      BY <3>1, <3>2
  <2>6. Current' = Current /\ (May("RG_MUTATE_EDGES") <=> May("RG_MUTATE_EDGES")')
        /\ (May("KG_MUTATE_EDGES") <=> May("KG_MUTATE_EDGES")')
    BY DEF Current, May
  <2>7. before.kg \subseteq kg /\ (kg # before.kg => May("KG_MUTATE_EDGES"))
    BY <2>1 DEF GraphsGrown
  <2> QED
    BY <2>3, <2>4, <2>5, <2>6, <2>7 DEF GraphsGrown
<1>5. NothingCredited'
  BY DEF IInv, Since, NothingCredited
<1> QED
  BY <1>1, <1>2, <1>3, <1>4, <1>5 DEF IInv, Since

LEMMA AddStepKeeps ==
  ASSUME IInv, NEW e, AddStep(e),
         e.source \in Block, e.target \in Block, e.track \in Track,
         e = [source |-> e.source, target |-> e.target, track |-> e.track, by |-> Current]
  PROVE  IInv'
<1>1. phase = "running" /\ Current \in Name
  BY CurrentName DEF AddStep, Working, IInv
<1>2. e \in Step
  BY <1>1 DEF Step
<1> QED
  BY <1>1, <1>2, OneMoreStepKeeps DEF AddStep, Working

LEMMA AddEdgeKeeps ==
  ASSUME IInv, NEW b \in Block, AddEdge(b)
  PROVE  IInv'
<1>1. /\ phase = "running" /\ May("KG_MUTATE_EDGES") /\ kg' = kg \cup {b}
      /\ ops' = ops + 1
      /\ UNCHANGED <<tree, rg, step, phase, before, failures, runs>>
  BY DEF AddEdge, Working
<1>2. TypeOK'
  BY <1>1 DEF IInv, TypeOK
<1>3. GraphsGrown' /\ NothingCredited'
  BY <1>1 DEF IInv, Since, GraphsGrown, NothingCredited, Current, May
<1> QED
  BY <1>1, <1>2, <1>3 DEF IInv, Since, AllAcyclic, Scored

\* ReadingOrderAnalyzer: one more step, or a rollback.
LEMMA OrdersReadingKeeps == ASSUME IInv, OrdersReading PROVE IInv'
<1>1. phase = "running" /\ Current = ReadingOrder /\ May("RG_MUTATE_EDGES")
  BY ManifestAssumption DEF OrdersReading, May
<1>2. PICK e \in Step :
        /\ e.by = Current
        /\ IF Accepts(rg, e)
           THEN /\ rg' = Append(rg, e) /\ ops' = ops + 1
                /\ UNCHANGED <<tree, kg, step, phase, before, failures, runs>>
           ELSE RollsBack
  BY DEF OrdersReading
<1>3. CASE ~Accepts(rg, e)
  BY <1>1, <1>2, <1>3, RollsBackKeeps
<1>4. CASE Accepts(rg, e)
  BY <1>1, <1>2, <1>4, OneMoreStepKeeps
<1> QED
  BY <1>3, <1>4

LEMMA ChangeKeeps == ASSUME IInv, Change PROVE IInv'
<1>1. CASE \E b \in Block, ty \in Type : Insert(b, ty) \/ Transform(b, ty)
  BY <1>1, InsertKeeps, TransformKeeps
<1>2. CASE \E b, of \in Block : Split(b, of)
  BY <1>2, SplitKeeps
<1>3. CASE \E b \in Block : Delete(b) \/ SetTombstone(b) \/ AddEdge(b)
  BY <1>3, DeleteKeeps, SetTombstoneKeeps, AddEdgeKeeps
<1>4. CASE \E s, t \in Block, track \in Track :
             AddStep([source |-> s, target |-> t, track |-> track, by |-> Current])
  <2>1. PICK s \in Block, t \in Block, track \in Track :
          AddStep([source |-> s, target |-> t, track |-> track, by |-> Current])
    BY <1>4
  <2> DEFINE e == [source |-> s, target |-> t, track |-> track, by |-> Current]
  <2>2. AddStep(e)
    BY <2>1
  <2>3. /\ e.source \in Block /\ e.target \in Block /\ e.track \in Track
        /\ e = [source |-> e.source, target |-> e.target, track |-> e.track, by |-> Current]
    OBVIOUS
  <2> HIDE DEF e
  <2> QED
    BY <2>2, <2>3, AddStepKeeps
<1> QED
  BY <1>1, <1>2, <1>3, <1>4 DEF Change

LEMMA StepKeeps == ASSUME IInv, Next PROVE IInv'
<1>1. CASE Execute
  BY <1>1, ExecuteKeeps
<1>2. CASE Begin
  BY <1>2, BeginKeeps
<1>3. CASE Finish
  BY <1>3, FinishKeeps
<1>4. CASE Succeeds
  BY <1>4, SucceedsKeeps
<1>5. CASE Fails
  BY <1>5, RollsBackKeeps DEF Fails
<1>6. CASE Refused \/ Denied
  BY <1>6, AbortedKeeps DEF Refused, Denied
<1>7. CASE Change
  BY <1>7, ChangeKeeps
<1>8. CASE OrdersReading
  BY <1>8, OrdersReadingKeeps
<1> QED
  BY <1>1, <1>2, <1>3, <1>4, <1>5, <1>6, <1>7, <1>8 DEF Next

LEMMA StutterKeeps == ASSUME IInv, UNCHANGED vars PROVE IInv'
<1>1. UNCHANGED <<tree, rg, kg, step, phase, before, failures, ops, runs>>
  BY DEF vars
<1>2. TypeOK'
  BY <1>1 DEF IInv, TypeOK
<1>3. AllAcyclic(rg)' /\ AllAcyclic(before.rg)' /\ Scored(tree)' /\ Scored(before.tree)'
  BY <1>1 DEF IInv, AllAcyclic, Scored
<1>4. Since'
  BY <1>1 DEF IInv, Since, GraphsGrown, NothingCredited, May, Current
<1> QED
  BY <1>2, <1>3, <1>4 DEF IInv

\* The inductive invariant of the pipeline.
THEOREM Invariance == Spec => []IInv
<1>1. IInv /\ [Next]_vars => IInv'
  BY StepKeeps, StutterKeeps
<1> QED
  BY Initially, <1>1, PTL DEF Spec

\* Trees, graphs and the control state of an execution keep their types.
THEOREM TypeCorrect == Spec => []TypeOK
<1>1. IInv => TypeOK
  BY DEF IInv
<1> QED
  BY <1>1, Invariance, PTL

\* No track of the Reading Graph ever holds a cycle: add_step's search decides.
THEOREM NoCycles == Spec => []TracksAcyclic
<1>1. IInv => TracksAcyclic
  BY DEF IInv, AllAcyclic, TracksAcyclic
<1> QED
  BY <1>1, Invariance, PTL

\* _calibrate_confidences rescales no confidence twice.
THEOREM RescaledOnce == Spec => []CalibratedOnce
<1>1. IInv => CalibratedOnce
  BY DEF IInv, Scored, CalibratedOnce
<1> QED
  BY <1>1, Invariance, PTL

-----------------------------------------------------------------------------
(* The pipeline implements the contract *)

\* The state of the contract, as Contract substitutes it.
SeenTree == IF phase = "running" THEN before.tree ELSE tree
SeenRg == IF phase = "running" THEN before.rg ELSE rg
SeenKg == IF phase = "running" THEN before.kg ELSE kg
SeenState == IF phase \in {"between", "running"} THEN "executing" ELSE phase

LEMMA PrefixOfGrown ==
  ASSUME NEW s \in Seq(Step), NEW t \in Seq(Step), Len(s) <= Len(t),
         \A i \in 1..Len(s) : t[i] = s[i]
  PROVE  IsPrefix(s, t)
<1>1. Len(s) \in Nat /\ Len(t) \in Nat
  OBVIOUS
<1>2. /\ SubSeq(s, 1, Len(s)) = [i \in 1..Len(s) |-> s[i]]
      /\ SubSeq(t, 1, Len(s)) = [i \in 1..Len(s) |-> t[i]]
  BY <1>1
<1> QED
  BY <1>1, <1>2 DEF IsPrefix

\* A success is a commit: declared, credited, and the graphs have grown.
LEMMA SucceedsCommits ==
  ASSUME IInv, Succeeds
  PROVE  Contract!Commit
<1> DEFINE name == Current
<1>1. /\ tree' = Marked(tree, name) /\ before' = NoSnapshot
      /\ step' = step + 1 /\ phase' = "between" /\ phase = "running"
      /\ UNCHANGED <<rg, kg, failures, runs>>
      /\ Declared(before.tree, tree, Permits[name])
  BY DEF Succeeds
<1>2. /\ name \in Name /\ IsTree(tree) /\ Scored(tree) /\ step <= Len(Analyzers)
      /\ rg \in Seq(Step) /\ before.rg \in Seq(Step)
      /\ GraphsGrown /\ NothingCredited
  BY <1>1, CurrentName DEF IInv, TypeOK, Since
<1>3. /\ DOMAIN tree' = DOMAIN tree
      /\ \A b \in DOMAIN tree :
           /\ tree'[b].type = tree[b].type
           /\ tree'[b].tomb = tree[b].tomb
           /\ tree'[b].applied \subseteq tree[b].applied \cup {name}
           /\ "READ" \in Permits[name] => name \in tree'[b].applied
  BY <1>1, <1>2, MarkedTree
<1>4. name = Analyzers[step]
  BY DEF Current
<1> HIDE DEF name
<1>5. /\ SeenTree = before.tree /\ SeenTree' = tree' /\ SeenRg = before.rg /\ SeenRg' = rg
      /\ SeenKg = before.kg /\ SeenKg' = kg
      /\ SeenState = "executing" /\ SeenState' = "executing"
  BY <1>1 DEF SeenTree, SeenRg, SeenKg, SeenState
<1>6. Contract!Turn
  BY <1>2, <1>5 DEF Contract!Turn, SeenState
<1>7. Contract!Declared(SeenTree, SeenTree', Permits[Analyzers[step]])
  BY <1>1, <1>3, <1>4, <1>5 DEF Contract!Declared, Declared
<1>8. Contract!Credited(Analyzers[step])
  <2>1. ASSUME NEW b \in DOMAIN tree'
        PROVE  /\ "READ" \in Permits[name] => name \in tree'[b].applied
               /\ tree'[b].applied \subseteq {name} \cup Named(before.tree)
    BY <1>2, <1>3 DEF NothingCredited
  <2> QED
    BY <1>4, <1>5, <2>1 DEF Contract!Credited, Contract!Named, Named, SeenTree
<1>9. Contract!GraphsGrow(Analyzers[step])
  <2>1. /\ Len(before.rg) <= Len(rg)
        /\ \A i \in 1..Len(before.rg) : rg[i] = before.rg[i]
        /\ \A i \in 1..Len(rg) : i > Len(before.rg) =>
             rg[i].by = name /\ "RG_MUTATE_EDGES" \in Permits[name]
        /\ before.kg \subseteq kg
        /\ kg # before.kg => "KG_MUTATE_EDGES" \in Permits[name]
    BY <1>2 DEF GraphsGrown, May, name
  <2>2. IsPrefix(before.rg, rg)
    BY <1>2, <2>1, PrefixOfGrown
  <2>3. Len(before.rg) \in Nat /\ Len(rg) \in Nat
        /\ DOMAIN rg = 1..Len(rg) /\ DOMAIN before.rg = 1..Len(before.rg)
    BY <1>2
  <2>4. \A i \in DOMAIN rg \ DOMAIN before.rg : rg[i].by = name
    BY <2>1, <2>3
  <2>5. rg # before.rg => "RG_MUTATE_EDGES" \in Permits[name]
    <3>1. CASE Len(rg) = Len(before.rg)
      <4>1. rg = before.rg
        BY <1>2, <2>1, <3>1, SeqEqual
      <4> QED
        BY <4>1
    <3>2. CASE Len(rg) # Len(before.rg)
      BY <2>1, <2>3, <3>2
    <3> QED
      BY <3>1, <3>2
  <2> QED
    BY <1>4, <1>5, <2>1, <2>2, <2>4, <2>5
       DEF Contract!GraphsGrow, Contract!IsPrefix, IsPrefix, SeenRg, SeenKg
<1> QED
  BY <1>1, <1>5, <1>6, <1>7, <1>8, <1>9
     DEF Contract!Commit, SeenTree, SeenState

\* A rollback is invisible but for the failure.
LEMMA RollbackFails ==
  ASSUME IInv, phase = "running", RollsBack
  PROVE  Contract!Fail
<1>1. /\ tree' = before.tree /\ rg' = before.rg /\ kg' = before.kg
      /\ failures' = failures \cup {Analyzers[step]}
      /\ step' = step + 1 /\ phase' = "between" /\ step <= Len(Analyzers)
  BY DEF RollsBack, Restored, Current, IInv, TypeOK
<1> QED
  BY <1>1 DEF Contract!Fail, Contract!Turn

LEMMA AbortedAborts ==
  ASSUME IInv, phase = "running", Aborted
  PROVE  Contract!Abort
  BY DEF Aborted, IInv, TypeOK, Contract!Abort, Contract!Turn

\* Until its outcome an analyzer's work is not visible.
LEMMA WorkIsInvisible ==
  ASSUME phase = "running",
         UNCHANGED <<step, phase, before, failures>>
  PROVE  UNCHANGED Contract!vars
  BY DEF Contract!vars

LEMMA StepRefines == ASSUME IInv, Next PROVE Contract!Next \/ UNCHANGED Contract!vars
<1>1. CASE Execute
  BY <1>1 DEF Execute, Contract!Next, Contract!Start
<1>2. CASE Begin
  <2>1. before'.tree = tree /\ before'.rg = rg /\ before'.kg = kg
    BY <1>2 DEF Begin
  <2> QED
    BY <1>2, <2>1 DEF Begin, Contract!vars
<1>3. CASE Finish
  BY <1>3 DEF Finish, Contract!Next, Contract!End
<1>4. CASE Succeeds
  BY <1>4, SucceedsCommits DEF Contract!Next
<1>5. CASE Fails
  BY <1>5, RollbackFails DEF Fails, Contract!Next
<1>6. CASE Refused \/ Denied
  BY <1>6, AbortedAborts DEF Refused, Denied, Contract!Next
<1>7. CASE Change
  <2>1. phase = "running" /\ UNCHANGED <<step, phase, before, failures>>
    BY <1>7 DEF Change, Reaching, AddBlock, Insert, Split, Delete, Transform, SetTombstone, AddStep, AddEdge, Working
  <2> QED
    BY <2>1, WorkIsInvisible
<1>8. CASE OrdersReading
  <2>1. CASE RollsBack
    BY <1>8, <2>1, RollbackFails DEF OrdersReading, Contract!Next
  <2>2. CASE UNCHANGED <<tree, kg, step, phase, before, failures, runs>>
    BY <1>8, <2>2, WorkIsInvisible DEF OrdersReading
  <2> QED
    BY <1>8, <2>1, <2>2 DEF OrdersReading
<1> QED
  BY <1>1, <1>2, <1>3, <1>4, <1>5, <1>6, <1>7, <1>8 DEF Next

\* A failed analyzer leaves nothing, a successful one what it declared, with
\* its name on every block: the pipeline implements the contract.
THEOREM Refinement == Spec => ImplementsContract
<1>1. Init => Contract!Init
  BY DEF Init, Contract!Init
<1>2. UNCHANGED vars => UNCHANGED Contract!vars
  BY DEF vars, Contract!vars
<1>3. IInv /\ [Next]_vars => [Contract!Next]_(Contract!vars)
  BY <1>2, StepRefines
<1> QED
  BY <1>1, <1>3, Invariance, PTL DEF Spec, ImplementsContract, Contract!Spec

-----------------------------------------------------------------------------
(* Chains of the Reading Graph *)

\* The steps that lead on from what was seen of a chain.
Onward(graph, track, seen) ==
  {i \in DOMAIN graph :
     /\ graph[i].source = Last(seen)
     /\ graph[i].track = track
     /\ graph[i].target \notin Range(seen)}

\* One hop of get_sequence.
Hop(graph, track, seen) ==
  LET out == Onward(graph, track, seen)
  IN  IF out = {} THEN seen ELSE Append(seen, graph[Min(out)].target)

\* What get_sequence's function is at each index.
HopSteps(f, graph, root, track) ==
  f[0] = <<root>> /\ \A n \in 1..Cardinality(Block) : f[n] = Hop(graph, track, f[n - 1])

\* There are as many blocks as a number says.
LEMMA BlocksCount == Cardinality(Block) \in Nat
  BY FlowAssumption, FS_CardinalityType

\* The least of some numbers is one of them.
LEMMA MinOf ==
  ASSUME NEW N \in SUBSET Nat, N # {}
  PROVE  Min(N) \in N /\ \A n \in N : Min(N) <= n
  BY LeastOf DEF Min

\* A hop leads from blocks to blocks.
LEMMA HopType ==
  ASSUME NEW graph \in Seq(Step), NEW track, NEW seen \in Seq(Block)
  PROVE  Hop(graph, track, seen) \in Seq(Block)
<1> DEFINE out == Onward(graph, track, seen)
<1>1. CASE out = {}
  BY <1>1 DEF Hop
<1>2. CASE out # {}
  <2>1. out \in SUBSET Nat /\ out \subseteq DOMAIN graph
    BY DEF Onward
  <2> HIDE DEF out
  <2>2. Min(out) \in DOMAIN graph
    BY <1>2, <2>1, MinOf
  <2>3. graph[Min(out)] \in Step
    BY <2>2
  <2>4. graph[Min(out)].target \in Block
    BY <2>3 DEF Step
  <2> QED
    BY <1>2, <2>4 DEF Hop, out
<1> QED
  BY <1>1, <1>2

\* get_sequence is such a function.
LEMMA SequenceIs ==
  ASSUME NEW graph \in Seq(Step), NEW root \in Block, NEW track
  PROVE  \E f \in [0..Cardinality(Block) -> Seq(Block)] :
           /\ HopSteps(f, graph, root, track)
           /\ get_sequence(graph, root, track) = f[Cardinality(Block)]
<1> DEFINE N == Cardinality(Block)
           F == [p \in (1..N) \X Seq(Block) |-> Hop(graph, track, p[2])]
           Is(f) == f = [n \in 0..N |-> IF n = 0 THEN <<root>> ELSE Hop(graph, track, f[n - 1])]
           g == CHOOSE f : Is(f)
<1>1. N \in Nat /\ <<root>> \in Seq(Block)
  BY BlocksCount
<1>2. get_sequence(graph, root, track) = g[N]
  BY DEF get_sequence, Hop, Onward
<1> HIDE DEF N
<1>3. F \in [(1..N) \X Seq(Block) -> Seq(Block)]
  BY HopType
<1>4. PICK f \in [0..N -> Seq(Block)] : Recursion(f, N, <<root>>, F)
  <2> HIDE DEF F
  <2> QED
    BY <1>1, <1>3, RecursionExists
<1>5. ASSUME NEW n \in 0..N
      PROVE  f[n] = IF n = 0 THEN <<root>> ELSE Hop(graph, track, f[n - 1])
  <2>1. f[n] = IF n = 0 THEN <<root>> ELSE F[<<n, f[n - 1]>>]
    BY <1>4 DEF Recursion
  <2>2. n # 0 => n - 1 \in 0..N /\ n \in 1..N
    BY <1>1
  <2>3. n # 0 => f[n - 1] \in Seq(Block)
    BY <2>2
  <2>4. n # 0 => F[<<n, f[n - 1]>>] = Hop(graph, track, f[n - 1])
    BY <2>2, <2>3
  <2> HIDE DEF F
  <2> QED
    BY <2>1, <2>4
<1>6. Is(f)
  <2>1. f = [n \in 0..N |-> f[n]]
    OBVIOUS
  <2> QED
    BY <1>5, <2>1
<1>7. Is(g)
  BY <1>6
<1> HIDE DEF g
<1>8. \A n \in 0..N : g[n] = IF n = 0 THEN <<root>> ELSE Hop(graph, track, g[n - 1])
  BY <1>7
<1> DEFINE P == {n \in 0..N : g[n] \in Seq(Block)}
<1>9. \A n \in 0..N : n \in P
  <2>1. 0 \in P
    <3>1. 0 \in 0..N
      BY <1>1
    <3>2. g[0] = <<root>>
      BY <1>8, <3>1
    <3> QED
      BY <1>1, <3>1, <3>2
  <2>2. ASSUME NEW n \in 1..N, n - 1 \in P PROVE n \in P
    <3>1. g[n - 1] \in Seq(Block) /\ n \in 0..N /\ n # 0
      BY <1>1, <2>2
    <3>2. g[n] = Hop(graph, track, g[n - 1])
      BY <1>8, <3>1
    <3>3. g[n] \in Seq(Block)
      BY <3>1, <3>2, HopType
    <3> QED
      BY <3>1, <3>3
  <2> HIDE DEF P
  <2> QED
    BY <1>1, <2>1, <2>2, UpTo
<1>10. g \in [0..N -> Seq(Block)]
  <2>1. g = [n \in 0..N |-> g[n]]
    BY <1>7
  <2> QED
    BY <1>9, <2>1
<1>11. HopSteps(g, graph, root, track)
  <2>1. 0 \in 0..N /\ \A n \in 1..N : n \in 0..N /\ n # 0
    BY <1>1
  <2> QED
    BY <1>8, <2>1 DEF HopSteps, N
<1> QED
  BY <1>2, <1>10, <1>11 DEF N

\* A chain is one of blocks.
LEMMA SequenceType ==
  ASSUME NEW graph \in Seq(Step), NEW root \in Block, NEW track
  PROVE  get_sequence(graph, root, track) \in Seq(Block)
<1>1. Cardinality(Block) \in 0..Cardinality(Block)
  BY BlocksCount
<1> QED
  BY <1>1, SequenceIs

\* Heads are blocks.
LEMMA HeadsType ==
  ASSUME NEW graph \in Seq(Step), NEW track
  PROVE  heads(graph, track) \in Seq(Block)
<1> DEFINE from == [i \in DOMAIN graph |-> graph[i].source]
<1>1. from \in Seq(Block)
  <2>1. ASSUME NEW i \in DOMAIN graph PROVE graph[i].source \in Block
    <3>1. graph[i] \in Step
      OBVIOUS
    <3> QED
      BY <3>1 DEF Step
  <2>2. DOMAIN graph = 1..Len(graph) /\ Len(graph) \in Nat
    OBVIOUS
  <2> QED
    BY <2>1, <2>2
<1> HIDE DEF from
<1> QED
  BY <1>1, AtType DEF heads, from

-----------------------------------------------------------------------------
(* Order of the nodes *)

\* The main flow is one of blocks.
LEMMA FlowType ==
  ASSUME rg \in Seq(Step)
  PROVE  Flow \in Seq(Block)
<1> DEFINE head == heads(rg, Main)
           chains == [i \in DOMAIN head |-> get_sequence(rg, head[i], Main)]
<1>1. head \in Seq(Block)
  BY HeadsType
<1> HIDE DEF head
<1>2. \A i \in DOMAIN head : get_sequence(rg, head[i], Main) \in Seq(Block)
  <2>1. \A i \in DOMAIN head : head[i] \in Block
    BY <1>1
  <2> QED
    BY <2>1, SequenceType
<1>3. chains \in Seq(Seq(Block))
  <2>1. DOMAIN head = 1..Len(head) /\ Len(head) \in Nat
    BY <1>1
  <2> QED
    BY <1>2, <2>1
<1> HIDE DEF chains
<1> QED
  BY <1>3, FlattenType DEF Flow, chains, head

\* The live blocks of the document, each once.
LEMMA CollectedFacts ==
  Collected \in Seq(Block) /\ IsInjective(Collected)
  BY KeptFacts, ManifestAssumption, FlowAssumption DEF Collected

\* Every live block is a node to chunk, once, and nothing else is.
LEMMA NodesFacts ==
  ASSUME rg \in Seq(Step)
  PROVE  /\ ordered_nodes \in Seq(Block) /\ IsInjective(ordered_nodes)
         /\ Range(ordered_nodes) = Range(Collected)
<1>1. PICK flow \in Seq(Block) : flow = Flow
  BY FlowType
<1>2. PICK live \in Seq(Block) : live = Collected
  BY CollectedFacts
<1>3. PICK kept : kept = Kept(flow, Range(live))
  OBVIOUS
<1>4. kept \in Seq(Block) /\ Range(kept) = Range(flow) \cap Range(live)
  BY <1>3, KeptFacts
<1>5. kept \o live \in Seq(Block) /\ Range(kept \o live) = Range(kept) \cup Range(live)
  BY <1>4, ConcatFacts
<1>6. ordered_nodes = Distinct(kept \o live)
  BY <1>1, <1>2, <1>3 DEF ordered_nodes
<1> QED
  BY <1>2, <1>4, <1>5, <1>6, DistinctFacts

-----------------------------------------------------------------------------
(* Tokens *)

\* A block has a number of tokens.
LEMMA SizeType ==
  ASSUME NEW b \in Block
  PROVE  Size(b) \in Nat
  BY ChunkerAssumption DEF Size

\* What Total's function is at each index.
SumSteps(f, blocks) ==
  f[0] = 0 /\ \A n \in 1..Len(blocks) : f[n] = f[n - 1] + Size(blocks[n])

\* Total is one of them.
LEMMA TotalIs ==
  ASSUME NEW blocks \in Seq(Block)
  PROVE  \E f \in [0..Len(blocks) -> Nat] :
           SumSteps(f, blocks) /\ Total(blocks) = f[Len(blocks)]
<1> DEFINE N == Len(blocks)
           F == [p \in (1..N) \X Nat |-> p[2] + Size(blocks[p[1]])]
           Is(f) == f = [n \in 0..N |-> IF n = 0 THEN 0 ELSE f[n - 1] + Size(blocks[n])]
           g == CHOOSE f : Is(f)
<1>1. N \in Nat /\ \A n \in 1..N : Size(blocks[n]) \in Nat
  BY SizeType
<1>2. Total(blocks) = g[N]
  BY DEF Total
<1>3. F \in [(1..N) \X Nat -> Nat]
  <2> HIDE DEF N
  <2> QED
    BY <1>1
<1>4. PICK f \in [0..N -> Nat] : Recursion(f, N, 0, F)
  <2> HIDE DEF F, N
  <2> QED
    BY <1>1, <1>3, RecursionExists
<1> HIDE DEF N
<1>5. ASSUME NEW n \in 0..N
      PROVE  f[n] = IF n = 0 THEN 0 ELSE f[n - 1] + Size(blocks[n])
  <2>1. f[n] = IF n = 0 THEN 0 ELSE F[<<n, f[n - 1]>>]
    BY <1>4 DEF Recursion
  <2>2. n # 0 => n - 1 \in 0..N /\ n \in 1..N
    BY <1>1
  <2>3. n # 0 => f[n - 1] \in Nat
    BY <2>2
  <2>4. n # 0 => F[<<n, f[n - 1]>>] = f[n - 1] + Size(blocks[n])
    BY <2>2, <2>3
  <2> HIDE DEF F
  <2> QED
    BY <2>1, <2>4
<1>6. Is(f)
  <2>1. f = [n \in 0..N |-> f[n]]
    OBVIOUS
  <2> QED
    BY <1>5, <2>1
<1>7. Is(g)
  BY <1>6
<1> HIDE DEF g
<1>8. \A n \in 0..N : g[n] = IF n = 0 THEN 0 ELSE g[n - 1] + Size(blocks[n])
  BY <1>7
<1> DEFINE P == {n \in 0..N : g[n] \in Nat}
<1>9. \A n \in 0..N : n \in P
  <2>1. 0 \in P
    BY <1>1, <1>8
  <2>2. ASSUME NEW n \in 1..N, n - 1 \in P PROVE n \in P
    <3>1. g[n - 1] \in Nat /\ n \in 0..N /\ n # 0
      BY <1>1, <2>2
    <3>2. g[n] = g[n - 1] + Size(blocks[n])
      BY <1>8, <3>1
    <3>3. g[n] \in Nat
      BY <1>1, <3>1, <3>2
    <3> QED
      BY <3>1, <3>3
  <2> HIDE DEF P
  <2> QED
    BY <1>1, <2>1, <2>2, UpTo
<1>10. g \in [0..N -> Nat]
  <2>1. g = [n \in 0..N |-> g[n]]
    BY <1>7
  <2> QED
    BY <1>9, <2>1
<1>11. SumSteps(g, blocks)
  <2>1. 0 \in 0..N /\ \A n \in 1..N : n \in 0..N /\ n # 0
    BY <1>1
  <2> QED
    BY <1>8, <2>1 DEF SumSteps, N
<1> QED
  BY <1>2, <1>10, <1>11 DEF N

\* A total is a number.
LEMMA TotalType ==
  ASSUME NEW blocks \in Seq(Block)
  PROVE  Total(blocks) \in Nat
<1>1. Len(blocks) \in 0..Len(blocks)
  OBVIOUS
<1> QED
  BY <1>1, TotalIs

\* Nothing has no tokens.
LEMMA TotalEmpty == Total(<<>>) = 0
<1>1. <<>> \in Seq(Block) /\ Len(<<>>) = 0
  OBVIOUS
<1> QED
  BY <1>1, TotalIs DEF SumSteps

\* One block more has its tokens more.
LEMMA TotalAppend ==
  ASSUME NEW blocks \in Seq(Block), NEW b \in Block
  PROVE  Total(Append(blocks, b)) = Total(blocks) + Size(b)
<1> DEFINE t == Append(blocks, b)
           N == Len(blocks)
<1>1. /\ t \in Seq(Block) /\ Len(t) = N + 1 /\ N \in Nat
      /\ t[N + 1] = b /\ \A n \in 1..N : t[n] = blocks[n]
  OBVIOUS
<1> HIDE DEF t, N
<1>2. PICK f : SumSteps(f, blocks) /\ Total(blocks) = f[N]
  BY TotalIs DEF N
<1>3. PICK g : SumSteps(g, t) /\ Total(t) = g[N + 1]
  BY <1>1, TotalIs
<1> DEFINE P == {n \in 0..N : f[n] = g[n]}
<1>4. \A n \in 0..N : n \in P
  <2>1. 0 \in P
    BY <1>1, <1>2, <1>3 DEF SumSteps
  <2>2. ASSUME NEW n \in 1..N, n - 1 \in P PROVE n \in P
    <3>1. f[n - 1] = g[n - 1] /\ n \in 1..Len(blocks) /\ n \in 1..Len(t) /\ n \in 0..N
      BY <1>1, <2>2 DEF N
    <3> QED
      BY <1>1, <1>2, <1>3, <3>1 DEF SumSteps
  <2> HIDE DEF P
  <2> QED
    BY <1>1, <2>1, <2>2, UpTo
<1>5. f[N] = g[N]
  BY <1>1, <1>4
<1>6. g[N + 1] = g[N] + Size(b)
  <2>1. N + 1 \in 1..Len(t) /\ (N + 1) - 1 = N
    BY <1>1
  <2> QED
    BY <1>1, <1>3, <2>1 DEF SumSteps
<1> QED
  BY <1>2, <1>3, <1>5, <1>6 DEF t, N

\* Where there are no tokens no block has any.
LEMMA NoTokens ==
  ASSUME NEW blocks \in Seq(Block), Total(blocks) = 0, NEW b \in Range(blocks)
  PROVE  Size(b) = 0
<1> DEFINE P == {s \in Seq(Block) : Total(s) = 0 => \A x \in Range(s) : Size(x) = 0}
<1>1. <<>> \in P
  <2>1. <<>> \in Seq(Block)
    OBVIOUS
  <2> QED
    BY <2>1, EmptyFacts
<1>2. ASSUME NEW s \in Seq(Block), NEW e \in Block, s \in P PROVE Append(s, e) \in P
  <2>1. Total(Append(s, e)) = Total(s) + Size(e) /\ Total(s) \in Nat /\ Size(e) \in Nat
    BY TotalAppend, TotalType, SizeType
  <2>2. Total(Append(s, e)) = 0 => Total(s) = 0 /\ Size(e) = 0
    BY <2>1
  <2>3. Range(Append(s, e)) = Range(s) \cup {e} /\ Append(s, e) \in Seq(Block)
    BY AppendFacts
  <2> QED
    BY <1>2, <2>2, <2>3
<1> HIDE DEF P
<1>3. blocks \in P
  BY <1>1, <1>2, EverySeq
<1> QED
  BY <1>3 DEF P

-----------------------------------------------------------------------------
(* Chunks *)

\* A chunk a reader can use: of several blocks only if none is atomic, all
\* have one path of titles and the budget has room for them.
Gathered(chunk) ==
  /\ \A b \in Range(chunk) : ~Atomic(b) /\ container_path(b) = container_path(chunk[1])
  /\ Total(chunk) <= MaxTokens

Usable(chunk) == Len(chunk) > 1 => Gathered(chunk)

\* The buffer may hold one block that is larger than the budget.
Open(buffer) ==
  /\ \A b \in Range(buffer) : ~Atomic(b) /\ container_path(b) = container_path(buffer[1])
  /\ Len(buffer) > 1 => Total(buffer) <= MaxTokens

Partial == [chunks : Seq(Seq(Block)), buffer : Seq(Block)]

\* Chunks and buffer hold every block of D with text, once, and no others.
Holds(acc, D) ==
  LET all == FlattenSeq(acc.chunks) \o acc.buffer
  IN  /\ IsInjective(all) /\ Range(all) \subseteq D
      /\ \A b \in D : Size(b) > 0 => b \in Range(all)

Good(acc, D) ==
  /\ acc \in Partial /\ Holds(acc, D)
  /\ \A i \in DOMAIN acc.chunks : Usable(acc.chunks[i])
  /\ Open(acc.buffer)

\* A new chunk behind the others, or none.
LEMMA CreatedFacts ==
  ASSUME NEW chunks \in Seq(Seq(Block)), NEW blocks \in Seq(Block)
  PROVE  chunks \o Created(blocks) = IF Total(blocks) = 0 THEN chunks ELSE Append(chunks, blocks)
  BY DEF Created

\* Usable chunks and one more.
LEMMA UsableAppend ==
  ASSUME NEW chunks \in Seq(Seq(Block)), NEW blocks \in Seq(Block),
         \A i \in DOMAIN chunks : Usable(chunks[i]), Usable(blocks)
  PROVE  \A i \in DOMAIN Append(chunks, blocks) : Usable(Append(chunks, blocks)[i])
<1> DEFINE t == Append(chunks, blocks)
           N == Len(chunks)
<1>1. /\ N \in Nat /\ DOMAIN chunks = 1..N /\ DOMAIN t = 1..(N + 1)
      /\ t[N + 1] = blocks /\ \A n \in 1..N : t[n] = chunks[n]
  OBVIOUS
<1> HIDE DEF t, N
<1>2. ASSUME NEW i \in DOMAIN t PROVE Usable(t[i])
  <2>1. i \in 1..N \/ i = N + 1
    BY <1>1
  <2>2. CASE i \in 1..N
    <3>1. t[i] = chunks[i] /\ Usable(chunks[i])
      BY <1>1, <2>2
    <3> QED
      BY <3>1, Zenon
  <2>3. CASE i = N + 1
    <3>1. t[i] = blocks
      BY <1>1, <2>3
    <3> QED
      BY <3>1, Zenon
  <2> QED
    BY <2>1, <2>2, <2>3
<1> QED
  BY <1>2 DEF t

\* An empty buffer is open, and so is one that holds a block that is not atomic.
LEMMA OpenSmall ==
  /\ Open(<<>>)
  /\ \A b \in Block : ~Atomic(b) => Open(<<b>>)
<1>1. Open(<<>>)
  BY EmptyFacts DEF Open
<1>2. ASSUME NEW b \in Block, ~Atomic(b) PROVE Open(<<b>>)
  <2>1. Range(<<b>>) = {b} /\ <<b>>[1] = b /\ Len(<<b>>) = 1
    BY DEF Range
  <2> QED
    BY <1>2, <2>1 DEF Open
<1> QED
  BY <1>1, <1>2

\* Ending a chunk loses nothing but blocks without text.
LEMMA FlushKeeps ==
  ASSUME NEW acc, NEW D \in SUBSET Block, Good(acc, D)
  PROVE  Good(Flushed(acc), D)
<1> DEFINE chunks == acc.chunks
           buffer == acc.buffer
           flat == FlattenSeq(chunks)
           made == chunks \o Created(buffer)
<1>1. chunks \in Seq(Seq(Block)) /\ buffer \in Seq(Block) /\ flat \in Seq(Block)
  BY FlattenType DEF Good, Partial
<1>2. made = IF Total(buffer) = 0 THEN chunks ELSE Append(chunks, buffer)
  BY <1>1, CreatedFacts
<1>3. Flushed(acc) = [chunks |-> made, buffer |-> <<>>]
  BY DEF Flushed
<1>4. made \in Seq(Seq(Block)) /\ Flushed(acc) \in Partial
  BY <1>1, <1>2, <1>3 DEF Partial
<1>5. FlattenSeq(made) \o <<>> = FlattenSeq(made)
  <2>1. FlattenSeq(made) \in Seq(Block)
    BY <1>4, FlattenType
  <2> QED
    BY <2>1
<1>6. /\ IsInjective(flat \o buffer) /\ Range(flat \o buffer) \subseteq D
      /\ \A b \in D : Size(b) > 0 => b \in Range(flat \o buffer)
  BY DEF Good, Holds
<1>7. /\ IsInjective(flat) /\ Range(flat \o buffer) = Range(flat) \cup Range(buffer)
  BY <1>1, <1>6, ConcatFacts
<1>8. \A i \in DOMAIN chunks : Usable(chunks[i])
  BY DEF Good
<1>9. Usable(buffer)
  BY DEF Good, Open, Usable, Gathered
<1>10. \A i \in DOMAIN made : Usable(made[i])
  <2> HIDE DEF made, chunks, buffer
  <2> QED
    BY <1>1, <1>2, <1>8, <1>9, UsableAppend
<1>11. /\ IsInjective(FlattenSeq(made)) /\ Range(FlattenSeq(made)) \subseteq D
       /\ \A b \in D : Size(b) > 0 => b \in Range(FlattenSeq(made))
  <2> HIDE DEF made, chunks, buffer
  <2>1. CASE Total(buffer) = 0
    <3>1. FlattenSeq(made) = flat
      BY <1>2, <2>1
    <3>2. \A b \in Range(buffer) : Size(b) = 0
      BY <1>1, <2>1, NoTokens
    <3> HIDE DEF flat
    <3> QED
      BY <1>6, <1>7, <3>1, <3>2
  <2>2. CASE Total(buffer) # 0
    <3>1. FlattenSeq(made) = flat \o buffer
      BY <1>1, <1>2, <2>2, FlattenAppend
    <3> QED
      BY <1>6, <3>1
  <2> QED
    BY <2>1, <2>2
<1> HIDE DEF made, flat, chunks, buffer
<1>12. Flushed(acc).chunks = made /\ Flushed(acc).buffer = <<>>
  BY <1>3
<1>13. Holds(Flushed(acc), D)
  BY <1>5, <1>11, <1>12 DEF Holds
<1> QED
  BY <1>4, <1>10, <1>12, <1>13, OpenSmall DEF Good

\* A new block goes into the open chunk.
LEMMA GatherKeeps ==
  ASSUME NEW acc, NEW D \in SUBSET Block, Good(acc, D), NEW b \in Block, b \notin D,
         Open(Append(acc.buffer, b))
  PROVE  Good([acc EXCEPT !.buffer = Append(@, b)], D \cup {b})
<1> DEFINE flat == FlattenSeq(acc.chunks)
           buffer == acc.buffer
           grown == Append(buffer, b)
           next == [acc EXCEPT !.buffer = Append(@, b)]
<1>1. acc \in Partial /\ flat \in Seq(Block) /\ buffer \in Seq(Block)
  BY FlattenType DEF Good, Partial
<1>2. next \in Partial /\ next.chunks = acc.chunks /\ next.buffer = grown
  <2>1. grown \in Seq(Block)
    BY <1>1
  <2>2. next = [acc EXCEPT !.buffer = grown]
    OBVIOUS
  <2> HIDE DEF grown, next
  <2> QED
    BY <1>1, <2>1, <2>2 DEF Partial
<1>3. /\ IsInjective(flat \o buffer) /\ Range(flat \o buffer) \subseteq D
      /\ \A x \in D : Size(x) > 0 => x \in Range(flat \o buffer)
  BY DEF Good, Holds
<1>4. flat \o grown = Append(flat \o buffer, b) /\ flat \o buffer \in Seq(Block)
  <2> HIDE DEF flat, buffer
  <2> QED
    BY <1>1
<1> HIDE DEF flat, buffer, grown, next
<1>5. /\ Range(flat \o grown) = Range(flat \o buffer) \cup {b}
      /\ IsInjective(flat \o grown)
  BY <1>3, <1>4, AppendFacts
<1>6. Holds(next, D \cup {b})
  <2>1. FlattenSeq(next.chunks) \o next.buffer = flat \o grown
    BY <1>2 DEF flat
  <2>2. Range(flat \o grown) \subseteq D \cup {b}
    BY <1>3, <1>5
  <2>3. \A x \in D \cup {b} : Size(x) > 0 => x \in Range(flat \o grown)
    BY <1>3, <1>5
  <2> QED
    BY <1>5, <2>1, <2>2, <2>3 DEF Holds
<1>7. \A i \in DOMAIN next.chunks : Usable(next.chunks[i])
  BY <1>2 DEF Good
<1>8. Open(next.buffer)
  BY <1>2 DEF grown, buffer
<1>9. Good(next, D \cup {b})
  BY <1>2, <1>6, <1>7, <1>8 DEF Good
<1> QED
  BY <1>9 DEF next

\* An atomic block becomes a chunk behind a flushed buffer.
LEMMA AloneKeeps ==
  ASSUME NEW acc, NEW D \in SUBSET Block, Good(acc, D), acc.buffer = <<>>,
         NEW b \in Block, b \notin D
  PROVE  Good([acc EXCEPT !.chunks = @ \o Created(<<b>>)], D \cup {b})
<1> DEFINE chunks == acc.chunks
           flat == FlattenSeq(chunks)
           made == chunks \o Created(<<b>>)
           next == [acc EXCEPT !.chunks = @ \o Created(<<b>>)]
<1>1. acc \in Partial /\ chunks \in Seq(Seq(Block)) /\ flat \in Seq(Block) /\ <<b>> \in Seq(Block)
  BY FlattenType DEF Good, Partial
<1>2. made = IF Total(<<b>>) = 0 THEN chunks ELSE Append(chunks, <<b>>)
  BY <1>1, CreatedFacts
<1>3. made \in Seq(Seq(Block))
  <2>1. Append(chunks, <<b>>) \in Seq(Seq(Block))
    BY <1>1
  <2> HIDE DEF made
  <2> QED
    BY <1>1, <1>2, <2>1
<1>4. next \in Partial /\ next.chunks = made /\ next.buffer = <<>>
  BY <1>1, <1>3 DEF Partial
<1>5. /\ IsInjective(flat) /\ Range(flat) \subseteq D
      /\ \A x \in D : Size(x) > 0 => x \in Range(flat)
  <2>1. flat \o acc.buffer = flat
    BY <1>1
  <2>2. Holds(acc, D)
    BY DEF Good
  <2> QED
    BY <2>1, <2>2 DEF Holds
<1>6. Total(<<b>>) = Size(b) /\ Size(b) \in Nat
  <2>1. <<>> \in Seq(Block) /\ Append(<<>>, b) = <<b>>
    OBVIOUS
  <2>2. Total(<<b>>) = Total(<<>>) + Size(b)
    BY <2>1, TotalAppend
  <2> QED
    BY <2>2, TotalEmpty, SizeType
<1>7. Usable(<<b>>)
  BY DEF Usable
<1>8. \A i \in DOMAIN chunks : Usable(chunks[i])
  BY DEF Good
<1> HIDE DEF chunks, flat, made, next
<1>9. \A i \in DOMAIN made : Usable(made[i])
  BY <1>1, <1>2, <1>7, <1>8, UsableAppend
<1>10. /\ IsInjective(FlattenSeq(made)) /\ Range(FlattenSeq(made)) \subseteq D \cup {b}
       /\ \A x \in D \cup {b} : Size(x) > 0 => x \in Range(FlattenSeq(made))
  <2>1. CASE Total(<<b>>) = 0
    <3>1. FlattenSeq(made) = flat
      BY <1>2, <2>1 DEF flat
    <3>2. ASSUME NEW x \in D \cup {b}, Size(x) > 0 PROVE x \in Range(flat)
      <4>1. Size(b) = 0
        BY <1>6, <2>1, Zenon
      <4>2. x # b
        BY <3>2, <4>1
      <4> QED
        BY <1>5, <3>2, <4>2
    <3>3. Range(flat) \subseteq D \cup {b} /\ IsInjective(flat)
      BY <1>5
    <3> DEFINE new == FlattenSeq(made)
    <3>4. new = flat
      BY <3>1
    <3> HIDE DEF new
    <3>5. IsInjective(new) /\ Range(new) \subseteq D \cup {b}
      BY <3>3, <3>4
    <3>6. \A x \in D \cup {b} : Size(x) > 0 => x \in Range(new)
      BY <3>2, <3>4
    <3> QED
      BY <3>5, <3>6 DEF new
  <2>2. CASE Total(<<b>>) # 0
    <3>1. FlattenSeq(made) = flat \o <<b>>
      BY <1>1, <1>2, <2>2, FlattenAppend DEF flat
    <3>2. flat \o <<b>> = Append(flat, b)
      BY <1>1
    <3>3. b \notin Range(flat)
      BY <1>5
    <3>4. Range(Append(flat, b)) = Range(flat) \cup {b} /\ IsInjective(Append(flat, b))
      BY <1>1, <1>5, <3>3, AppendFacts
    <3>5. FlattenSeq(made) = Append(flat, b)
      BY <3>1, <3>2, Zenon
    <3>6. Range(flat) \cup {b} \subseteq D \cup {b}
          /\ \A x \in D \cup {b} : Size(x) > 0 => x \in Range(flat) \cup {b}
      BY <1>5
    <3>7. Range(Append(flat, b)) \subseteq D \cup {b}
          /\ \A x \in D \cup {b} : Size(x) > 0 => x \in Range(Append(flat, b))
      BY <3>4, <3>6
    <3> QED
      BY <3>4, <3>5, <3>7, Zenon
  <2> QED
    BY <2>1, <2>2
<1>11. Holds(next, D \cup {b})
  <2>1. FlattenSeq(made) \o <<>> = FlattenSeq(made)
    <3>1. FlattenSeq(made) \in Seq(Block)
      BY <1>3, FlattenType
    <3> QED
      BY <3>1
  <2> QED
    BY <1>4, <1>10, <2>1 DEF Holds
<1>12. Good(next, D \cup {b})
  BY <1>4, <1>9, <1>11, OpenSmall DEF Good
<1> QED
  BY <1>12 DEF next

\* Every step of build_chunks' loop.
LEMMA TakeKeeps ==
  ASSUME NEW acc, NEW D \in SUBSET Block, Good(acc, D), NEW b \in Block, b \notin D
  PROVE  Good(Take(acc, b), D \cup {b})
<1>1. Good(Flushed(acc), D) /\ Flushed(acc).buffer = <<>>
  BY FlushKeeps DEF Flushed
<1>2. CASE Atomic(b)
  <2>1. Good([Flushed(acc) EXCEPT !.chunks = @ \o Created(<<b>>)], D \cup {b})
    BY <1>1, AloneKeeps
  <2> QED
    BY <1>2, <2>1 DEF Take
<1>3. CASE ~Atomic(b)
  <2> DEFINE room == IF Fits(acc, b) THEN acc ELSE Flushed(acc)
  <2>1. Good(room, D)
    BY <1>1
  <2>2. Open(Append(room.buffer, b))
    <3>1. CASE room.buffer = <<>>
      <4>1. Append(<<>>, b) = <<b>>
        OBVIOUS
      <4>2. Append(room.buffer, b) = <<b>>
        BY <3>1, <4>1
      <4> QED
        BY <1>3, <4>2, OpenSmall
    <3>2. CASE room.buffer # <<>>
      <4>1. room = acc /\ container_path(Head(acc.buffer)) = container_path(b)
            /\ Total(acc.buffer) + Size(b) <= MaxTokens
        BY <1>1, <3>2 DEF Fits
      <4>2. acc.buffer \in Seq(Block) /\ acc.buffer # <<>>
        BY <3>2, <4>1 DEF Good, Partial
      <4> DEFINE buffer == acc.buffer
                 grown == Append(buffer, b)
      <4>3. grown[1] = buffer[1] /\ Head(buffer) = buffer[1] /\ grown \in Seq(Block)
        BY <4>2
      <4>4. \A x \in Range(buffer) : ~Atomic(x) /\ container_path(x) = container_path(buffer[1])
        BY DEF Good, Open
      <4> HIDE DEF grown, buffer
      <4>5. Range(grown) = Range(buffer) \cup {b} /\ Total(grown) = Total(buffer) + Size(b)
        BY <4>2, AppendFacts, TotalAppend DEF grown, buffer
      <4>6. Open(grown)
        <5>1. Total(grown) <= MaxTokens
          BY <4>1, <4>5 DEF buffer
        <5>2. container_path(b) = container_path(grown[1])
          BY <4>1, <4>3 DEF buffer
        <5>3. \A x \in Range(grown) : ~Atomic(x) /\ container_path(x) = container_path(grown[1])
          BY <1>3, <4>3, <4>4, <4>5, <5>2
        <5> QED
          BY <5>1, <5>3 DEF Open
      <4> QED
        BY <4>1, <4>6 DEF grown, buffer
    <3> QED
      BY <3>1, <3>2
  <2> HIDE DEF room
  <2>3. Good([room EXCEPT !.buffer = Append(@, b)], D \cup {b})
    BY <2>1, <2>2, GatherKeeps
  <2> QED
    BY <1>3, <2>3 DEF Take, room
<1> QED
  BY <1>2, <1>3

\* What build_chunks' function is at each index.
TakenSteps(f, nodes) ==
  /\ f[0] = [chunks |-> <<>>, buffer |-> <<>>]
  /\ \A n \in 1..Len(nodes) : f[n] = Take(f[n - 1], nodes[n])

\* A step of the loop leads from chunks of blocks to chunks of blocks.
LEMMA TakeType ==
  ASSUME NEW acc \in Partial, NEW b \in Block
  PROVE  Take(acc, b) \in Partial
<1>1. acc.chunks \in Seq(Seq(Block)) /\ acc.buffer \in Seq(Block)
  BY DEF Partial
<1>2. \A blocks \in Seq(Block) : Created(blocks) \in Seq(Seq(Block))
  BY DEF Created
<1>3. <<b>> \in Seq(Block) /\ <<>> \in Seq(Block)
  OBVIOUS
<1>4. Created(acc.buffer) \in Seq(Seq(Block)) /\ Created(<<b>>) \in Seq(Seq(Block))
  BY <1>1, <1>2, <1>3
<1>5. Flushed(acc) \in Partial
  <2>1. acc.chunks \o Created(acc.buffer) \in Seq(Seq(Block))
    BY <1>1, <1>4
  <2> QED
    BY <1>3, <2>1 DEF Flushed, Partial
<1>6. [Flushed(acc) EXCEPT !.chunks = @ \o Created(<<b>>)] \in Partial
  <2>1. Flushed(acc).chunks \in Seq(Seq(Block))
    BY <1>5 DEF Partial
  <2>2. Flushed(acc).chunks \o Created(<<b>>) \in Seq(Seq(Block))
    BY <1>4, <2>1
  <2> QED
    BY <1>5, <2>2 DEF Partial
<1>7. \A room \in Partial : [room EXCEPT !.buffer = Append(@, b)] \in Partial
  <2>1. ASSUME NEW room \in Partial PROVE [room EXCEPT !.buffer = Append(@, b)] \in Partial
    <3>1. room.buffer \in Seq(Block)
      BY DEF Partial
    <3>2. Append(room.buffer, b) \in Seq(Block)
      BY <3>1
    <3> QED
      BY <3>2 DEF Partial
  <2> QED
    BY <2>1
<1> QED
  BY <1>5, <1>6, <1>7 DEF Take

\* build_chunks is made of such a function.
LEMMA ChunksAre ==
  ASSUME NEW nodes \in Seq(Block), nodes = ordered_nodes
  PROVE  \E f \in [0..Len(nodes) -> Partial] :
           TakenSteps(f, nodes) /\ build_chunks = Flushed(f[Len(nodes)]).chunks
<1> DEFINE N == Len(nodes)
           none == [chunks |-> <<>>, buffer |-> <<>>]
           F == [p \in (1..N) \X Partial |-> Take(p[2], nodes[p[1]])]
           Is(f) == f = [n \in 0..N |-> IF n = 0 THEN none ELSE Take(f[n - 1], nodes[n])]
           g == CHOOSE f : Is(f)
<1>1. N \in Nat /\ \A n \in 1..N : nodes[n] \in Block
  OBVIOUS
<1>2. none \in Partial
  BY DEF Partial
<1>3. build_chunks = Flushed(g[N]).chunks
  BY DEF build_chunks
<1> HIDE DEF N, none
<1>4. F \in [(1..N) \X Partial -> Partial]
  BY <1>1, TakeType
<1>5. PICK f \in [0..N -> Partial] : Recursion(f, N, none, F)
  <2> HIDE DEF F
  <2> QED
    BY <1>1, <1>2, <1>4, RecursionExists
<1>6. ASSUME NEW n \in 0..N
      PROVE  f[n] = IF n = 0 THEN none ELSE Take(f[n - 1], nodes[n])
  <2>1. f[n] = IF n = 0 THEN none ELSE F[<<n, f[n - 1]>>]
    BY <1>5 DEF Recursion
  <2>2. n # 0 => n - 1 \in 0..N /\ n \in 1..N
    BY <1>1
  <2>3. n # 0 => f[n - 1] \in Partial
    BY <2>2
  <2>4. n # 0 => F[<<n, f[n - 1]>>] = Take(f[n - 1], nodes[n])
    BY <2>2, <2>3
  <2> HIDE DEF F
  <2> QED
    BY <2>1, <2>4
<1>7. Is(f)
  <2>1. f = [n \in 0..N |-> f[n]]
    OBVIOUS
  <2> QED
    BY <1>6, <2>1
<1>8. Is(g)
  BY <1>7
<1> HIDE DEF g
<1>9. \A n \in 0..N : g[n] = IF n = 0 THEN none ELSE Take(g[n - 1], nodes[n])
  BY <1>8
<1> DEFINE P == {n \in 0..N : g[n] \in Partial}
<1>10. \A n \in 0..N : n \in P
  <2>1. 0 \in P
    BY <1>1, <1>2, <1>9
  <2>2. ASSUME NEW n \in 1..N, n - 1 \in P PROVE n \in P
    <3>1. g[n - 1] \in Partial /\ n \in 0..N /\ n # 0 /\ nodes[n] \in Block
      BY <1>1, <2>2
    <3>2. g[n] = Take(g[n - 1], nodes[n])
      BY <1>9, <3>1
    <3>3. g[n] \in Partial
      BY <3>1, <3>2, TakeType
    <3> QED
      BY <3>1, <3>3
  <2> HIDE DEF P
  <2> QED
    BY <1>1, <2>1, <2>2, UpTo
<1>11. g \in [0..N -> Partial]
  <2>1. g = [n \in 0..N |-> g[n]]
    BY <1>8
  <2> QED
    BY <1>10, <2>1
<1>12. TakenSteps(g, nodes)
  <2>1. 0 \in 0..N /\ \A n \in 1..N : n \in 0..N /\ n # 0
    BY <1>1
  <2> QED
    BY <1>9, <2>1 DEF TakenSteps, N, none
<1> QED
  BY <1>3, <1>11, <1>12 DEF N

\* Nothing is held before the first node.
LEMMA NothingHeld == Good([chunks |-> <<>>, buffer |-> <<>>], {})
<1> DEFINE none == [chunks |-> <<>>, buffer |-> <<>>]
<1>1. none \in Partial /\ none.chunks = <<>> /\ none.buffer = <<>>
  BY DEF Partial
<1> HIDE DEF none
<1>2. Holds(none, {})
  <2>1. <<>> \o <<>> = <<>>
    OBVIOUS
  <2>2. FlattenSeq(none.chunks) \o none.buffer = <<>>
    BY <1>1, <2>1, FlattenEmpty
  <2> QED
    BY <2>2, EmptyFacts DEF Holds
<1>3. \A i \in DOMAIN none.chunks : Usable(none.chunks[i])
  BY <1>1
<1>4. Open(none.buffer)
  BY <1>1, OpenSmall
<1>5. Good(none, {})
  BY <1>1, <1>2, <1>3, <1>4 DEF Good
<1> QED
  BY <1>5 DEF none

\* What the chunker makes of any state the pipeline may leave.
LEMMA ChunksAreSound ==
  ASSUME rg \in Seq(Step)
  PROVE  ChunksSound
<1>1. PICK nodes \in Seq(Block) : nodes = ordered_nodes
  BY NodesFacts
<1>2. PICK live : live = Range(Collected)
  OBVIOUS
<1>3. IsInjective(nodes) /\ Range(nodes) = live
  BY <1>1, <1>2, NodesFacts
<1>4. PICK f \in [0..Len(nodes) -> Partial] :
        TakenSteps(f, nodes) /\ build_chunks = Flushed(f[Len(nodes)]).chunks
  BY <1>1, ChunksAre
<1> DEFINE N == Len(nodes)
           First(n) == {nodes[i] : i \in 1..n}
           P == {n \in 0..N : Good(f[n], First(n))}
<1>5. N \in Nat /\ DOMAIN nodes = 1..N /\ \A n \in 1..N : nodes[n] \in Block
  OBVIOUS
<1>6. \A n \in 0..N : n \in P
  <2>1. 0 \in P
    <3>1. First(0) = {} /\ f[0] = [chunks |-> <<>>, buffer |-> <<>>]
      BY <1>4 DEF TakenSteps
    <3>2. Good(f[0], First(0))
      BY <3>1, NothingHeld
    <3> QED
      BY <1>5, <3>2
  <2>2. ASSUME NEW n \in 1..N, n - 1 \in P PROVE n \in P
    <3>1. Good(f[n - 1], First(n - 1)) /\ n - 1 \in 0..N /\ n \in 0..N
      BY <1>5, <2>2
    <3>2. First(n - 1) \in SUBSET Block /\ nodes[n] \in Block
      BY <1>5, <3>1
    <3>3. nodes[n] \notin First(n - 1)
      <4>1. \A i \in 1..(n - 1) : i \in 1..N /\ i # n
        BY <1>5
      <4> QED
        BY <1>3, <1>5, <4>1 DEF IsInjective
    <3>4. First(n) = First(n - 1) \cup {nodes[n]}
      <4>1. \A i \in 1..n : i \in 1..(n - 1) \/ i = n
        BY <1>5
      <4>2. n \in 1..n /\ \A i \in 1..(n - 1) : i \in 1..n
        BY <1>5
      <4> QED
        BY <4>1, <4>2
    <3>5. f[n] = Take(f[n - 1], nodes[n])
      BY <1>4 DEF TakenSteps
    <3> HIDE DEF First
    <3>6. Good(f[n], First(n))
      BY <3>1, <3>2, <3>3, <3>4, <3>5, TakeKeeps
    <3> QED
      BY <3>1, <3>6
  <2> HIDE DEF P
  <2> QED
    BY <1>5, <2>1, <2>2, UpTo
<1>7. First(N) = live
  BY <1>3, <1>5 DEF Range
<1>8. Good(f[N], live)
  <2>1. N \in 0..N
    BY <1>5
  <2> HIDE DEF First, N
  <2> QED
    BY <1>6, <1>7, <2>1
<1>9. PICK acc : acc = Flushed(f[N])
  OBVIOUS
<1>10. live \in SUBSET Block
  BY <1>3, <1>5 DEF Range
<1>11. Good(acc, live) /\ acc.buffer = <<>> /\ build_chunks = acc.chunks
  BY <1>4, <1>8, <1>9, <1>10, FlushKeeps DEF Flushed
<1>12. FlattenSeq(acc.chunks) \o acc.buffer = FlattenSeq(acc.chunks)
  <2>1. FlattenSeq(acc.chunks) \in Seq(Block)
    BY <1>11, FlattenType DEF Good, Partial
  <2> QED
    BY <1>11, <2>1
<1>13. /\ IsInjective(FlattenSeq(acc.chunks)) /\ Range(FlattenSeq(acc.chunks)) \subseteq live
       /\ \A b \in live : Size(b) > 0 => b \in Range(FlattenSeq(acc.chunks))
  BY <1>11, <1>12 DEF Good, Holds
<1>14. ChunksCoverDocument
  BY <1>2, <1>11, <1>13 DEF ChunksCoverDocument
<1>15. ChunksKeepTheirLimits
  BY <1>11 DEF ChunksKeepTheirLimits, Good, Usable, Gathered
<1> QED
  BY <1>14, <1>15 DEF ChunksSound

-----------------------------------------------------------------------------
(* What ReadingOrderAnalyzer adds *)

\* A sequence over a set is one over a larger set.
LEMMA SeqOver ==
  ASSUME NEW A, NEW B, A \subseteq B, NEW s \in Seq(A)
  PROVE  s \in Seq(B)
  OBVIOUS

\* Steps between leaves, and the captions and footnotes of their own tracks.
Ordering == {e \in Step : e.by = ReadingOrder}
OffMain == {e \in Ordering : e.track # Main}

Chain(leaves) == [i \in 1..(Len(leaves) - 1) |-> NewStep(leaves[i], leaves[i + 1], Main)]

\* Leaves are blocks, each once.
LEMMA LeavesFacts ==
  ASSUME NEW t
  PROVE  Leaves(t) \in Seq(Block) /\ IsInjective(Leaves(t))
  BY KeptFacts, ManifestAssumption, FlowAssumption DEF Leaves

\* A step of the analyzer.
LEMMA NewStepFacts ==
  ASSUME NEW s \in Block, NEW t \in Block, NEW track \in Track
  PROVE  /\ NewStep(s, t, track) \in Ordering
         /\ NewStep(s, t, track).source = s /\ NewStep(s, t, track).target = t
         /\ NewStep(s, t, track).track = track
  BY ManifestAssumption DEF NewStep, Ordering, Step

\* The chain of the leaves.
LEMMA ChainType ==
  ASSUME NEW leaves \in Seq(Block)
  PROVE  /\ Chain(leaves) \in Seq(Ordering)
         /\ Len(Chain(leaves)) = IF Len(leaves) = 0 THEN 0 ELSE Len(leaves) - 1
<1> DEFINE N == Len(leaves) - 1
<1>1. Len(leaves) \in Nat /\ N \in Int /\ (Len(leaves) # 0 => N \in Nat)
  OBVIOUS
<1>2. ASSUME NEW i \in 1..N PROVE NewStep(leaves[i], leaves[i + 1], Main) \in Ordering
  <2>1. i \in 1..Len(leaves) /\ i + 1 \in 1..Len(leaves)
    BY <1>1
  <2>2. leaves[i] \in Block /\ leaves[i + 1] \in Block
    BY <2>1
  <2> QED
    BY <2>2, NewStepFacts, ManifestAssumption
<1>3. CASE Len(leaves) = 0
  <2>1. 1..N = {} /\ 1..0 = {}
    BY <1>3
  <2> HIDE DEF N
  <2>2. Chain(leaves) = [i \in 1..N |-> NewStep(leaves[i], leaves[i + 1], Main)]
    BY DEF Chain, N
  <2>3. Chain(leaves) \in [1..0 -> Ordering]
    BY <2>1, <2>2
  <2>4. Chain(leaves) \in Seq(Ordering) /\ Len(Chain(leaves)) = 0
    BY <2>3
  <2> QED
    BY <1>3, <2>4
<1>4. CASE Len(leaves) # 0
  <2> HIDE DEF N
  <2>1. Chain(leaves) = [i \in 1..N |-> NewStep(leaves[i], leaves[i + 1], Main)]
    BY DEF Chain, N
  <2>2. Chain(leaves) \in [1..N -> Ordering] /\ N \in Nat
    BY <1>1, <1>2, <1>4, <2>1
  <2>3. Chain(leaves) \in Seq(Ordering) /\ Len(Chain(leaves)) = N
    BY <2>2
  <2> QED
    BY <1>4, <2>3 DEF N
<1> QED
  BY <1>3, <1>4

\* Captions and footnotes are not on the main flow.
LEMMA SideType ==
  ASSUME NEW t, NEW k \in DOMAIN SideTracks
  PROVE  SideSteps(t, SideTracks[k]) \in Seq(OffMain)
<1> DEFINE track == SideTracks[k]
           ref(b) == {r \in Ref : r.source = b /\ r.type = t[b].type /\ r.track = track}
           S == {b \in DOMAIN t : ref(b) # {}}
           from == Kept(Leaves(t), S)
           new(i) == NewStep(from[i], (CHOOSE r \in ref(from[i]) : TRUE).target, track)
<1>1. track \in Track /\ track # Main
  BY ManifestAssumption, FlowAssumption DEF Range
<1>2. from \in Seq(Block) /\ Range(from) \subseteq S
  BY LeavesFacts, KeptFacts
<1>3. ASSUME NEW i \in DOMAIN from PROVE new(i) \in OffMain
  <2>1. from[i] \in Block /\ from[i] \in S
    <3> HIDE DEF from, S
    <3> QED
      BY <1>2 DEF Range
  <2>2. (CHOOSE r \in ref(from[i]) : TRUE) \in Ref
    BY <2>1
  <2> DEFINE target == (CHOOSE r \in ref(from[i]) : TRUE).target
  <2>3. target \in Block
    BY <2>2, ManifestAssumption
  <2> HIDE DEF from, ref, target, track
  <2>4. NewStep(from[i], target, track) \in Ordering
        /\ NewStep(from[i], target, track).track = track
    BY <1>1, <2>1, <2>3, NewStepFacts
  <2>5. NewStep(from[i], target, track) \in OffMain
    BY <1>1, <2>4 DEF OffMain
  <2> QED
    BY <2>5 DEF target
<1>4. SideSteps(t, track) = [i \in DOMAIN from |-> new(i)]
  BY DEF SideSteps
<1>5. DOMAIN from = 1..Len(from) /\ Len(from) \in Nat
  BY <1>2
<1> HIDE DEF from, new
<1>6. [i \in DOMAIN from |-> new(i)] \in Seq(OffMain)
  BY <1>3, <1>5
<1> QED
  BY <1>4, <1>6

\* The analyzer adds the chain of the leaves and then steps of other tracks.
LEMMA FlowStepsFacts ==
  ASSUME NEW t
  PROVE  /\ FlowSteps(t) \in Seq(Ordering)
         /\ \E side \in Seq(OffMain) : FlowSteps(t) = Chain(Leaves(t)) \o side
<1> DEFINE sides == [i \in DOMAIN SideTracks |-> SideSteps(t, SideTracks[i])]
           side == FlattenSeq(sides)
           chain == Chain(Leaves(t))
<1>1. sides \in Seq(Seq(OffMain))
  <2>1. DOMAIN SideTracks = 1..Len(SideTracks) /\ Len(SideTracks) \in Nat
    BY ManifestAssumption
  <2> QED
    BY <2>1, SideType
<1>2. side \in Seq(OffMain)
  <2> HIDE DEF sides
  <2> QED
    BY <1>1, FlattenType
<1>3. FlowSteps(t) = chain \o side
  BY DEF FlowSteps, Chain
<1>4. chain \in Seq(Ordering)
  BY LeavesFacts, ChainType
<1> HIDE DEF side, chain
<1>5. side \in Seq(Ordering)
  BY <1>2, SeqOver DEF OffMain
<1>6. chain \o side \in Seq(Ordering)
  BY <1>4, <1>5
<1> QED
  BY <1>2, <1>3, <1>6 DEF chain

\* They depend on the classes and the tombstones of the blocks only.
LEMMA SameFlow ==
  ASSUME NEW t, NEW u, DOMAIN t = DOMAIN u,
         \A b \in DOMAIN t : t[b].type = u[b].type /\ t[b].tomb = u[b].tomb
  PROVE  FlowSteps(t) = FlowSteps(u)
<1>1. {b \in DOMAIN t : ~t[b].tomb /\ t[b].type \in LeafTypes}
        = {b \in DOMAIN u : ~u[b].tomb /\ u[b].type \in LeafTypes}
  OBVIOUS
<1>2. Leaves(t) = Leaves(u)
  BY <1>1 DEF Leaves
<1>3. ASSUME NEW track PROVE SideSteps(t, track) = SideSteps(u, track)
  <2> DEFINE rt(b) == {r \in Ref : r.source = b /\ r.type = t[b].type /\ r.track = track}
             ru(b) == {r \in Ref : r.source = b /\ r.type = u[b].type /\ r.track = track}
             from == Kept(Leaves(t), {b \in DOMAIN t : rt(b) # {}})
  <2>1. \A b \in DOMAIN t : rt(b) = ru(b)
    OBVIOUS
  <2>2. {b \in DOMAIN t : rt(b) # {}} = {b \in DOMAIN u : ru(b) # {}}
    BY <2>1
  <2> DEFINE other == Kept(Leaves(u), {b \in DOMAIN u : ru(b) # {}})
  <2>3. other = from
    BY <1>2, <2>2
  <2>4. SideSteps(t, track) =
          [i \in DOMAIN from |-> NewStep(from[i], (CHOOSE r \in rt(from[i]) : TRUE).target, track)]
    BY DEF SideSteps
  <2>5. SideSteps(u, track) =
          [i \in DOMAIN other |-> NewStep(other[i], (CHOOSE r \in ru(other[i]) : TRUE).target, track)]
    BY DEF SideSteps
  <2>6. SideSteps(u, track) =
          [i \in DOMAIN from |-> NewStep(from[i], (CHOOSE r \in ru(from[i]) : TRUE).target, track)]
    <3> HIDE DEF from, other, rt, ru
    <3> QED
      BY <2>3, <2>5
  <2>7. \A i \in DOMAIN from : from[i] \in DOMAIN t
    <3>1. Range(from) \subseteq DOMAIN t
      BY LeavesFacts, KeptFacts
    <3> HIDE DEF from
    <3> QED
      BY <3>1 DEF Range
  <2> HIDE DEF from
  <2>8. \A i \in DOMAIN from : rt(from[i]) = ru(from[i])
    BY <2>1, <2>7
  <2> HIDE DEF rt, ru
  <2> QED
    BY <2>4, <2>6, <2>8
<1>4. [i \in DOMAIN SideTracks |-> SideSteps(t, SideTracks[i])]
        = [i \in DOMAIN SideTracks |-> SideSteps(u, SideTracks[i])]
  BY <1>3
<1> QED
  BY <1>2, <1>4 DEF FlowSteps

-----------------------------------------------------------------------------
(* Whose steps the Reading Graph holds *)

\* The analyzers before the n-th, and their steps.
Begun(n) == {Analyzers[i] : i \in 1..(n - 1)}
MadeBy(names) == {e \in Step : e.by \in names}

\* ReadingOrderAnalyzer came last and was not rolled back.
ReadLast ==
  /\ step = Len(Analyzers) + 1 /\ Len(Analyzers) > 0
  /\ Analyzers[Len(Analyzers)] = ReadingOrder /\ ReadingOrder \notin failures

\* Nobody has added steps before its turn. ReadingOrderAnalyzer has added the
\* first of its steps while it runs, and all of them behind those of the others
\* after it came last.
ReadingInv ==
  /\ phase # "running" => ops = 0
  /\ phase = "done" => step = Len(Analyzers) + 1
  /\ phase \in {"between", "done"} => rg \in Seq(MadeBy(Begun(step)))
  /\ phase = "running" =>
       before.rg \in Seq(MadeBy(Begun(step))) /\ rg \in Seq(MadeBy(Begun(step + 1)))
  /\ phase = "running" /\ Current = ReadingOrder =>
       /\ ops \in 0..Len(FlowSteps(tree))
       /\ rg = before.rg \o SubSeq(FlowSteps(tree), 1, ops)
  /\ phase \in {"between", "done"} /\ ReadLast =>
       \E old \in Seq(MadeBy(Begun(Len(Analyzers)))) : rg = old \o FlowSteps(tree)

\* With its turn an analyzer is one of those that have begun.
LEMMA BegunNext ==
  ASSUME TypeOK, step <= Len(Analyzers)
  PROVE  /\ Current \in Begun(step + 1) /\ Begun(step) \subseteq Begun(step + 1)
         /\ MadeBy(Begun(step)) \subseteq MadeBy(Begun(step + 1))
<1>1. step \in 1..((step + 1) - 1) /\ 1..(step - 1) \subseteq 1..((step + 1) - 1)
  BY ManifestAssumption DEF TypeOK
<1>2. Current \in Begun(step + 1)
  BY <1>1 DEF Begun, Current
<1>3. Begun(step) \subseteq Begun(step + 1)
  BY <1>1 DEF Begun
<1> QED
  BY <1>2, <1>3 DEF MadeBy

\* One element more at the end of two sequences.
LEMMA ConcatAppend ==
  ASSUME NEW X, NEW s \in Seq(X), NEW t \in Seq(X), NEW e \in X
  PROVE  Append(s \o t, e) = s \o Append(t, e)
  OBVIOUS

\* The first steps and one more, behind those of others.
LEMMA OneMore ==
  ASSUME NEW X, NEW old \in Seq(X), NEW s \in Seq(X), NEW n \in Nat, n < Len(s)
  PROVE  Append(old \o SubSeq(s, 1, n), s[n + 1]) = old \o SubSeq(s, 1, n + 1)
<1> DEFINE first == SubSeq(s, 1, n)
           e == s[n + 1]
<1>1. first \in Seq(X) /\ e \in X
  OBVIOUS
<1>2. SubSeq(s, 1, n + 1) = Append(first, e)
  OBVIOUS
<1> HIDE DEF first, e
<1>3. Append(old \o first, e) = old \o Append(first, e)
  BY <1>1, ConcatAppend
<1> QED
  BY <1>2, <1>3 DEF first, e

\* Before the first execution there is nothing to say.
LEMMA ReadingInitially == Init => ReadingInv
  BY DEF Init, ReadingInv, ReadLast

\* A new execution has empty graphs.
LEMMA ReadingExecute == ASSUME TypeOK, ReadingInv, Execute PROVE ReadingInv'
<1>1. rg' = <<>> /\ step' = 1 /\ phase' = "between" /\ phase # "running" /\ ops' = ops
  BY DEF Execute
<1>2. ~ReadLast'
  <2>1. Len(Analyzers) \in Nat
    BY ManifestAssumption
  <2> QED
    BY <1>1, <2>1 DEF ReadLast
<1>3. rg' \in Seq(MadeBy(Begun(step')))
  BY <1>1
<1> QED
  BY <1>1, <1>2, <1>3 DEF ReadingInv

\* At its start an analyzer has added nothing.
LEMMA ReadingBegin == ASSUME TypeOK, ReadingInv, Begin PROVE ReadingInv'
<1>1. /\ phase = "between" /\ phase' = "running" /\ step <= Len(Analyzers)
      /\ UNCHANGED <<tree, rg, step, ops>>
      /\ before' = [tree |-> tree, rg |-> rg, kg |-> kg]
  BY DEF Begin
<1>2. before'.rg = rg /\ ops = 0
  BY <1>1 DEF ReadingInv
<1>3. rg \in Seq(MadeBy(Begun(step)))
  BY <1>1 DEF ReadingInv
<1>4. rg \in Seq(MadeBy(Begun(step + 1)))
  BY <1>1, <1>3, BegunNext, SeqOver
<1>5. /\ ops \in 0..Len(FlowSteps(tree))
      /\ rg = before'.rg \o SubSeq(FlowSteps(tree), 1, ops)
  <2>1. PICK flow \in Seq(Ordering) : flow = FlowSteps(tree)
    BY FlowStepsFacts
  <2>2. SubSeq(flow, 1, 0) = <<>> /\ 0 \in 0..Len(flow)
    OBVIOUS
  <2>3. rg \o <<>> = rg
    BY DEF TypeOK
  <2>4. SubSeq(FlowSteps(tree), 1, ops) = <<>> /\ ops \in 0..Len(FlowSteps(tree))
    BY <1>2, <2>1, <2>2, Zenon
  <2> QED
    BY <1>2, <2>3, <2>4, Zenon
<1> QED
  BY <1>1, <1>2, <1>3, <1>4, <1>5 DEF ReadingInv

\* The end of an execution changes nothing.
LEMMA ReadingFinish == ASSUME TypeOK, ReadingInv, Finish PROVE ReadingInv'
<1>1. /\ phase = "between" /\ phase' = "done" /\ step > Len(Analyzers)
      /\ UNCHANGED <<tree, rg, step, before, failures, ops>>
  BY DEF Finish
<1>2. step = Len(Analyzers) + 1
  BY <1>1, ManifestAssumption DEF TypeOK
<1> QED
  BY <1>1, <1>2 DEF ReadingInv, ReadLast

\* All steps of a success are there, and its marks are not among their reasons.
LEMMA ReadingSucceeds == ASSUME IInv, ReadingInv, Succeeds PROVE ReadingInv'
<1>1. /\ phase = "running" /\ phase' = "between" /\ step' = step + 1 /\ ops' = 0
      /\ UNCHANGED <<rg, failures>> /\ tree' = Marked(tree, Current)
      /\ (Current = ReadingOrder => ops = Len(FlowSteps(tree)))
  BY DEF Succeeds
<1>2. /\ TypeOK /\ step <= Len(Analyzers) /\ step \in Nat /\ IsTree(tree) /\ Scored(tree)
  BY <1>1 DEF IInv, TypeOK
<1>3. rg' \in Seq(MadeBy(Begun(step')))
  BY <1>1 DEF ReadingInv
<1>4. ASSUME ReadLast'
      PROVE  \E old \in Seq(MadeBy(Begun(Len(Analyzers)))) : rg = old \o FlowSteps(tree')
  <2>1. step = Len(Analyzers) /\ Current = ReadingOrder
    BY <1>1, <1>2, <1>4, ManifestAssumption DEF ReadLast, Current
  <2>2. /\ before.rg \in Seq(MadeBy(Begun(Len(Analyzers))))
        /\ rg = before.rg \o SubSeq(FlowSteps(tree), 1, Len(FlowSteps(tree)))
    BY <1>1, <2>1 DEF ReadingInv
  <2>3. SubSeq(FlowSteps(tree), 1, Len(FlowSteps(tree))) = FlowSteps(tree)
    <3>1. PICK flow \in Seq(Ordering) : flow = FlowSteps(tree)
      BY FlowStepsFacts
    <3>2. SubSeq(flow, 1, Len(flow)) = flow
      OBVIOUS
    <3> QED
      BY <3>1, <3>2, Zenon
  <2>4. FlowSteps(tree') = FlowSteps(tree)
    <3>1. Current \in Name
      BY <1>1, <1>2, CurrentName
    <3>2. PICK marked : marked = Marked(tree, Current)
      OBVIOUS
    <3>3. /\ DOMAIN marked = DOMAIN tree
          /\ \A b \in DOMAIN tree : marked[b].type = tree[b].type /\ marked[b].tomb = tree[b].tomb
      BY <1>2, <3>1, <3>2, MarkedTree
    <3>4. FlowSteps(marked) = FlowSteps(tree)
      BY <3>3, SameFlow
    <3> QED
      BY <1>1, <3>2, <3>4, Zenon
  <2> QED
    BY <2>2, <2>3, <2>4
<1> QED
  BY <1>1, <1>3, <1>4 DEF ReadingInv

\* After a rollback the steps are those from before, and the failure is noted.
LEMMA ReadingRollsBack ==
  ASSUME TypeOK, ReadingInv, phase = "running", RollsBack
  PROVE  ReadingInv'
<1>1. /\ phase' = "between" /\ step' = step + 1 /\ ops' = 0 /\ rg' = before.rg
      /\ failures' = failures \cup {Current}
  BY DEF RollsBack, Restored
<1>2. step <= Len(Analyzers) /\ step \in Nat
  BY DEF TypeOK
<1>3. rg' \in Seq(MadeBy(Begun(step')))
  <2>1. before.rg \in Seq(MadeBy(Begun(step)))
    BY DEF ReadingInv
  <2>2. before.rg \in Seq(MadeBy(Begun(step + 1)))
    BY <1>2, <2>1, BegunNext, SeqOver
  <2> QED
    BY <1>1, <2>2
<1>4. ~ReadLast'
  <2>1. ASSUME ReadLast' PROVE FALSE
    <3>1. step = Len(Analyzers)
      BY <1>1, <1>2, <2>1, ManifestAssumption DEF ReadLast
    <3>2. Current = ReadingOrder
      BY <2>1, <3>1 DEF ReadLast, Current
    <3> QED
      BY <1>1, <2>1, <3>2 DEF ReadLast
  <2> QED
    BY <2>1
<1> QED
  BY <1>1, <1>3, <1>4 DEF ReadingInv

\* A refusal ends the execution.
LEMMA ReadingAborted == ASSUME ReadingInv, Aborted PROVE ReadingInv'
  BY DEF ReadingInv, Aborted

\* Changes of other analyzers that leave the Reading Graph.
LEMMA ReadingElsewhere ==
  ASSUME TypeOK, ReadingInv, Working, UNCHANGED rg
  PROVE  ReadingInv'
  BY DEF ReadingInv, Working, Current

\* A step of another analyzer.
LEMMA ReadingAddStep ==
  ASSUME TypeOK, ReadingInv, NEW e \in Step, AddStep(e)
  PROVE  ReadingInv'
<1>1. /\ phase = "running" /\ Current # ReadingOrder /\ e.by = Current
      /\ rg' = Append(rg, e) /\ UNCHANGED <<tree, step, phase, before, failures>>
  BY DEF AddStep, Working
<1>2. e \in MadeBy(Begun(step + 1))
  BY <1>1, BegunNext DEF TypeOK, MadeBy
<1>3. rg' \in Seq(MadeBy(Begun(step + 1)))
  BY <1>1, <1>2 DEF ReadingInv
<1> QED
  BY <1>1, <1>3 DEF ReadingInv, Current

\* The next step of ReadingOrderAnalyzer.
LEMMA ReadingOrdersOne ==
  ASSUME TypeOK, ReadingInv, phase = "running", Current = ReadingOrder,
         ops < Len(FlowSteps(tree)), NEW e \in Step, e = FlowSteps(tree)[ops + 1],
         e.by = Current, rg' = Append(rg, e), ops' = ops + 1,
         UNCHANGED <<tree, kg, step, phase, before, failures, runs>>
  PROVE  ReadingInv'
<1>1. e \in MadeBy(Begun(step + 1))
  BY BegunNext DEF TypeOK, MadeBy
<1>2. rg' \in Seq(MadeBy(Begun(step + 1)))
  BY <1>1 DEF ReadingInv
<1>3. ops \in Nat /\ rg = before.rg \o SubSeq(FlowSteps(tree), 1, ops) /\ before.rg \in Seq(Step)
  BY DEF ReadingInv, TypeOK
<1>4. PICK flow \in Seq(Ordering) : flow = FlowSteps(tree)
  BY FlowStepsFacts
<1>5. PICK old \in Seq(Step) : old = before.rg
  BY <1>3
<1>6. PICK n \in Nat : n = ops
  BY <1>3
<1>7. flow \in Seq(Step) /\ n < Len(flow)
  BY <1>4, <1>6, SeqOver DEF Ordering
<1>8. Append(old \o SubSeq(flow, 1, n), flow[n + 1]) = old \o SubSeq(flow, 1, n + 1)
  BY <1>7, OneMore, Zenon
<1>9. rg' = old \o SubSeq(flow, 1, n + 1)
  <2>1. rg = old \o SubSeq(flow, 1, n) /\ e = flow[n + 1]
    BY <1>3, <1>4, <1>5, <1>6, Zenon
  <2> QED
    BY <1>8, <2>1, Zenon
<1>10. n + 1 \in 0..Len(flow)
  BY <1>7
<1>11. /\ ops' \in 0..Len(FlowSteps(tree'))
       /\ rg' = before'.rg \o SubSeq(FlowSteps(tree'), 1, ops')
  BY <1>4, <1>5, <1>6, <1>9, <1>10
<1> QED
  BY <1>2, <1>11 DEF ReadingInv, Current

\* Every step of the pipeline keeps it.
LEMMA ReadingNext == ASSUME IInv, ReadingInv, Next PROVE ReadingInv'
<1>1. TypeOK
  BY DEF IInv
<1>2. CASE Execute
  BY <1>1, <1>2, ReadingExecute
<1>3. CASE Begin
  BY <1>1, <1>3, ReadingBegin
<1>4. CASE Finish
  BY <1>1, <1>4, ReadingFinish
<1>5. CASE Succeeds
  BY <1>5, ReadingSucceeds
<1>6. CASE Fails
  BY <1>1, <1>6, ReadingRollsBack DEF Fails
<1>7. CASE Refused \/ Denied
  BY <1>7, ReadingAborted DEF Refused, Denied
<1>8. CASE Change
  <2>1. CASE \E b \in Block, ty \in Type : Insert(b, ty) \/ Transform(b, ty)
    BY <1>1, <2>1, ReadingElsewhere DEF Insert, AddBlock, Transform, Reaching
  <2>2. CASE \E b, of \in Block : Split(b, of)
    BY <1>1, <2>2, ReadingElsewhere DEF Split, AddBlock, Reaching
  <2>3. CASE \E b \in Block : Delete(b) \/ SetTombstone(b) \/ AddEdge(b)
    BY <1>1, <2>3, ReadingElsewhere DEF Delete, SetTombstone, AddEdge, Reaching
  <2>4. CASE \E s, t \in Block, track \in Track :
               AddStep([source |-> s, target |-> t, track |-> track, by |-> Current])
    <3>1. PICK s \in Block, t \in Block, track \in Track :
            AddStep([source |-> s, target |-> t, track |-> track, by |-> Current])
      BY <2>4
    <3>2. phase = "running"
      BY <3>1 DEF AddStep, Working
    <3>3. [source |-> s, target |-> t, track |-> track, by |-> Current] \in Step
      BY <1>1, <3>2, CurrentName DEF Step
    <3> QED
      BY <1>1, <3>1, <3>3, ReadingAddStep
  <2> QED
    BY <1>8, <2>1, <2>2, <2>3, <2>4 DEF Change
<1>9. CASE OrdersReading
  <2>1. phase = "running" /\ Current = ReadingOrder /\ ops < Len(FlowSteps(tree))
    BY <1>9 DEF OrdersReading
  <2>2. PICK e \in Step :
          /\ e = FlowSteps(tree)[ops + 1] /\ e.by = Current
          /\ IF Accepts(rg, e)
             THEN /\ rg' = Append(rg, e) /\ ops' = ops + 1
                  /\ UNCHANGED <<tree, kg, step, phase, before, failures, runs>>
             ELSE RollsBack
    BY <1>9 DEF OrdersReading
  <2>3. CASE Accepts(rg, e)
    BY <1>1, <2>1, <2>2, <2>3, ReadingOrdersOne
  <2>4. CASE ~Accepts(rg, e)
    BY <1>1, <2>1, <2>2, <2>4, ReadingRollsBack
  <2> QED
    BY <2>3, <2>4
<1> QED
  BY <1>2, <1>3, <1>4, <1>5, <1>6, <1>7, <1>8, <1>9 DEF Next

\* Steps that change nothing keep it.
LEMMA ReadingStutters == ASSUME ReadingInv, UNCHANGED vars PROVE ReadingInv'
<1>1. UNCHANGED <<tree, rg, step, phase, before, failures, ops>>
  BY DEF vars
<1> QED
  BY <1>1 DEF ReadingInv, ReadLast, Current

\* Nobody adds steps out of turn, and an execution that ReadingOrderAnalyzer
\* ends has all its steps behind those of the others.
THEOREM ReadingInvariance == Spec => []ReadingInv
<1>1. IInv /\ ReadingInv /\ [Next]_vars => ReadingInv'
  BY ReadingNext, ReadingStutters
<1> QED
  BY ReadingInitially, <1>1, Invariance, PTL DEF Spec

-----------------------------------------------------------------------------
(* A chain read back from the graph *)

\* Nothing of a sequence.
LEMMA AtNone ==
  ASSUME NEW X, NEW s \in Seq(X)
  PROVE  At(s, {}) = <<>>
<1>1. PICK f : AtSteps(f, s, {}) /\ At(s, {}) = f[Len(s)]
  BY AtIs
<1> DEFINE N == Len(s)
           P == {n \in 0..N : f[n] = <<>>}
<1>2. N \in Nat
  OBVIOUS
<1>3. \A n \in 0..N : n \in P
  <2>1. 0 \in P
    BY <1>1, <1>2 DEF AtSteps
  <2>2. ASSUME NEW n \in 1..N, n - 1 \in P PROVE n \in P
    BY <1>1, <1>2, <2>2 DEF AtSteps
  <2> HIDE DEF P
  <2> QED
    BY <1>2, <2>1, <2>2, UpTo
<1> QED
  BY <1>1, <1>2, <1>3

\* One element of a sequence.
LEMMA AtOne ==
  ASSUME NEW X, NEW s \in Seq(X), NEW q \in 1..Len(s)
  PROVE  At(s, {q}) = <<s[q]>>
<1>1. PICK f : AtSteps(f, s, {q}) /\ At(s, {q}) = f[Len(s)]
  BY AtIs
<1> DEFINE N == Len(s)
           P == {n \in 0..N : f[n] = IF n < q THEN <<>> ELSE <<s[q]>>}
<1>2. N \in Nat /\ q \in 1..N
  OBVIOUS
<1>3. \A n \in 0..N : n \in P
  <2>1. 0 \in P
    BY <1>1, <1>2 DEF AtSteps
  <2>2. ASSUME NEW n \in 1..N, n - 1 \in P PROVE n \in P
    <3>1. f[n - 1] = IF n - 1 < q THEN <<>> ELSE <<s[q]>>
      BY <2>2
    <3>2. f[n] = IF n \in {q} THEN Append(f[n - 1], s[n]) ELSE f[n - 1]
      BY <1>1, <1>2 DEF AtSteps
    <3>3. n \in 0..N
      BY <1>2
    <3>4. CASE n < q
      BY <1>2, <3>1, <3>2, <3>3, <3>4
    <3>5. CASE n = q
      <4>1. Append(<<>>, s[q]) = <<s[q]>>
        OBVIOUS
      <4> QED
        BY <1>2, <3>1, <3>2, <3>3, <3>5, <4>1
    <3>6. CASE n > q
      BY <1>2, <3>1, <3>2, <3>3, <3>6
    <3> QED
      BY <1>2, <3>3, <3>4, <3>5, <3>6
  <2> HIDE DEF P
  <2> QED
    BY <1>2, <2>1, <2>2, UpTo
<1> QED
  BY <1>1, <1>2, <1>3

\* The steps of the main flow lead from leaf to leaf, from the p-th on.
Behind(graph, leaves, p) ==
  /\ p + (Len(leaves) - 1) <= Len(graph)
  /\ \A i \in 1..Len(graph) : graph[i].track = Main <=> i - p \in 1..(Len(leaves) - 1)
  /\ \A k \in 1..(Len(leaves) - 1) :
       graph[p + k].source = leaves[k] /\ graph[p + k].target = leaves[k + 1]

\* The chain starts at the first leaf.
LEMMA HeadOfChain ==
  ASSUME NEW graph \in Seq(Step), NEW leaves \in Seq(Block), IsInjective(leaves),
         Len(leaves) > 1, NEW p \in Nat, Behind(graph, leaves, p)
  PROVE  heads(graph, Main) = <<leaves[1]>>
<1> DEFINE L == Len(leaves)
           N == Len(graph)
           from == [i \in DOMAIN graph |-> graph[i].source]
           starts(i) ==
             /\ graph[i].track = Main
             /\ Incoming(graph, graph[i].source, Main) = {}
             /\ \A j \in 1..(i - 1) :
                  graph[j].track = Main => graph[j].source # graph[i].source
<1>1. L \in Nat /\ N \in Nat /\ L > 1 /\ DOMAIN graph = 1..N /\ DOMAIN leaves = 1..L
  OBVIOUS
<1>2. /\ p + (L - 1) <= N
      /\ \A i \in 1..N : graph[i].track = Main <=> i - p \in 1..(L - 1)
      /\ \A k \in 1..(L - 1) :
           graph[p + k].source = leaves[k] /\ graph[p + k].target = leaves[k + 1]
  BY DEF Behind
<1>3. p + 1 \in 1..N /\ 1 \in 1..(L - 1)
  BY <1>1, <1>2
<1>4. \A j, k \in 1..L : leaves[j] = leaves[k] => j = k
  BY <1>1 DEF IsInjective
<1> HIDE DEF L, N
<1>5. ASSUME NEW i \in 1..N PROVE starts(i) <=> i = p + 1
  <2>1. ASSUME starts(i), i # p + 1 PROVE FALSE
    <3>1. i - p \in 1..(L - 1)
      BY <1>2, <2>1
    <3> DEFINE k == i - p
    <3>2. k - 1 \in 1..(L - 1) /\ k \in 1..(L - 1) /\ p + k = i /\ p + (k - 1) \in 1..N /\ (k - 1) + 1 = k
      BY <1>1, <1>2, <2>1, <3>1
    <3> HIDE DEF k
    <3>3. graph[p + (k - 1)].target = leaves[k] /\ graph[i].source = leaves[k]
      BY <1>2, <3>2
    <3>4. (p + (k - 1)) - p = k - 1
      BY <3>2
    <3>5. graph[p + (k - 1)].track = Main
      BY <1>2, <3>2, <3>4
    <3>6. graph[p + (k - 1)] \in Incoming(graph, graph[i].source, Main)
      BY <1>1, <3>2, <3>3, <3>5 DEF Incoming, Range
    <3> QED
      BY <2>1, <3>6
  <2>2. ASSUME i = p + 1 PROVE starts(i)
    <3>1. i - p = 1 /\ graph[i].track = Main
      BY <1>2, <1>3, <2>2
    <3>2. graph[i].source = leaves[1]
      BY <1>2, <1>3, <2>2
    <3>3. ASSUME NEW e \in Incoming(graph, graph[i].source, Main) PROVE FALSE
      <4>1. PICK j \in 1..N : e = graph[j] /\ graph[j].target = leaves[1] /\ graph[j].track = Main
        BY <1>1, <3>2 DEF Incoming, Range
      <4>2. j - p \in 1..(L - 1)
        BY <1>2, <4>1
      <4> DEFINE k == j - p
      <4>3. p + k = j /\ k \in 1..(L - 1) /\ k + 1 \in 1..L /\ 1 \in 1..L /\ k + 1 # 1
        BY <1>1, <4>2
      <4> HIDE DEF k
      <4>4. leaves[k + 1] = leaves[1]
        BY <1>2, <4>1, <4>3
      <4> QED
        BY <1>4, <4>3, <4>4
    <3>4. \A j \in 1..(i - 1) : j \in 1..N /\ ~(j - p \in 1..(L - 1))
      BY <1>1, <2>2
    <3>5. \A j \in 1..(i - 1) : graph[j].track # Main
      BY <1>2, <3>4
    <3> QED
      BY <3>1, <3>3, <3>5
  <2> QED
    BY <2>1, <2>2
<1>6. {i \in DOMAIN graph : starts(i)} = {p + 1}
  <2> HIDE DEF starts
  <2> QED
    BY <1>1, <1>3, <1>5
<1>7. heads(graph, Main) = At(from, {i \in DOMAIN graph : starts(i)})
  BY DEF heads
<1>8. from \in Seq(Block) /\ Len(from) = N /\ from[p + 1] = leaves[1]
  <2>1. ASSUME NEW i \in 1..N PROVE graph[i].source \in Block
    <3>1. graph[i] \in Step
      BY <1>1
    <3> QED
      BY <3>1 DEF Step
  <2>2. from = [i \in 1..N |-> graph[i].source]
    BY <1>1
  <2>3. from \in [1..N -> Block] /\ from[p + 1] = graph[p + 1].source
    BY <1>3, <2>1, <2>2
  <2>4. graph[p + 1].source = leaves[1]
    BY <1>2, <1>3
  <2> HIDE DEF from
  <2> QED
    BY <1>1, <2>3, <2>4
<1> HIDE DEF from, starts
<1>9. At(from, {p + 1}) = <<from[p + 1]>>
  BY <1>3, <1>8, AtOne
<1> QED
  BY <1>6, <1>7, <1>8, <1>9, Zenon

\* No leaf is seen twice, so there are enough hops.
LEMMA EnoughHops ==
  ASSUME NEW leaves \in Seq(Block), IsInjective(leaves)
  PROVE  Len(leaves) <= Cardinality(Block)
<1>1. Len(leaves) \in Nat /\ leaves \in Injection(1..Len(leaves), Block)
  BY DEF Injection
<1>2. Cardinality(1..Len(leaves)) <= Cardinality(Block)
  BY <1>1, FlowAssumption, FS_Injection
<1>3. Cardinality(1..Len(leaves)) = Len(leaves)
  <2>1. PICK n \in Nat : n = Len(leaves)
    BY <1>1
  <2>2. Cardinality(1..n) = IF 1 > n THEN 0 ELSE n - 1 + 1
    <3>1. 1 \in Int /\ n \in Int
      OBVIOUS
    <3> QED
      BY <3>1, FS_Interval, Zenon
  <2>3. Cardinality(1..n) = n
    BY <2>2
  <2> QED
    BY <2>1, <2>3, Zenon
<1> QED
  BY <1>2, <1>3

\* get_sequence goes from leaf to leaf to the last.
LEMMA SequenceOfChain ==
  ASSUME NEW graph \in Seq(Step), NEW leaves \in Seq(Block), IsInjective(leaves),
         Len(leaves) > 1, NEW p \in Nat, Behind(graph, leaves, p)
  PROVE  get_sequence(graph, leaves[1], Main) = leaves
<1> DEFINE L == Len(leaves)
           M == Cardinality(Block)
           Walked(n) == SubSeq(leaves, 1, IF n < L THEN n + 1 ELSE L)
<1>1. /\ L \in Nat /\ Len(graph) \in Nat /\ L > 1 /\ DOMAIN graph = 1..Len(graph)
      /\ \A k \in 1..L : leaves[k] \in Block
  OBVIOUS
<1>2. /\ p + (L - 1) <= Len(graph)
      /\ \A i \in 1..Len(graph) : graph[i].track = Main <=> i - p \in 1..(L - 1)
      /\ \A k \in 1..(L - 1) :
           graph[p + k].source = leaves[k] /\ graph[p + k].target = leaves[k + 1]
  BY DEF Behind
<1>3. \A j, k \in 1..L : leaves[j] = leaves[k] => j = k
  BY DEF IsInjective
<1>4. M \in Nat /\ L <= M
  BY BlocksCount, EnoughHops
<1>5. PICK f \in [0..M -> Seq(Block)] :
        HopSteps(f, graph, leaves[1], Main) /\ get_sequence(graph, leaves[1], Main) = f[M]
  <2>1. leaves[1] \in Block
    BY <1>1
  <2> QED
    BY <2>1, SequenceIs
<1>6. ASSUME NEW k \in 1..L
      PROVE  /\ SubSeq(leaves, 1, k) \in Seq(Block)
             /\ Last(SubSeq(leaves, 1, k)) = leaves[k]
             /\ \A j \in 1..L : leaves[j] \in Range(SubSeq(leaves, 1, k)) <=> j <= k
  <2> DEFINE s == SubSeq(leaves, 1, k)
  <2>1. s \in Seq(Block) /\ Len(s) = k /\ \A j \in 1..k : s[j] = leaves[j]
    BY <1>1
  <2>2. k \in 1..k
    BY <1>1
  <2> HIDE DEF s
  <2>3. Last(s) = leaves[k]
    BY <2>1, <2>2 DEF Last
  <2>4. DOMAIN s = 1..k
    BY <2>1
  <2>5. ASSUME NEW j \in 1..L PROVE leaves[j] \in Range(s) <=> j <= k
    <3>1. ASSUME leaves[j] \in Range(s) PROVE j <= k
      <4>1. PICK i \in 1..k : s[i] = leaves[j]
        BY <2>4, <3>1 DEF Range
      <4>2. leaves[i] = leaves[j] /\ i \in 1..L
        BY <1>1, <2>1, <4>1
      <4> QED
        BY <1>3, <4>2
    <3>2. ASSUME j <= k PROVE leaves[j] \in Range(s)
      <4>1. j \in 1..k /\ s[j] = leaves[j]
        BY <1>1, <2>1, <3>2
      <4> QED
        BY <2>4, <4>1 DEF Range
    <3> QED
      BY <3>1, <3>2
  <2> QED
    BY <2>1, <2>3, <2>5 DEF s
<1>7. ASSUME NEW k \in 1..L
      PROVE  Onward(graph, Main, SubSeq(leaves, 1, k)) = IF k < L THEN {p + k} ELSE {}
  <2> DEFINE s == SubSeq(leaves, 1, k)
             out == Onward(graph, Main, s)
  <2>1. Last(s) = leaves[k] /\ \A j \in 1..L : leaves[j] \in Range(s) <=> j <= k
    BY <1>6
  <2> HIDE DEF s, L
  <2>2. ASSUME NEW i \in out PROVE i = p + k /\ k < L
    <3>1. i \in 1..Len(graph) /\ graph[i].source = leaves[k] /\ graph[i].track = Main
      BY <1>1, <2>1 DEF Onward
    <3>2. i - p \in 1..(L - 1)
      BY <1>2, <3>1
    <3> DEFINE j == i - p
    <3>3. j \in 1..(L - 1) /\ j \in 1..L /\ p + j = i
      BY <1>1, <3>1, <3>2
    <3> HIDE DEF j
    <3>4. leaves[j] = leaves[k]
      BY <1>2, <3>1, <3>3
    <3>5. j = k
      BY <1>3, <3>3, <3>4
    <3> QED
      BY <1>1, <3>3, <3>5
  <2>3. ASSUME k < L PROVE p + k \in out
    <3>1. k \in 1..(L - 1) /\ k + 1 \in 1..L /\ ~(k + 1 <= k) /\ p + k \in 1..Len(graph) /\ (p + k) - p = k
      BY <1>1, <1>2, <2>3
    <3>2. graph[p + k].source = leaves[k] /\ graph[p + k].target = leaves[k + 1]
      BY <1>2, <3>1
    <3>3. graph[p + k].track = Main
      BY <1>2, <3>1
    <3>4. leaves[k + 1] \notin Range(s)
      BY <2>1, <3>1
    <3> QED
      BY <1>1, <2>1, <3>1, <3>2, <3>3, <3>4 DEF Onward
  <2> HIDE DEF out
  <2>4. out = IF k < L THEN {p + k} ELSE {}
    BY <2>2, <2>3
  <2> QED
    BY <2>4 DEF out, s, L
<1> DEFINE P == {n \in 0..M : f[n] = Walked(n)}
<1>8. 0 \in P
  <2>1. SubSeq(leaves, 1, 1) = <<leaves[1]>>
    <3>1. Append(<<>>, leaves[1]) = <<leaves[1]>>
      OBVIOUS
    <3>2. SubSeq(leaves, 1, 0) = <<>>
      OBVIOUS
    <3>3. SubSeq(leaves, 1, 1) = Append(SubSeq(leaves, 1, 0), leaves[1])
      BY <1>1
    <3> QED
      BY <3>1, <3>2, <3>3
  <2>2. f[0] = Walked(0)
    BY <1>1, <1>5, <2>1 DEF HopSteps
  <2> QED
    BY <1>4, <2>2
<1>9. ASSUME NEW n \in 1..M, n - 1 \in P PROVE n \in P
  <2>1. f[n - 1] = Walked(n - 1) /\ n \in 0..M
    BY <1>4, <1>9
  <2>2. f[n] = Hop(graph, Main, f[n - 1])
    BY <1>5 DEF HopSteps
  <2>3. CASE n < L
    <3>1. n - 1 < L /\ (n - 1) + 1 = n /\ n \in 1..L /\ n + 1 \in 1..L
      BY <1>1, <1>4, <2>3
    <3>2. f[n - 1] = SubSeq(leaves, 1, n)
      BY <2>1, <3>1
    <3>3. Onward(graph, Main, f[n - 1]) = {p + n}
      BY <1>7, <2>3, <3>1, <3>2
    <3>4. Min({p + n}) = p + n
      <4>1. {p + n} \in SUBSET Nat /\ {p + n} # {}
        BY <1>4
      <4> QED
        BY <4>1, MinOf
    <3>5. n \in 1..(L - 1)
      BY <1>1, <2>3, <3>1
    <3>6. graph[p + n].target = leaves[n + 1]
      BY <1>2, <3>5
    <3>7. f[n] = Append(SubSeq(leaves, 1, n), leaves[n + 1])
      <4>1. {p + n} # {}
        OBVIOUS
      <4> QED
        BY <2>2, <3>2, <3>3, <3>4, <3>6, <4>1, Zenon DEF Hop
    <3>8. Append(SubSeq(leaves, 1, n), leaves[n + 1]) = SubSeq(leaves, 1, n + 1)
      BY <1>1, <2>3, <3>1
    <3>9. Walked(n) = SubSeq(leaves, 1, n + 1)
      BY <2>3
    <3> QED
      BY <2>1, <3>7, <3>8, <3>9, Zenon
  <2>4. CASE ~(n < L)
    <3>1. Walked(n) = SubSeq(leaves, 1, L) /\ Walked(n - 1) = SubSeq(leaves, 1, L)
      <4>1. n - 1 < L => (n - 1) + 1 = L
        BY <1>1, <1>4, <2>4
      <4> HIDE DEF L
      <4> QED
        BY <2>4, <4>1
    <3>2. L \in 1..L /\ ~(L < L)
      BY <1>1
    <3>3. Onward(graph, Main, f[n - 1]) = {}
      BY <1>7, <2>1, <3>1, <3>2
    <3>4. f[n] = f[n - 1]
      BY <2>2, <3>3 DEF Hop
    <3> QED
      BY <2>1, <3>1, <3>4
  <2> QED
    BY <2>3, <2>4
<1>10. f[M] = Walked(M)
  <2> HIDE DEF P
  <2>1. \A n \in 0..M : n \in P
    BY <1>4, <1>8, <1>9, UpTo
  <2>2. M \in 0..M
    BY <1>4
  <2> QED
    BY <2>1, <2>2 DEF P
<1>11. Walked(M) = SubSeq(leaves, 1, L) /\ SubSeq(leaves, 1, L) = leaves
  BY <1>1, <1>4
<1> QED
  BY <1>5, <1>10, <1>11, Zenon

-----------------------------------------------------------------------------
(* The leaves come out as they stand in the document *)

\* Filtering twice, and filtering nothing out.
LEMMA KeptTwice ==
  ASSUME NEW X, NEW S, NEW T, NEW s \in Seq(X)
  PROVE  /\ Kept(Kept(s, S), T) = Kept(s, S \cap T)
         /\ Range(s) \subseteq S => Kept(s, S) = s
<1> DEFINE P == {u \in Seq(X) : /\ Kept(Kept(u, S), T) = Kept(u, S \cap T)
                                /\ Range(u) \subseteq S => Kept(u, S) = u}
<1>1. <<>> \in P
  <2>1. <<>> \in Seq(X)
    OBVIOUS
  <2> QED
    BY <2>1, KeptEmpty
<1>2. ASSUME NEW u \in Seq(X), NEW e \in X, u \in P PROVE Append(u, e) \in P
  <2> DEFINE k == Kept(u, S)
  <2>1. Kept(k, T) = Kept(u, S \cap T) /\ (Range(u) \subseteq S => k = u)
    BY <1>2
  <2>2. k \in Seq(X)
    BY KeptFacts
  <2>3. Kept(Append(u, e), S) = IF e \in S THEN Append(k, e) ELSE k
    BY KeptAppend
  <2>4. Kept(Append(u, e), S \cap T) =
          IF e \in S \cap T THEN Append(Kept(u, S \cap T), e) ELSE Kept(u, S \cap T)
    BY KeptAppend
  <2> HIDE DEF k
  <2>5. Kept(Append(k, e), T) = IF e \in T THEN Append(Kept(k, T), e) ELSE Kept(k, T)
    BY <2>2, KeptAppend
  <2>6. Kept(Kept(Append(u, e), S), T) = Kept(Append(u, e), S \cap T)
    <3>1. CASE e \in S
      <4>1. Kept(Append(u, e), S) = Append(k, e)
        BY <2>3, <3>1
      <4>2. Kept(Append(k, e), T) = Kept(Append(u, e), S \cap T)
        BY <2>1, <2>4, <2>5, <3>1
      <4> QED
        BY <4>1, <4>2, Zenon
    <3>2. CASE e \notin S
      BY <2>1, <2>3, <2>4, <3>2
    <3> QED
      BY <3>1, <3>2
  <2>7. Range(Append(u, e)) = Range(u) \cup {e} /\ Append(u, e) \in Seq(X)
    BY AppendFacts
  <2>8. Range(Append(u, e)) \subseteq S => Kept(Append(u, e), S) = Append(u, e)
    BY <2>1, <2>3, <2>7
  <2> QED
    BY <2>6, <2>7, <2>8
<1> HIDE DEF P
<1>3. s \in P
  BY <1>1, <1>2, EverySeq
<1> QED
  BY <1>3 DEF P

\* Where nothing occurs twice all is distinct.
LEMMA DistinctSame ==
  ASSUME NEW X, NEW s \in Seq(X), IsInjective(s)
  PROVE  Distinct(s) = s
<1> DEFINE P == {u \in Seq(X) : IsInjective(u) => Distinct(u) = u}
<1>1. <<>> \in P
  <2>1. <<>> \in Seq(X)
    OBVIOUS
  <2> QED
    BY <2>1, DistinctEmpty
<1>2. ASSUME NEW u \in Seq(X), NEW e \in X, u \in P PROVE Append(u, e) \in P
  <2>1. /\ IsInjective(Append(u, e)) => IsInjective(u) /\ e \notin Range(u)
        /\ Append(u, e) \in Seq(X)
    BY AppendFacts
  <2>2. Distinct(Append(u, e)) = IF e \in Range(u) THEN Distinct(u) ELSE Append(Distinct(u), e)
    BY DistinctAppend
  <2> QED
    BY <1>2, <2>1, <2>2
<1> HIDE DEF P
<1>3. s \in P
  BY <1>1, <1>2, EverySeq
<1> QED
  BY <1>3 DEF P

\* Those of T keep the order of s when s has all of them, whatever follows.
LEMMA LeadKept ==
  ASSUME NEW X, NEW T, NEW s \in Seq(X), IsInjective(s), Range(s) \subseteq T,
         NEW t \in Seq(X), Range(t) \cap T \subseteq Range(s)
  PROVE  Kept(Distinct(s \o t), T) = s
<1> DEFINE P == {u \in Seq(X) : Range(u) \cap T \subseteq Range(s) => Kept(Distinct(s \o u), T) = s}
<1>1. <<>> \in P
  <2>1. s \o <<>> = s /\ <<>> \in Seq(X)
    OBVIOUS
  <2>2. Distinct(s) = s /\ Kept(s, T) = s
    BY DistinctSame, KeptTwice
  <2> QED
    BY <2>1, <2>2
<1>2. ASSUME NEW u \in Seq(X), NEW e \in X, u \in P PROVE Append(u, e) \in P
  <2> SUFFICES ASSUME Range(Append(u, e)) \cap T \subseteq Range(s)
               PROVE  Kept(Distinct(s \o Append(u, e)), T) = s
    OBVIOUS
  <2>1. Range(Append(u, e)) = Range(u) \cup {e}
    BY AppendFacts
  <2> DEFINE su == s \o u
             d == Distinct(su)
  <2>2. Kept(d, T) = s
    BY <1>2, <2>1
  <2>3. s \o Append(u, e) = Append(su, e) /\ su \in Seq(X)
    BY ConcatAppend
  <2>4. Range(s) \subseteq Range(su)
    BY ConcatFacts
  <2> HIDE DEF su
  <2>5. Distinct(Append(su, e)) = IF e \in Range(su) THEN d ELSE Append(d, e)
    BY <2>3, DistinctAppend
  <2>6. d \in Seq(X)
    BY <2>3, DistinctFacts
  <2> HIDE DEF d
  <2>7. CASE e \in T
    <3>1. e \in Range(su)
      BY <2>1, <2>4, <2>7
    <3> QED
      BY <2>2, <2>3, <2>5, <3>1
  <2>8. CASE e \notin T
    <3>1. Kept(Append(d, e), T) = Kept(d, T)
      BY <2>6, <2>8, KeptAppend
    <3> QED
      BY <2>2, <2>3, <2>5, <3>1
  <2> QED
    BY <2>7, <2>8
<1> HIDE DEF P
<1>3. t \in P
  BY <1>1, <1>2, EverySeq
<1> QED
  BY <1>3 DEF P

\* A graph without steps of the main flow has no chain of it.
LEMMA NoFlow ==
  ASSUME rg \in Seq(Step), \A i \in 1..Len(rg) : rg[i].track # Main
  PROVE  Flow = <<>>
<1> DEFINE from == [i \in DOMAIN rg |-> rg[i].source]
           starts(i) ==
             /\ rg[i].track = Main
             /\ Incoming(rg, rg[i].source, Main) = {}
             /\ \A j \in 1..(i - 1) : rg[j].track = Main => rg[j].source # rg[i].source
<1>1. {i \in DOMAIN rg : starts(i)} = {}
  OBVIOUS
<1>2. heads(rg, Main) = At(from, {i \in DOMAIN rg : starts(i)})
  BY DEF heads
<1>3. from \in Seq(Block)
  <2>1. ASSUME NEW i \in 1..Len(rg) PROVE rg[i].source \in Block
    <3>1. rg[i] \in Step
      OBVIOUS
    <3> QED
      BY <3>1 DEF Step
  <2>2. DOMAIN rg = 1..Len(rg) /\ Len(rg) \in Nat
    OBVIOUS
  <2> QED
    BY <2>1, <2>2
<1> HIDE DEF from, starts
<1>4. heads(rg, Main) = <<>>
  BY <1>1, <1>2, <1>3, AtNone
<1>5. Flow = FlattenSeq([i \in DOMAIN heads(rg, Main) |-> get_sequence(rg, heads(rg, Main)[i], Main)])
  BY DEF Flow
<1>6. [i \in DOMAIN <<>> |-> get_sequence(rg, <<>>[i], Main)] = <<>>
  OBVIOUS
<1> QED
  BY <1>4, <1>5, <1>6, FlattenEmpty

\* One with a chain of leaves has the leaves.
LEMMA LeavesFlow ==
  ASSUME rg \in Seq(Step), NEW leaves \in Seq(Block), IsInjective(leaves), Len(leaves) > 1,
         NEW p \in Nat, Behind(rg, leaves, p)
  PROVE  Flow = leaves
<1>1. PICK graph \in Seq(Step) : graph = rg
  OBVIOUS
<1>2. heads(graph, Main) = <<leaves[1]>> /\ get_sequence(graph, leaves[1], Main) = leaves
  BY <1>1, HeadOfChain, SequenceOfChain
<1>3. Flow = FlattenSeq([i \in DOMAIN heads(graph, Main) |->
                           get_sequence(graph, heads(graph, Main)[i], Main)])
  BY <1>1 DEF Flow
<1>4. Flow = FlattenSeq([i \in DOMAIN <<leaves[1]>> |->
                           get_sequence(graph, <<leaves[1]>>[i], Main)])
  BY <1>2, <1>3, Zenon
<1>5. [i \in DOMAIN <<leaves[1]>> |-> get_sequence(graph, <<leaves[1]>>[i], Main)]
        = <<get_sequence(graph, leaves[1], Main)>>
  OBVIOUS
<1>6. FlattenSeq(<<leaves>>) = leaves
  <2>1. Append(<<>>, leaves) = <<leaves>> /\ <<>> \o leaves = leaves /\ <<>> \in Seq(Seq(Block))
    OBVIOUS
  <2>2. FlattenSeq(Append(<<>>, leaves)) = FlattenSeq(<<>>) \o leaves
    BY <2>1, FlattenAppend
  <2> QED
    BY <2>1, <2>2, FlattenEmpty
<1> QED
  BY <1>2, <1>4, <1>5, <1>6, Zenon

\* Where each of three sequences lies when they follow each other.
LEMMA ThreeParts ==
  ASSUME NEW X, NEW s \in Seq(X), NEW t \in Seq(X), NEW u \in Seq(X),
         NEW all, all = s \o (t \o u)
  PROVE  /\ Len(all) = Len(s) + (Len(t) + Len(u))
         /\ \A i \in 1..Len(s) : all[i] = s[i]
         /\ \A i \in 1..Len(t) : all[Len(s) + i] = t[i]
         /\ \A i \in 1..Len(u) : all[Len(s) + Len(t) + i] = u[i]
<1> DEFINE tu == t \o u
<1>1. /\ Len(s) \in Nat /\ Len(t) \in Nat /\ Len(u) \in Nat /\ tu \in Seq(X)
      /\ Len(tu) = Len(t) + Len(u)
      /\ \A i \in 1..Len(t) : tu[i] = t[i]
      /\ \A i \in 1..Len(u) : tu[Len(t) + i] = u[i]
  OBVIOUS
<1> HIDE DEF tu
<1>2. /\ Len(all) = Len(s) + Len(tu)
      /\ \A i \in 1..Len(s) : all[i] = s[i]
      /\ \A i \in 1..Len(tu) : all[Len(s) + i] = tu[i]
  BY <1>1 DEF tu
<1>3. ASSUME NEW i \in 1..Len(u) PROVE all[Len(s) + Len(t) + i] = u[i]
  <2>1. Len(t) + i \in 1..Len(tu) /\ Len(s) + (Len(t) + i) = Len(s) + Len(t) + i
    BY <1>1
  <2> QED
    BY <1>1, <1>2, <2>1
<1> QED
  BY <1>1, <1>2, <1>3

\* After ReadingOrderAnalyzer came last, and alone on the main flow, the flow is
\* the leaves, or empty where there are not two of them.
LEMMA FlowOrNot ==
  ASSUME TypeOK, ReadingInv, phase = "done",
         Last(Analyzers) = ReadingOrder, ReadingOrder \notin failures,
         \A e \in Range(rg) : e.track = Main => e.by = ReadingOrder
  PROVE  Flow = <<>> \/ Flow = Leaves(tree)
<1>1. rg \in Seq(Step) /\ Len(Analyzers) \in Nat
  BY ManifestAssumption DEF TypeOK
<1>2. step = Len(Analyzers) + 1 /\ rg \in Seq(MadeBy(Begun(step)))
  BY DEF ReadingInv
<1>3. CASE Len(Analyzers) = 0
  <2>1. Begun(step) = {}
    BY <1>2, <1>3 DEF Begun
  <2>2. MadeBy(Begun(step)) = {}
    BY <2>1 DEF MadeBy
  <2>3. \A i \in 1..Len(rg) : rg[i].track # Main
    BY <1>2, <2>2
  <2> QED
    BY <1>1, <2>3, NoFlow
<1>4. CASE Len(Analyzers) # 0
  <2> DEFINE L == Len(Analyzers)
  <2>1. Analyzers[L] = ReadingOrder /\ L \in DOMAIN Analyzers
    BY <1>1, <1>4, ManifestAssumption DEF Last
  <2>2. ReadLast
    BY <1>1, <1>2, <1>4, <2>1 DEF ReadLast
  <2>3. PICK old \in Seq(MadeBy(Begun(L))) : rg = old \o FlowSteps(tree)
    BY <2>2 DEF ReadingInv
  <2>4. PICK leaves \in Seq(Block) : leaves = Leaves(tree) /\ IsInjective(leaves)
    BY LeavesFacts
  <2>5. PICK side \in Seq(OffMain) : FlowSteps(tree) = Chain(leaves) \o side
    BY <2>4, FlowStepsFacts
  <2>6. PICK chain \in Seq(Ordering) : chain = Chain(leaves)
    BY ChainType
  <2>7. \A e \in MadeBy(Begun(L)) : e \in Step /\ e.by # ReadingOrder
    <3>1. ReadingOrder \notin Begun(L)
      <4>1. \A i \in 1..(L - 1) : i \in DOMAIN Analyzers /\ i # L
        BY <1>1, ManifestAssumption
      <4> QED
        BY <2>1, <4>1, FlowAssumption DEF Begun
    <3> QED
      BY <3>1 DEF MadeBy
  <2> DEFINE p == Len(old)
             m == Len(chain)
             n == Len(side)
  <2>8. rg = old \o (chain \o side)
    BY <2>3, <2>5, <2>6, Zenon
  <2>9. old \in Seq(Step) /\ chain \in Seq(Step) /\ side \in Seq(Step)
    <3>1. MadeBy(Begun(L)) \subseteq Step /\ Ordering \subseteq Step /\ OffMain \subseteq Step
      BY DEF MadeBy, Ordering, OffMain
    <3> QED
      BY <3>1, SeqOver
  <2>10. PICK graph \in Seq(Step) : graph = rg
    BY <1>1
  <2>11. /\ p \in Nat /\ m \in Nat /\ n \in Nat /\ Len(graph) = p + (m + n)
         /\ \A i \in 1..p : graph[i] = old[i] /\ old[i] \in MadeBy(Begun(L))
         /\ \A i \in 1..m : graph[p + i] = chain[i]
         /\ \A i \in 1..n : graph[p + m + i] = side[i] /\ side[i] \in OffMain
    BY <2>8, <2>9, <2>10, ThreeParts
  <2> HIDE DEF p, m, n
  <2>12. \A i \in 1..p : graph[i].track # Main
    <3>1. ASSUME NEW i \in 1..p, graph[i].track = Main PROVE FALSE
      <4>1. graph[i].by # ReadingOrder
        BY <2>7, <2>11
      <4>2. i \in 1..Len(graph)
        BY <2>11
      <4>3. graph[i] \in Range(rg)
        BY <2>10, <4>2 DEF Range
      <4> QED
        BY <3>1, <4>1, <4>3
    <3> QED
      BY <3>1
  <2>13. \A i \in 1..n : graph[p + m + i].track # Main
    BY <2>11 DEF OffMain
  <2>14. m = IF Len(leaves) = 0 THEN 0 ELSE Len(leaves) - 1
    BY <2>6, ChainType DEF m
  <2>15. \A i \in 1..Len(graph) :
           i \in 1..p \/ i - p \in 1..m \/ (i - (p + m) \in 1..n /\ i = p + m + (i - (p + m)))
    BY <2>11
  <2>16. CASE Len(leaves) <= 1
    <3>1. m = 0
      <4>1. PICK l \in Nat : l = Len(leaves)
        OBVIOUS
      <4>2. l <= 1 /\ m = IF l = 0 THEN 0 ELSE l - 1
        BY <2>14, <2>16, <4>1, Zenon
      <4> QED
        BY <4>2
    <3>2. ASSUME NEW i \in 1..Len(graph) PROVE graph[i].track # Main
      <4>1. CASE i \in 1..p
        BY <2>12, <4>1
      <4>2. CASE i - p \in 1..m
        <5>1. 1..m = {}
          BY <3>1
        <5> QED
          BY <4>2, <5>1
      <4>3. CASE i - (p + m) \in 1..n /\ i = p + m + (i - (p + m))
        BY <2>13, <4>3
      <4> QED
        BY <2>15, <4>1, <4>2, <4>3
    <3> QED
      BY <1>1, <2>10, <3>2, NoFlow
  <2>17. CASE Len(leaves) > 1
    <3>1. m = Len(leaves) - 1 /\ Len(leaves) \in Nat
      BY <2>14, <2>17
    <3>2. ASSUME NEW k \in 1..m
          PROVE  /\ graph[p + k].source = leaves[k] /\ graph[p + k].target = leaves[k + 1]
                 /\ graph[p + k].track = Main
      <4>1. k \in 1..(Len(leaves) - 1) /\ k \in 1..Len(leaves) /\ k + 1 \in 1..Len(leaves)
        BY <3>1
      <4>2. leaves[k] \in Block /\ leaves[k + 1] \in Block
        BY <4>1
      <4>3. graph[p + k] = NewStep(leaves[k], leaves[k + 1], Main)
        BY <2>6, <2>11, <4>1 DEF Chain
      <4> QED
        BY <4>2, <4>3, NewStepFacts, ManifestAssumption
    <3>3. ASSUME NEW i \in 1..Len(graph) PROVE graph[i].track = Main <=> i - p \in 1..m
      <4>1. CASE i \in 1..p
        BY <2>11, <2>12, <4>1
      <4>2. CASE i - p \in 1..m
        <5>1. p + (i - p) = i
          BY <2>11
        <5> QED
          BY <3>2, <4>2, <5>1
      <4>3. CASE i - (p + m) \in 1..n /\ i = p + m + (i - (p + m))
        <5>1. graph[i].track # Main
          BY <2>13, <4>3
        <5>2. ~(i - p \in 1..m)
          BY <2>11, <4>3
        <5> QED
          BY <5>1, <5>2
      <4> QED
        BY <2>15, <4>1, <4>2, <4>3
    <3>4. Behind(graph, leaves, p)
      <4>1. /\ p + m <= Len(graph)
            /\ \A i \in 1..Len(graph) : graph[i].track = Main <=> i - p \in 1..m
            /\ \A k \in 1..m :
                 graph[p + k].source = leaves[k] /\ graph[p + k].target = leaves[k + 1]
        BY <2>11, <3>2, <3>3
      <4> QED
        BY <3>1, <4>1 DEF Behind
    <3>5. Flow = leaves
      BY <1>1, <2>4, <2>10, <2>11, <2>17, <3>4, LeavesFlow
    <3> QED
      BY <2>4, <3>5
  <2>18. Len(leaves) \in Nat
    OBVIOUS
  <2> QED
    BY <2>16, <2>17, <2>18
<1> QED
  BY <1>3, <1>4

\* What the chunker makes of the state that such an execution leaves.
LEMMA DocumentFollowed ==
  ASSUME TypeOK, ReadingInv
  PROVE  ChunksFollowTheDocument
<1> SUFFICES ASSUME phase = "done",
                    Last(Analyzers) = ReadingOrder, ReadingOrder \notin failures,
                    \A e \in Range(rg) : e.track = Main => e.by = ReadingOrder
             PROVE  Kept(ordered_nodes, {b \in DOMAIN tree : tree[b].type \in LeafTypes})
                      = Leaves(tree)
  BY DEF ChunksFollowTheDocument
<1>1. PICK leaves \in Seq(Block) : leaves = Leaves(tree) /\ IsInjective(leaves)
  BY LeavesFacts
<1>2. PICK live \in Seq(Block) : live = Collected /\ IsInjective(live)
  BY CollectedFacts
<1>3. PICK T : T = {b \in DOMAIN tree : tree[b].type \in LeafTypes}
  OBVIOUS
<1>4. Kept(live, T) = leaves
  <2> DEFINE S == {b \in DOMAIN tree : ~tree[b].tomb}
  <2>1. S \cap T = {b \in DOMAIN tree : ~tree[b].tomb /\ tree[b].type \in LeafTypes}
    BY <1>3
  <2>2. live = Kept(Order, S) /\ leaves = Kept(Order, S \cap T)
    BY <1>1, <1>2, <2>1 DEF Collected, Leaves
  <2> HIDE DEF S
  <2>3. Kept(Kept(Order, S), T) = Kept(Order, S \cap T)
    BY ManifestAssumption, KeptTwice
  <2> QED
    BY <2>2, <2>3, Zenon
<1>5. Range(leaves) = Range(live) \cap T
  BY <1>4, KeptFacts
<1>6. PICK kept : kept = Kept(Flow, Range(live))
  OBVIOUS
<1>7. ordered_nodes = Distinct(kept \o live)
  BY <1>2, <1>6 DEF ordered_nodes
<1>8. CASE Flow = <<>>
  <2>1. kept = <<>>
    BY <1>6, <1>8, KeptEmpty
  <2>2. kept \o live = live
    BY <2>1
  <2>3. ordered_nodes = live
    BY <1>2, <1>7, <2>2, DistinctSame
  <2> QED
    BY <1>1, <1>3, <1>4, <2>3
<1>9. CASE Flow = leaves
  <2>1. kept = leaves
    BY <1>5, <1>6, <1>9, KeptTwice
  <2>2. Range(leaves) \subseteq T /\ Range(live) \cap T \subseteq Range(leaves)
    BY <1>5
  <2>3. Kept(Distinct(leaves \o live), T) = leaves
    BY <1>1, <2>2, LeadKept
  <2> QED
    BY <1>1, <1>3, <1>7, <2>1, <2>3
<1> QED
  BY <1>1, <1>8, <1>9, FlowOrNot

\* Every block with text is in exactly one chunk, once, and every chunk is
\* within its limits, whatever tree and graph the pipeline leaves.
THEOREM SoundChunks == Spec => []ChunksSound
<1>1. TypeOK => ChunksSound
  BY ChunksAreSound DEF TypeOK
<1> QED
  BY <1>1, TypeCorrect, PTL

\* The chunker meets the leaves in document order after an execution that
\* ReadingOrderAnalyzer ended with the main flow for itself.
THEOREM ReadingFollowed == Spec => []ChunksFollowTheDocument
<1>1. TypeOK /\ ReadingInv => ChunksFollowTheDocument
  BY DocumentFollowed
<1> QED
  BY <1>1, TypeCorrect, ReadingInvariance, PTL
=============================================================================

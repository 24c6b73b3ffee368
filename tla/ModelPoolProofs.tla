--------------------------- MODULE ModelPoolProofs ---------------------------
(***************************************************************************)
(* Proofs about the Runner's model pool, for every number of requests and  *)
(* loaders, whatever they weigh, and every budget.                         *)
(*                                                                         *)
(* The budget is a sum over a set of loaders, which the library defines by *)
(* recursion on the set.  The first part shows what that sum does when a   *)
(* loader is added, by least counterexamples; the second that the eviction *)
(* loop keeps the sum of what is resident within the budget.               *)
(***************************************************************************)
EXTENDS ModelPool, FiniteSetTheorems, WellFoundedInduction, TLAPS

\* A set of numbers has a least element.
LEMMA LeastOf ==
  ASSUME NEW N \in SUBSET Nat, N # {}
  PROVE  \E n \in N : \A m \in N : n <= m
  <1>1. PICK n \in N : \A m \in N : ~(<<m, n>> \in OpToRel(<, Nat))
    BY WFMin, NatLessThanWellFounded
  <1>2. ASSUME NEW m \in N PROVE n <= m
    <2>1. ~(m < n)
      BY <1>1 DEF OpToRel
    <2> QED
      BY <2>1
  <1> QED
    BY <1>2

-----------------------------------------------------------------------------
(* The sum of the VRAM of a set of loaders *)

\* The element the library's sum takes out of a set, and the sum with it taken out.
Taken(T) == CHOOSE x \in T : TRUE
Sum(f, T) == IF T = {} THEN 0 ELSE Vram[Taken(T)] + f[T \ {Taken(T)}]

\* f is the sum for the sets of at most n loaders.
SumsUpTo(f, n) ==
  \A T \in SUBSET Loader : Cardinality(T) <= n => f[T] = Sum(f, T)

\* The sum of the VRAM of a set, as it is defined.
LEMMA VramIsSum ==
  ASSUME NEW S
  PROVE  VramOf(S) = (CHOOSE f : f = [T \in SUBSET S |-> Sum(f, T)])[S]
  BY DEF VramOf, SumFunctionOnSet, FoldFunctionOnSet, MapThenFoldSet, Sum, Taken

\* A set of loaders without one of them is smaller by one.
LEMMA TakenOut ==
  ASSUME NEW T \in SUBSET Loader, T # {}
  PROVE  /\ Taken(T) \in T /\ Taken(T) \in Loader
         /\ T \ {Taken(T)} \in SUBSET Loader
         /\ Cardinality(T) \in Nat /\ Cardinality(T) # 0
         /\ Cardinality(T \ {Taken(T)}) = Cardinality(T) - 1
  <1>1. Taken(T) \in T
    BY DEF Taken
  <1>2. IsFiniteSet(T)
    BY FS_Subset, PoolAssumption
  <1>3. Cardinality(T) \in Nat /\ Cardinality(T) # 0
    BY <1>2, FS_CardinalityType, FS_EmptySet
  <1>4. Cardinality(T \ {Taken(T)}) = Cardinality(T) - 1
    BY <1>1, <1>2, FS_RemoveElement
  <1> QED
    BY <1>1, <1>3, <1>4

\* A function that is the sum for small sets can be made one for larger sets.
LEMMA SumsExtend ==
  ASSUME NEW n \in Nat, NEW f \in [SUBSET Loader -> Nat], SumsUpTo(f, n)
  PROVE  \E g \in [SUBSET Loader -> Nat] : SumsUpTo(g, n + 1)
  <1> DEFINE g == [T \in SUBSET Loader |-> Sum(f, T)]
  <1>1. g \in [SUBSET Loader -> Nat]
    <2>1. ASSUME NEW T \in SUBSET Loader PROVE Sum(f, T) \in Nat
      <3>1. CASE T = {}
        BY <3>1 DEF Sum
      <3>2. CASE T # {}
        <4>1. Vram[Taken(T)] \in Nat /\ f[T \ {Taken(T)}] \in Nat
          BY <3>2, TakenOut, PoolAssumption
        <4> QED
          BY <3>2, <4>1 DEF Sum
      <3> QED
        BY <3>1, <3>2
    <2> QED
      BY <2>1
  <1>2. ASSUME NEW T \in SUBSET Loader, Cardinality(T) <= n + 1
        PROVE  g[T] = Sum(g, T)
    <2>1. CASE T = {}
      BY <2>1 DEF Sum
    <2>2. CASE T # {}
      <3> DEFINE U == T \ {Taken(T)}
      <3>1. U \in SUBSET Loader /\ Cardinality(U) <= n
        BY <1>2, <2>2, TakenOut
      <3>2. g[U] = f[U]
        BY <3>1 DEF SumsUpTo
      <3>3. g[T] = Vram[Taken(T)] + f[U]
        BY <2>2 DEF Sum
      <3> QED
        BY <2>2, <3>2, <3>3 DEF Sum
    <2> QED
      BY <2>1, <2>2
  <1> HIDE DEF g
  <1>3. SumsUpTo(g, n + 1)
    BY <1>2 DEF SumsUpTo
  <1> QED
    BY <1>1, <1>3

\* Hence there is one for all sets of loaders.
LEMMA SumExists ==
  \E f \in [SUBSET Loader -> Nat] : \A T \in SUBSET Loader : f[T] = Sum(f, T)
  <1> DEFINE N == {n \in Nat : ~\E f \in [SUBSET Loader -> Nat] : SumsUpTo(f, n)}
  <1>1. 0 \notin N
    <2> DEFINE z == [T \in SUBSET Loader |-> 0]
    <2>1. z \in [SUBSET Loader -> Nat]
      OBVIOUS
    <2>2. ASSUME NEW T \in SUBSET Loader, Cardinality(T) <= 0 PROVE z[T] = Sum(z, T)
      <3>1. ASSUME T # {} PROVE FALSE
        <4>1. Cardinality(T) \in Nat /\ Cardinality(T) # 0
          BY <3>1, TakenOut
        <4> QED
          BY <2>2, <4>1
      <3> QED
        BY <3>1 DEF Sum
    <2> HIDE DEF z
    <2>3. SumsUpTo(z, 0)
      BY <2>2 DEF SumsUpTo
    <2> QED
      BY <2>1, <2>3
  <1>2. N = {}
    <2> SUFFICES ASSUME N # {} PROVE FALSE
      OBVIOUS
    <2>1. PICK n \in N : \A m \in N : n <= m
      <3>1. N \in SUBSET Nat
        OBVIOUS
      <3> HIDE DEF N
      <3> QED
        BY <3>1, LeastOf
    <2>2. n \in Nat /\ n # 0
      BY <1>1, <2>1
    <2>3. n - 1 \in Nat /\ n - 1 \notin N
      <3>1. n - 1 \in Nat /\ ~(n <= n - 1)
        BY <2>2
      <3> HIDE DEF N
      <3> QED
        BY <2>1, <3>1
    <2>4. PICK f \in [SUBSET Loader -> Nat] : SumsUpTo(f, n - 1)
      BY <2>3
    <2>5. (n - 1) + 1 = n
      BY <2>2
    <2>6. \E g \in [SUBSET Loader -> Nat] : SumsUpTo(g, n)
      BY <2>3, <2>4, <2>5, SumsExtend
    <2> QED
      BY <2>1, <2>6
  <1>3. Cardinality(Loader) \in Nat
    BY FS_CardinalityType, PoolAssumption
  <1>4. PICK f \in [SUBSET Loader -> Nat] : SumsUpTo(f, Cardinality(Loader))
    BY <1>2, <1>3
  <1>5. \A T \in SUBSET Loader : Cardinality(T) <= Cardinality(Loader)
    BY FS_Subset, PoolAssumption
  <1> QED
    BY <1>4, <1>5 DEF SumsUpTo

\* Two such functions agree on a set if each is one for its subsets.
LEMMA SumIsUnique ==
  ASSUME NEW S \in SUBSET Loader, NEW f, NEW g,
         \A T \in SUBSET S : f[T] = Sum(f, T) /\ g[T] = Sum(g, T)
  PROVE  f[S] = g[S]
  <1> DEFINE Differ(n) == \E T \in SUBSET S : Cardinality(T) = n /\ f[T] # g[T]
             N == {n \in Nat : Differ(n)}
  <1>1. N = {}
    <2> SUFFICES ASSUME N # {} PROVE FALSE
      OBVIOUS
    <2>1. PICK n \in N : \A m \in N : n <= m
      <3>1. N \in SUBSET Nat
        OBVIOUS
      <3> HIDE DEF N
      <3> QED
        BY <3>1, LeastOf
    <2>2. PICK T \in SUBSET S : Cardinality(T) = n /\ f[T] # g[T]
      BY <2>1
    <2>3. T # {}
      BY <2>2 DEF Sum
    <2> DEFINE U == T \ {Taken(T)}
    <2>4. U \in SUBSET S /\ Cardinality(U) \in Nat /\ ~(n <= Cardinality(U))
      BY <2>2, <2>3, TakenOut
    <2>5. f[U] = g[U]
      <3>1. Cardinality(U) \notin N
        <4> HIDE DEF N, U
        <4> QED
          BY <2>1, <2>4
      <3> QED
        BY <2>4, <3>1
    <2>6. f[T] = Vram[Taken(T)] + f[U] /\ g[T] = Vram[Taken(T)] + g[U]
      BY <2>2, <2>3 DEF Sum
    <2> QED
      BY <2>2, <2>5, <2>6
  <1>2. Cardinality(S) \in Nat
    BY FS_Subset, FS_CardinalityType, PoolAssumption
  <1>3. ~Differ(Cardinality(S))
    BY <1>1, <1>2
  <1> QED
    BY <1>3

\* The sum of a set of loaders is a number, is that of one function for all sets.
LEMMA VramIsOneSum ==
  ASSUME NEW F \in [SUBSET Loader -> Nat], \A T \in SUBSET Loader : F[T] = Sum(F, T),
         NEW S \in SUBSET Loader
  PROVE  VramOf(S) = F[S]
  <1> DEFINE R == [T \in SUBSET S |-> F[T]]
             f == CHOOSE f : f = [T \in SUBSET S |-> Sum(f, T)]
  <1>1. R = [T \in SUBSET S |-> Sum(R, T)]
    <2>1. ASSUME NEW T \in SUBSET S PROVE F[T] = Sum(R, T)
      <3>1. CASE T = {}
        BY <3>1 DEF Sum
      <3>2. CASE T # {}
        <4>1. T \ {Taken(T)} \in SUBSET S
          OBVIOUS
        <4> QED
          BY <3>2, <4>1 DEF Sum
      <3> QED
        BY <3>1, <3>2
    <2> QED
      BY <2>1
  <1> HIDE DEF R
  <1>2. f = [T \in SUBSET S |-> Sum(f, T)]
    BY <1>1
  <1> HIDE DEF f
  <1>3. \A T \in SUBSET S : f[T] = Sum(f, T) /\ F[T] = Sum(F, T)
    BY <1>2
  <1>4. f[S] = F[S]
    BY <1>3, SumIsUnique
  <1> QED
    BY <1>4, VramIsSum DEF f

\* Adding a loader adds its VRAM, whatever order the library's sum takes.
LEMMA SumAdds ==
  ASSUME NEW F \in [SUBSET Loader -> Nat], \A T \in SUBSET Loader : F[T] = Sum(F, T),
         NEW S \in SUBSET Loader, NEW l \in Loader \ S
  PROVE  F[S \cup {l}] = F[S] + Vram[l]
  <1> DEFINE Wrong(n) == \E T \in SUBSET Loader : \E x \in Loader \ T :
                           Cardinality(T) = n /\ F[T \cup {x}] # F[T] + Vram[x]
             N == {n \in Nat : Wrong(n)}
  <1>1. N = {}
    <2> SUFFICES ASSUME N # {} PROVE FALSE
      OBVIOUS
    <2>1. PICK n \in N : \A m \in N : n <= m
      <3>1. N \in SUBSET Nat
        OBVIOUS
      <3> HIDE DEF N
      <3> QED
        BY <3>1, LeastOf
    <2>2. PICK T \in SUBSET Loader, x \in Loader :
            x \notin T /\ Cardinality(T) = n /\ F[T \cup {x}] # F[T] + Vram[x]
      BY <2>1
    <2> DEFINE U == T \cup {x}
               c == Taken(U)
               W == T \ {c}
    <2>3. U \in SUBSET Loader /\ U # {}
      BY <2>2
    <2>4. F[U] = Vram[c] + F[U \ {c}] /\ c \in U
      BY <2>3, TakenOut DEF Sum
    <2>5. Vram[x] \in Nat /\ Vram[c] \in Nat /\ F[T] \in Nat /\ F[W] \in Nat
      BY <2>2, <2>3, <2>4, PoolAssumption
    <2>6. CASE c = x
      <3>1. U \ {c} = T
        BY <2>2, <2>6
      <3>2. F[U] = Vram[x] + F[T]
        <4> HIDE DEF U, c
        <4> QED
          BY <2>4, <2>6, <3>1
      <3>3. F[U] = F[T] + Vram[x]
        <4> HIDE DEF U
        <4> QED
          BY <2>5, <3>2
      <3> QED
        BY <2>2, <3>3
    <2>7. CASE c # x
      <3>1. c \in T /\ c \in Loader \ W /\ x \in Loader \ W /\ W \in SUBSET Loader
        BY <2>2, <2>4, <2>7
      <3>2. Cardinality(W) \in Nat /\ ~(n <= Cardinality(W))
        <4>1. IsFiniteSet(T)
          BY FS_Subset, PoolAssumption
        <4>2. Cardinality(W) = Cardinality(T) - 1 /\ Cardinality(T) \in Nat
          <5> HIDE DEF c
          <5> QED
            BY <3>1, <4>1, FS_RemoveElement, FS_CardinalityType
        <4>3. Cardinality(W) \in Nat
          BY <4>1, FS_RemoveElement, FS_CardinalityType
        <4> QED
          BY <2>2, <4>2, <4>3
      <3>3. ~Wrong(Cardinality(W))
        <4>1. Cardinality(W) \notin N
          <5> HIDE DEF N, W
          <5> QED
            BY <2>1, <3>2
        <4> HIDE DEF Wrong, W
        <4> QED
          BY <3>2, <4>1
      <3>4. F[W \cup {x}] = F[W] + Vram[x] /\ F[W \cup {c}] = F[W] + Vram[c]
        <4> HIDE DEF W, c
        <4> QED
          BY <3>1, <3>3
      <3>5. U \ {c} = W \cup {x} /\ W \cup {c} = T
        BY <2>7, <3>1
      <3>6. F[U] = Vram[c] + (F[W] + Vram[x]) /\ F[T] = F[W] + Vram[c]
        <4> HIDE DEF U, W, c
        <4> QED
          BY <2>4, <3>4, <3>5
      <3>7. F[U] = F[T] + Vram[x]
        <4> HIDE DEF U, W, c
        <4> QED
          BY <2>5, <3>6
      <3> QED
        BY <2>2, <3>7
    <2> QED
      BY <2>6, <2>7
  <1>2. Cardinality(S) \in Nat
    BY FS_Subset, FS_CardinalityType, PoolAssumption
  <1>3. ~Wrong(Cardinality(S))
    BY <1>1, <1>2
  <1> QED
    BY <1>3

\* What the pool's arithmetic needs to know of VramOf.
LEMMA VramAdds ==
  /\ VramOf({}) = 0
  /\ \A S \in SUBSET Loader : VramOf(S) \in Nat
  /\ \A S \in SUBSET Loader : \A l \in Loader \ S : VramOf(S \cup {l}) = VramOf(S) + Vram[l]
  <1>1. PICK F \in [SUBSET Loader -> Nat] : \A T \in SUBSET Loader : F[T] = Sum(F, T)
    BY SumExists
  <1>2. \A S \in SUBSET Loader : VramOf(S) = F[S]
    BY <1>1, VramIsOneSum
  <1>3. F[{}] = 0
    BY <1>1 DEF Sum
  <1>4. \A S \in SUBSET Loader : \A l \in Loader \ S : F[S \cup {l}] = F[S] + Vram[l]
    BY <1>1, SumAdds
  <1> QED
    BY <1>2, <1>3, <1>4

-----------------------------------------------------------------------------
(* The stamps *)

\* Taking a stamp out leaves the others in their order.
LEMMA RemoveFirstKeeps ==
  ASSUME NEW S, NEW s \in Seq(S), IsInjective(s), NEW e
  PROVE  /\ RemoveFirst(s, e) \in Seq(S)
         /\ IsInjective(RemoveFirst(s, e))
         /\ Range(RemoveFirst(s, e)) = Range(s) \ {e}
  <1>1. CASE e \notin Range(s)
    <2>1. RemoveFirst(s, e) = s
      BY <1>1 DEF RemoveFirst, Range
    <2> QED
      BY <1>1, <2>1
  <1>2. CASE e \in Range(s)
    <2>1. PICK k \in 1 .. Len(s) : s[k] = e
      BY <1>2 DEF Range
    <2>2. {i \in 1 .. Len(s) : s[i] = e} = {k}
      BY <2>1 DEF IsInjective
    <2>3. Min({k}) = k
      BY DEF Min
    <2>4. RemoveFirst(s, e) = SubSeq(s, 1, k - 1) \o SubSeq(s, k + 1, Len(s))
      BY <2>1, <2>2, <2>3 DEF RemoveFirst, RemoveAt, SelectInSeq
    <2> DEFINE front == SubSeq(s, 1, k - 1)
               back == SubSeq(s, k + 1, Len(s))
               rest == front \o back
    <2>5. /\ front \in Seq(S) /\ Len(front) = k - 1
          /\ \A i \in 1 .. k - 1 : front[i] = s[i]
      BY <2>1
    <2>6. /\ back \in Seq(S) /\ Len(back) = Len(s) - k
          /\ \A i \in 1 .. Len(s) - k : back[i] = s[i + k]
      BY <2>1
    <2> HIDE DEF front, back
    <2>7. /\ rest \in Seq(S)
          /\ Len(rest) = Len(s) - 1
          /\ \A i \in 1 .. Len(rest) : rest[i] = IF i < k THEN s[i] ELSE s[i + 1]
      <3>1. front \in Seq(S) /\ back \in Seq(S)
        BY <2>5, <2>6
      <3>2. rest \in Seq(S) /\ Len(rest) = Len(front) + Len(back)
        BY <3>1
      <3>3. rest \in Seq(S) /\ Len(rest) = Len(s) - 1
        BY <2>1, <2>5, <2>6, <3>2
      <3>4. ASSUME NEW i \in 1 .. Len(rest) PROVE rest[i] = IF i < k THEN s[i] ELSE s[i + 1]
        <4>1. CASE i < k
          <5>1. rest[i] = front[i]
            BY <2>1, <2>5, <2>6, <3>3, <4>1
          <5> QED
            BY <2>1, <2>5, <4>1, <5>1
        <4>2. CASE i >= k
          <5>1. i - (k - 1) \in 1 .. Len(s) - k
            BY <2>1, <3>3, <4>2
          <5>2. rest[i] = back[i - (k - 1)]
            BY <2>1, <2>5, <2>6, <3>3, <4>2, <5>1
          <5>3. back[i - (k - 1)] = s[(i - (k - 1)) + k]
            BY <2>6, <5>1
          <5> QED
            BY <2>1, <4>2, <5>2, <5>3
        <4> QED
          BY <2>1, <4>1, <4>2
      <3> QED
        BY <3>3, <3>4
    <2>8. RemoveFirst(s, e) = rest
      BY <2>4 DEF front, back
    <2> HIDE DEF rest
    <2>9. IsInjective(rest)
      BY <2>1, <2>7 DEF IsInjective
    <2>10. Range(rest) = Range(s) \ {e}
      <3>1. ASSUME NEW x \in Range(rest) PROVE x \in Range(s) \ {e}
        BY <2>1, <2>7, <3>1 DEF IsInjective, Range
      <3>2. ASSUME NEW x \in Range(s) \ {e} PROVE x \in Range(rest)
        <4>1. PICK i \in 1 .. Len(s) : s[i] = x /\ i # k
          BY <2>1, <3>2 DEF Range
        <4>2. CASE i < k
          BY <2>1, <2>7, <4>1, <4>2 DEF Range
        <4>3. CASE i > k
          <5>1. i - 1 \in 1 .. Len(rest) /\ rest[i - 1] = x
            BY <2>1, <2>7, <4>1, <4>3
          <5> QED
            BY <2>7, <5>1 DEF Range
        <4> QED
          BY <4>1, <4>2, <4>3
      <3> QED
        BY <3>1, <3>2
    <2> QED
      BY <2>8, <2>7, <2>9, <2>10, <1>2
  <1> QED
    BY <1>1, <1>2

\* A loader that is touched becomes the newest; the stamps of the others stay.
LEMMA TouchedKeeps ==
  ASSUME recent \in Seq(Loader), IsInjective(recent), NEW l \in Loader
  PROVE  /\ Touched(l) \in Seq(Loader)
         /\ IsInjective(Touched(l))
         /\ Range(Touched(l)) = Range(recent) \cup {l}
  <1> DEFINE rest == RemoveFirst(recent, l)
  <1>1. rest \in Seq(Loader) /\ IsInjective(rest) /\ Range(rest) = Range(recent) \ {l}
    BY RemoveFirstKeeps
  <1>2. Touched(l) = Append(rest, l)
    BY DEF Touched, Without
  <1> HIDE DEF rest
  <1>3. /\ Touched(l) \in Seq(Loader) /\ Len(Touched(l)) = Len(rest) + 1
        /\ Touched(l)[Len(rest) + 1] = l
        /\ \A i \in 1 .. Len(rest) : Touched(l)[i] = rest[i]
    BY <1>1, <1>2
  <1>4. l \notin Range(rest)
    BY <1>1
  <1>5. IsInjective(Touched(l))
    BY <1>1, <1>3, <1>4 DEF IsInjective, Range
  <1>6. Range(Touched(l)) = Range(rest) \cup {l}
    BY <1>1, <1>3 DEF Range
  <1> QED
    BY <1>1, <1>3, <1>5, <1>6

-----------------------------------------------------------------------------
(* The invariant *)

\* The load lock is held by whoever loads or unloads, and by nobody else.
LockHeld ==
  \A r \in Req : lock = r <=> pc[r] \in {"evict", "load"}

\* A request under way has a loader; who loads or unloads found it not loaded.
WantsKnown ==
  \A r \in Req : /\ pc[r] # "idle" => want[r] \in Loader
                 /\ pc[r] \in {"evict", "load"} => want[r] \notin loaded

\* What is loaded has a stamp, so that eviction finds it.
Stamped == loaded \subseteq Range(recent)

\* The inductive invariant.
IInv ==
  /\ TypeOK
  /\ LockHeld
  /\ WantsKnown
  /\ Stamped
  /\ OverBudgetOnlyAlone

\* What OverBudgetOnlyAlone says of a set of loaders.
Within(S) == Budget > 0 => VramOf(S) <= Budget \/ Cardinality(S) = 1

\* To unload, or to give up a load, keeps within the budget.
LEMMA LessIsWithin ==
  ASSUME NEW S \in SUBSET Loader, NEW l, Within(S)
  PROVE  Within(S \ {l})
  <1>1. CASE l \notin S
    <2>1. S \ {l} = S
      BY <1>1
    <2> QED
      BY <2>1
  <1>2. CASE l \in S /\ Cardinality(S) = 1
    <2>1. IsFiniteSet(S)
      BY FS_Subset, PoolAssumption
    <2>2. S \ {l} = {}
      BY <1>2, <2>1, FS_Singleton
    <2>3. VramOf(S \ {l}) = 0
      BY <2>2, VramAdds
    <2> QED
      BY <2>3, PoolAssumption DEF Within
  <1>3. CASE l \in S /\ Cardinality(S) # 1
    <2> DEFINE T == S \ {l}
    <2>1. T \in SUBSET Loader /\ l \in Loader \ T /\ S = T \cup {l}
      BY <1>3
    <2>2. VramOf(T) \in Nat /\ VramOf(S) = VramOf(T) + Vram[l] /\ Vram[l] \in Nat
      BY <2>1, VramAdds, PoolAssumption
    <2> HIDE DEF T
    <2>3. VramOf(T) <= VramOf(S) /\ VramOf(S) \in Nat
      BY <2>2
    <2>4. Within(T)
      BY <1>3, <2>2, <2>3, PoolAssumption DEF Within
    <2> QED
      BY <2>4 DEF T
  <1> QED
    BY <1>1, <1>2, <1>3

\* One turn of the eviction loop finds something to unload, or what is left and the
\* model to load are within the budget.
LEMMA MakesRoom ==
  ASSUME TypeOK, NEW r \in Req, NEW present \in SUBSET loaded, present \subseteq Range(recent),
         want[r] \in Loader, want[r] \notin present, MakeRoom(r, present)
  PROVE  \/ /\ Go(r, "evict")
            /\ victim' \in Loader
         \/ /\ Go(r, "load")
            /\ victim' = None
            /\ Within(present \cup {want[r]})
  <1> DEFINE C == {i \in Candidates(want[r]) : recent[i] \in present}
             mustEvict == Budget > 0 /\ VramOf(present) + Vram[want[r]] > Budget /\ C # {}
  <1>1. present \in SUBSET Loader
    BY DEF TypeOK
  <1>2. CASE mustEvict
    <2>1. C \in SUBSET Nat /\ C \subseteq DOMAIN recent
      BY DEF Candidates, TypeOK
    <2>2. \E n \in C : \A m \in C : n <= m
      <3> HIDE DEF C
      <3> QED
        BY <1>2, <2>1, LeastOf
    <2>3. Min(C) \in C
      BY <2>2 DEF Min
    <2>4. recent[Min(C)] \in Loader
      BY <2>1, <2>3 DEF TypeOK
    <2> QED
      BY <1>2, <2>4 DEF MakeRoom
  <1>3. CASE ~mustEvict
    <2>1. Go(r, "load") /\ victim' = None
      BY <1>3 DEF MakeRoom
    <2>2. VramOf(present \cup {want[r]}) = VramOf(present) + Vram[want[r]]
      BY <1>1, VramAdds
    <2>3. VramOf(present) \in Nat /\ Vram[want[r]] \in Nat
      BY <1>1, VramAdds, PoolAssumption
    <2>4. CASE C = {}
      <3>1. ASSUME NEW l \in present PROVE FALSE
        <4>1. PICK i \in DOMAIN recent : recent[i] = l
          BY DEF Range
        <4>2. i \in C
          BY <4>1 DEF Candidates
        <4> QED
          BY <2>4, <4>2
      <3>2. present \cup {want[r]} = {want[r]}
        BY <3>1
      <3> QED
        BY <2>1, <3>2, FS_Singleton DEF Within
    <2>5. CASE C # {}
      <3>1. Budget > 0 => VramOf(present) + Vram[want[r]] <= Budget
        <4> HIDE DEF C
        <4> QED
          BY <1>3, <2>3, <2>5, PoolAssumption
      <3> QED
        BY <2>1, <2>2, <3>1 DEF Within
    <2> QED
      BY <2>4, <2>5
  <1> QED
    BY <1>2, <1>3

-----------------------------------------------------------------------------
(* Steps *)

\* A step that neither loads nor unloads leaves the GPU alone, whatever it does to
\* the stamps.
LEMMA QuietKeeps ==
  ASSUME IInv, NEW r \in Req, pc[r] \notin {"evict", "load"},
         NEW to \in Control \ {"evict", "load"}, Go(r, to),
         UNCHANGED <<loaded, victim, lock>>, (inferLock \in Req \cup {None})',
         NEW l \in Loader \cup {None}, want' = [want EXCEPT ![r] = l], to # "idle" => l \in Loader,
         (recent \in Seq(Loader) /\ IsInjective(recent))', Range(recent) \subseteq Range(recent')
  PROVE  IInv'
  <1>1. pc' = [pc EXCEPT ![r] = to] /\ pc \in [Req -> Control] /\ want \in [Req -> Loader \cup {None}]
    BY DEF Go, IInv, TypeOK
  <1>2. TypeOK'
    BY <1>1 DEF IInv, TypeOK
  <1>3. LockHeld'
    BY <1>1 DEF IInv, LockHeld
  <1>4. WantsKnown'
    BY <1>1 DEF IInv, WantsKnown
  <1>5. Stamped'
    BY DEF IInv, Stamped
  <1>6. Resident' = Resident
    <2>1. \A q \in Req : (pc'[q] = "load" <=> pc[q] = "load") /\ (pc[q] = "load" => want'[q] = want[q])
      BY <1>1
    <2> QED
      BY <2>1 DEF Resident
  <1>7. OverBudgetOnlyAlone'
    BY <1>6 DEF IInv, OverBudgetOnlyAlone
  <1> QED
    BY <1>2, <1>3, <1>4, <1>5, <1>7 DEF IInv

\* So do all steps but those of the load lock.
LEMMA OthersKeep ==
  ASSUME IInv, NEW r \in Req,
         \/ \E l \in Loader : Arrive(r, l)
         \/ Hit(r) \/ TakeTurn(r) \/ Generate(r) \/ FindsNoModel(r) \/ Abandon(r)
         \/ Answer(r) \/ InferFails(r) \/ TimesOut(r) \/ OrphanEnds(r)
  PROVE  IInv'
  <1>1. /\ recent \in Seq(Loader) /\ IsInjective(recent)
        /\ want \in [Req -> Loader \cup {None}]
        /\ inferLock \in Req \cup {None}
        /\ pc[r] # "idle" => want[r] \in Loader
    BY DEF IInv, TypeOK, WantsKnown
  <1>2. ASSUME NEW l \in Loader, Arrive(r, l) PROVE IInv'
    <2>1. pc[r] = "idle" /\ Go(r, "lock") /\ want' = [want EXCEPT ![r] = l]
          /\ UNCHANGED <<loaded, recent, victim, lock, inferLock>>
      BY <1>2 DEF Arrive
    <2> QED
      BY <1>1, <2>1, QuietKeeps DEF Control
  <1>3. \A l : l = want[r] => want = [want EXCEPT ![r] = l]
    BY <1>1
  <1>4. CASE Hit(r) \/ Answer(r)
    <2>1. /\ (recent \in Seq(Loader) /\ IsInjective(recent))'
          /\ Range(recent) \subseteq Range(recent')
      BY <1>1, <1>4, TouchedKeeps DEF Hit, Answer
    <2>2. CASE Hit(r)
      <3>1. want' = [want EXCEPT ![r] = want[r]]
        BY <1>3, <2>2 DEF Hit
      <3> QED
        BY <1>1, <2>1, <2>2, <3>1, QuietKeeps DEF Hit, Control
    <2>3. CASE Answer(r)
      BY <1>1, <2>1, <2>3, QuietKeeps DEF Answer, Control
    <2> QED
      BY <1>4, <2>2, <2>3
  <1>5. CASE TakeTurn(r) \/ Generate(r) \/ TimesOut(r)
    <2>1. want' = [want EXCEPT ![r] = want[r]]
      BY <1>3, <1>5 DEF TakeTurn, Generate, TimesOut
    <2>2. (inferLock \in Req \cup {None})'
      BY <1>1, <1>5 DEF TakeTurn, Generate, TimesOut
    <2>3. CASE TakeTurn(r)
      BY <1>1, <2>1, <2>2, <2>3, QuietKeeps DEF TakeTurn, Control
    <2>4. CASE Generate(r)
      BY <1>1, <2>1, <2>2, <2>4, QuietKeeps DEF Generate, Control
    <2>5. CASE TimesOut(r)
      BY <1>1, <2>1, <2>2, <2>5, QuietKeeps DEF TimesOut, Control
    <2> QED
      BY <1>5, <2>3, <2>4, <2>5
  <1>6. CASE FindsNoModel(r)
    BY <1>1, <1>6, QuietKeeps DEF FindsNoModel, Control
  <1>7. CASE Abandon(r)
    BY <1>1, <1>7, QuietKeeps DEF Abandon, Control
  <1>8. CASE InferFails(r)
    BY <1>1, <1>8, QuietKeeps DEF InferFails, Control
  <1>9. CASE OrphanEnds(r)
    BY <1>1, <1>9, QuietKeeps DEF OrphanEnds, Control
  <1> QED
    BY <1>2, <1>4, <1>5, <1>6, <1>7, <1>8, <1>9

\* A miss takes the lock and makes room.
LEMMA MissKeeps ==
  ASSUME IInv, NEW r \in Req, Miss(r)
  PROVE  IInv'
  <1>1. /\ pc \in [Req -> Control] /\ pc[r] = "lock" /\ lock = None
        /\ want[r] \in Loader /\ want[r] \notin loaded
        /\ loaded \in SUBSET Loader /\ loaded \subseteq Range(recent)
    BY DEF IInv, TypeOK, WantsKnown, Stamped, Miss
  <1>2. /\ lock' = r
        /\ UNCHANGED <<want, loaded, recent, inferLock>>
    BY DEF Miss
  <1>3. \/ /\ Go(r, "evict")
           /\ victim' \in Loader
        \/ /\ Go(r, "load")
           /\ victim' = None
           /\ Within(loaded \cup {want[r]})
    BY <1>1, MakesRoom DEF IInv, Miss
  <1>4. PICK to \in {"evict", "load"} : pc' = [pc EXCEPT ![r] = to] /\ victim' \in Loader \cup {None}
    BY <1>3 DEF Go
  <1>5. TypeOK'
    BY <1>1, <1>2, <1>4 DEF IInv, TypeOK, Control
  <1>6. \A q \in Req : pc[q] \notin {"evict", "load"}
    BY <1>1, PoolAssumption DEF IInv, LockHeld
  <1>7. LockHeld'
    BY <1>1, <1>2, <1>4, <1>6 DEF LockHeld
  <1>8. WantsKnown'
    BY <1>1, <1>2, <1>4 DEF IInv, WantsKnown
  <1>9. Stamped'
    BY <1>2 DEF IInv, Stamped
  <1>10. OverBudgetOnlyAlone'
    <2>1. Resident = loaded
      BY <1>6 DEF Resident
    <2>2. CASE Go(r, "evict")
      <3>1. Resident' = loaded
        BY <1>1, <1>2, <1>6, <2>2 DEF Resident, Go
      <3> QED
        BY <2>1, <3>1 DEF IInv, OverBudgetOnlyAlone
    <2>3. CASE Go(r, "load") /\ Within(loaded \cup {want[r]})
      <3>1. Resident' = loaded \cup {want[r]}
        BY <1>1, <1>2, <1>6, <2>3 DEF Resident, Go
      <3> QED
        BY <2>3, <3>1 DEF Within, OverBudgetOnlyAlone
    <2> QED
      BY <1>3, <2>2, <2>3
  <1> QED
    BY <1>5, <1>7, <1>8, <1>9, <1>10 DEF IInv

\* Only the holder of the lock is loading or unloading.
LEMMA AloneUnderTheLock ==
  ASSUME IInv, NEW r \in Req, pc[r] \in {"evict", "load"}
  PROVE  /\ lock = r
         /\ \A q \in Req : pc[q] \in {"evict", "load"} => q = r
         /\ want[r] \in Loader /\ want[r] \notin loaded
         /\ pc[r] = "load" => Resident = loaded \cup {want[r]}
         /\ pc[r] = "evict" => Resident = loaded
  <1>1. lock = r /\ \A q \in Req : pc[q] \in {"evict", "load"} => q = r
    BY DEF IInv, LockHeld
  <1>2. want[r] \in Loader /\ want[r] \notin loaded
    BY DEF IInv, WantsKnown
  <1>3. pc[r] = "load" => {want[x] : x \in {q \in Req : pc[q] = "load"}} = {want[r]}
    BY <1>1
  <1>4. pc[r] = "evict" => {want[x] : x \in {q \in Req : pc[q] = "load"}} = {}
    BY <1>1
  <1> QED
    BY <1>1, <1>2, <1>3, <1>4 DEF Resident

\* A model is unloaded, its stamp goes, and the loop turns again.
LEMMA UnloadedKeeps ==
  ASSUME IInv, NEW r \in Req, Unloaded(r)
  PROVE  IInv'
  <1> DEFINE present == loaded \ {victim}
  <1>1. /\ pc \in [Req -> Control] /\ pc[r] = "evict"
        /\ recent \in Seq(Loader) /\ IsInjective(recent)
        /\ loaded \in SUBSET Loader /\ loaded \subseteq Range(recent)
    BY DEF IInv, TypeOK, Stamped, Unloaded
  <1>2. /\ lock = r
        /\ \A q \in Req : pc[q] \in {"evict", "load"} => q = r
        /\ want[r] \in Loader /\ want[r] \notin loaded
        /\ Resident = loaded
    BY <1>1, AloneUnderTheLock
  <1>3. /\ loaded' = present /\ recent' = Without(victim)
        /\ UNCHANGED <<want, lock, inferLock>>
    BY DEF Unloaded
  <1>4. \/ /\ Go(r, "evict")
           /\ victim' \in Loader
        \/ /\ Go(r, "load")
           /\ victim' = None
           /\ Within(present \cup {want[r]})
    BY <1>1, <1>2, MakesRoom DEF IInv, Unloaded
  <1>5. PICK to \in {"evict", "load"} : pc' = [pc EXCEPT ![r] = to] /\ victim' \in Loader \cup {None}
    BY <1>4 DEF Go
  <1>6. /\ recent' \in Seq(Loader) /\ IsInjective(recent')
        /\ Range(recent') = Range(recent) \ {victim}
    BY <1>1, <1>3, RemoveFirstKeeps DEF Without
  <1>7. TypeOK'
    BY <1>1, <1>3, <1>5, <1>6 DEF IInv, TypeOK, Control
  <1>8. LockHeld'
    BY <1>1, <1>2, <1>3, <1>5 DEF LockHeld
  <1>9. WantsKnown'
    BY <1>1, <1>2, <1>3, <1>5 DEF IInv, WantsKnown
  <1>10. Stamped'
    BY <1>1, <1>3, <1>6 DEF Stamped
  <1>11. OverBudgetOnlyAlone'
    <2>1. CASE Go(r, "evict")
      <3>1. Resident' = present
        <4>1. \A q \in Req : pc'[q] # "load"
          BY <1>1, <1>2, <2>1 DEF Go
        <4> QED
          BY <1>3, <4>1 DEF Resident
      <3>2. Within(loaded)
        BY <1>2 DEF IInv, OverBudgetOnlyAlone, Within
      <3>3. Within(present)
        BY <1>1, <3>2, LessIsWithin
      <3> QED
        BY <3>1, <3>3 DEF Within, OverBudgetOnlyAlone
    <2>2. CASE Go(r, "load") /\ Within(present \cup {want[r]})
      <3>1. Resident' = present \cup {want[r]}
        <4>1. \A q \in Req : pc'[q] = "load" <=> q = r
          BY <1>1, <1>2, <2>2 DEF Go
        <4>2. {want'[x] : x \in {q \in Req : pc'[q] = "load"}} = {want[r]}
          BY <1>3, <4>1
        <4> QED
          BY <1>3, <4>2 DEF Resident
      <3> QED
        BY <2>2, <3>1 DEF Within, OverBudgetOnlyAlone
    <2> QED
      BY <1>4, <2>1, <2>2
  <1> QED
    BY <1>7, <1>8, <1>9, <1>10, <1>11 DEF IInv

\* A model is loaded, or its load fails, and the lock is free.
LEMMA LoadKeeps ==
  ASSUME IInv, NEW r \in Req, Loaded(r) \/ LoadFails(r)
  PROVE  IInv'
  <1>1. /\ pc \in [Req -> Control] /\ pc[r] = "load"
        /\ want \in [Req -> Loader \cup {None}]
        /\ recent \in Seq(Loader) /\ IsInjective(recent)
        /\ loaded \in SUBSET Loader /\ loaded \subseteq Range(recent)
    BY DEF IInv, TypeOK, Stamped, Loaded, LoadFails
  <1>2. /\ \A q \in Req : pc[q] \in {"evict", "load"} => q = r
        /\ want[r] \in Loader /\ want[r] \notin loaded
        /\ Resident = loaded \cup {want[r]}
    BY <1>1, AloneUnderTheLock
  <1>3. /\ lock' = None
        /\ UNCHANGED <<victim, inferLock>>
        /\ \/ pc' = [pc EXCEPT ![r] = "wait"] /\ want' = want
           \/ pc' = [pc EXCEPT ![r] = "idle"] /\ want' = [want EXCEPT ![r] = None]
    BY DEF Loaded, LoadFails, Go
  <1>4. /\ recent' \in Seq(Loader) /\ IsInjective(recent')
        /\ loaded' \in SUBSET Loader /\ loaded' \subseteq Range(recent')
        /\ loaded' = Resident \/ loaded' = Resident \ {want[r]}
    <2>1. CASE Loaded(r)
      <3>1. loaded' = loaded \cup {want[r]} /\ recent' = Touched(want[r])
        BY <2>1 DEF Loaded
      <3> QED
        BY <1>1, <1>2, <3>1, TouchedKeeps
    <2>2. CASE LoadFails(r)
      BY <1>1, <1>2, <2>2 DEF LoadFails
    <2> QED
      BY <2>1, <2>2
  <1>5. \A q \in Req : pc'[q] \notin {"evict", "load"}
    BY <1>1, <1>2, <1>3
  <1>6. TypeOK'
    BY <1>1, <1>3, <1>4 DEF IInv, TypeOK, Control
  <1>7. LockHeld'
    BY <1>3, <1>5, PoolAssumption DEF LockHeld
  <1>8. WantsKnown'
    BY <1>1, <1>2, <1>3, <1>5 DEF IInv, WantsKnown
  <1>9. Stamped'
    BY <1>4 DEF Stamped
  <1>10. OverBudgetOnlyAlone'
    <2>1. Resident' = loaded'
      BY <1>5 DEF Resident
    <2>2. Within(Resident) /\ Resident \in SUBSET Loader
      BY <1>1, <1>2 DEF IInv, OverBudgetOnlyAlone, Within
    <2>3. Within(loaded')
      BY <1>4, <2>2, LessIsWithin
    <2> QED
      BY <2>1, <2>3 DEF Within, OverBudgetOnlyAlone
  <1> QED
    BY <1>6, <1>7, <1>8, <1>9, <1>10 DEF IInv

-----------------------------------------------------------------------------
(* Theorems *)

\* Nothing is loaded and nobody asks.
LEMMA InitKeeps == Init => IInv
  <1> SUFFICES ASSUME Init PROVE IInv
    OBVIOUS
  <1>1. TypeOK
    BY DEF Init, TypeOK, Control, IsInjective
  <1>2. LockHeld
    BY PoolAssumption DEF Init, LockHeld
  <1>3. WantsKnown /\ Stamped
    BY DEF Init, WantsKnown, Stamped
  <1>4. OverBudgetOnlyAlone
    <2>1. Resident = {}
      BY DEF Init, Resident
    <2>2. VramOf({}) = 0
      BY VramAdds
    <2> QED
      BY <2>1, <2>2, PoolAssumption DEF OverBudgetOnlyAlone
  <1> QED
    BY <1>1, <1>2, <1>3, <1>4 DEF IInv

\* Every step keeps the invariant.
LEMMA NextKeeps ==
  ASSUME IInv, [Next]_vars
  PROVE  IInv'
  <1>1. ASSUME NEW r \in Req, Proceed(r) \/ \E l \in Loader : Arrive(r, l) PROVE IInv'
    BY <1>1, OthersKeep, MissKeeps, UnloadedKeeps, LoadKeeps DEF Proceed
  <1>2. CASE UNCHANGED vars
    BY <1>2 DEF vars, IInv, TypeOK, LockHeld, WantsKnown, Stamped, OverBudgetOnlyAlone, Resident
  <1> QED
    BY <1>1, <1>2 DEF Next

\* The invariant holds throughout.
LEMMA InvariantHolds == Spec => []IInv
  BY InitKeeps, NextKeeps, PTL DEF Spec

\* Types; the stamps are of registered loaders, one each.
THEOREM TypeCorrect == Spec => []TypeOK
  <1>1. IInv => TypeOK
    BY DEF IInv
  <1> QED
    BY <1>1, InvariantHolds, PTL

\* However loads, evictions, failures, time-outs and late stamps interleave, the
\* models on the GPU, the one being loaded included, are within the budget, or it
\* is one model that exceeds it alone (pool.py, ensure_loaded and _evict_for).
THEOREM BudgetIsKept == Spec => []OverBudgetOnlyAlone
  <1>1. IInv => OverBudgetOnlyAlone
    BY DEF IInv
  <1> QED
    BY <1>1, InvariantHolds, PTL

\* Loads and unloads exclude each other: nobody loads a model that is loaded, and
\* no two requests load or unload at a time (pool.py, ensure_loaded).
LoadsApart ==
  \A r, q \in Req : pc[r] \in {"evict", "load"} =>
    /\ want[r] \notin loaded
    /\ pc[q] \in {"evict", "load"} => q = r

\* It follows from who holds the lock.
THEOREM OneLoadAtATime == Spec => []LoadsApart
  <1>1. IInv => LoadsApart
    BY DEF IInv, LockHeld, WantsKnown, LoadsApart
  <1> QED
    BY <1>1, InvariantHolds, PTL
=============================================================================

--------------------------- MODULE InferGateProofs ---------------------------
(***************************************************************************)
(* Proofs about the slot scheduler and the gate in front of it, for every  *)
(* set of requests, assignment of classes, number of slots, bound on the   *)
(* ageing windows, quota and length of the queue.                          *)
(*                                                                         *)
(* The scheduler comes first.  Its heart is PromoteAdmitsAtMostOne: every  *)
(* method finds the queue with nobody in it who could start one slot       *)
(* later, so its trailing promotion loop admits one waiter or none.        *)
(*                                                                         *)
(* The handler drives the scheduler by its own actions (ProtocolKept), so  *)
(* what is proved of Scheduler holds behind the gate.  The gate counts by  *)
(* itself; a request joins both or leaves both, but for the one that hangs *)
(* up in acquire, which leaves the scheduler alone: the gate may count too *)
(* many, never too few.                                                    *)
(***************************************************************************)
EXTENDS InferGate, FiniteSetTheorems, WellFoundedInduction, TLAPS

-----------------------------------------------------------------------------
(* The scheduler *)

\* The queue is totally ordered by arrival.
Ordered(queue, order) ==
  \A u, v \in queue : u # v => u \in order[v] \/ v \in order[u]

\* No two waiters can start one after the other.
OneAtMost(queue, slots) ==
  \A u, v \in queue :
    u # v => ~(MayStart(ClassOf[u], Total(slots)) /\ MayStart(ClassOf[v], Total(slots) + 1))

WithinCapacity(slots) ==
  /\ Total(slots) <= Concurrency
  /\ Concurrency >= 2 => slots[BULK] < Concurrency

\* The inductive invariant.
IInv ==
  /\ TypeOK
  /\ Ordered(Queued, ahead)
  /\ SlotsAccounted
  /\ WithinCapacity(inFlight)
  /\ NobodyLeftBehind

LEMMA PriorityIsNat == Priority \subseteq Nat
  BY DEF Priority, INTERACTIVE, BLOCKING, STRUCTURAL, BULK

\* A slot count is a natural number.
LEMMA TotalType ==
  ASSUME NEW slots \in [Priority -> Nat]
  PROVE  Total(slots) \in Nat
  BY DEF Total, Priority, INTERACTIVE, BLOCKING, STRUCTURAL, BULK

\* Who may not start now may not start when more slots are taken.
LEMMA MayStartAntitone ==
  ASSUME NEW p \in Priority, NEW m \in Nat, NEW n \in Nat, m <= n, MayStart(p, n)
  PROVE  MayStart(p, m)
  BY SchedulerAssumption, PriorityIsNat DEF MayStart, BulkWouldTakeTheLastSlot, BULK

\* Two waiters have comparable keys.
LEMMA KeysAreTotal ==
  ASSUME NEW queue \in SUBSET Req, NEW order, Ordered(queue, order), TypeOK,
         NEW u \in queue, NEW v \in queue, u # v
  PROVE  Precedes(order, u, v) \/ Precedes(order, v, u)
  <1>1. Effective(u) \in Nat /\ Effective(v) \in Nat
    BY SchedulerAssumption
       DEF Effective, Floor, TypeOK, Priority, INTERACTIVE, BLOCKING, STRUCTURAL, BULK
  <1>2. u \in order[v] \/ v \in order[u]
    BY DEF Ordered
  <1> QED
    BY <1>1, <1>2 DEF Precedes

\* What one promotion does: nothing, when nobody may start; or one waiter who may
\* start is admitted, and then nobody else may.
LEMMA PromoteAdmitsAtMostOne ==
  ASSUME NEW queue \in SUBSET Req, NEW order, NEW slots \in [Priority -> Nat],
         NEW A \in SUBSET queue,
         TypeOK, Ordered(queue, order), OneAtMost(queue, slots),
         AdmittedByLoop(A, queue, order, slots)
  PROVE  \/ A = {} /\ \A w \in queue : ~MayStart(ClassOf[w], Total(slots))
         \/ \E a \in queue :
              /\ A = {a}
              /\ MayStart(ClassOf[a], Total(slots))
              /\ \A w \in queue \ A : ~MayStart(ClassOf[w], Total(slots) + 1)
  <1> DEFINE Before(w) == {v \in A : Precedes(order, v, w)}
             T == Total(slots)
  <1>1. T \in Nat
    BY TotalType
  <1>2. \A w \in queue : /\ IsFiniteSet(Before(w))
                         /\ Cardinality(Before(w)) \in Nat
                         /\ Cardinality(Before(w)) = 0 <=> Before(w) = {}
    <2> TAKE w \in queue
    <2>1. IsFiniteSet(Before(w))
      BY SchedulerAssumption, FS_Subset, Before(w) \in SUBSET Req
    <2> QED
      BY <2>1, FS_CardinalityType, FS_EmptySet
  <1>3. \A w \in queue : ClassOf[w] \in Priority
    BY SchedulerAssumption
  <1>4. \A w \in queue : w \in A <=> MayStart(ClassOf[w], T + Cardinality(Before(w)))
    BY DEF AdmittedByLoop
  <1> HIDE DEF Before, T
  <1>5. \A w \in A : MayStart(ClassOf[w], T)
    BY <1>1, <1>2, <1>3, <1>4, MayStartAntitone
  <1>6. \A u, v \in A : u = v
    <2> SUFFICES ASSUME NEW u \in A, NEW v \in A, u # v, Precedes(order, u, v)
                 PROVE  FALSE
      BY KeysAreTotal
    <2>1. u \in Before(v)
      BY DEF Before
    <2>2. Cardinality(Before(v)) >= 1
      BY <1>2, <2>1
    <2>3. MayStart(ClassOf[v], T + 1)
      BY <1>1, <1>2, <1>3, <1>4, <2>2, MayStartAntitone
    <2> QED
      BY <1>5, <2>3 DEF OneAtMost, T
  <1>7. CASE A = {}
    <2>1. \A w \in queue : Cardinality(Before(w)) = 0
      BY <1>2, <1>7 DEF Before
    <2>2. \A w \in queue : ~MayStart(ClassOf[w], T)
      BY <1>1, <1>4, <1>7, <2>1
    <2> QED
      BY <1>7, <2>2 DEF T
  <1>8. CASE A # {}
    <2>1. PICK a \in A : A = {a}
      BY <1>6, <1>8
    <2>2. ASSUME NEW w \in queue \ A
          PROVE  ~MayStart(ClassOf[w], T + 1)
      <3>1. Cardinality(Before(w)) \in {0, 1}
        <4>1. Before(w) = {} \/ Before(w) = {a}
          BY <2>1 DEF Before
        <4> QED
          BY <4>1, <1>2, FS_Singleton
      <3>2. ~MayStart(ClassOf[w], T + Cardinality(Before(w)))
        BY <1>4
      <3> QED
        BY <3>1, <3>2, <1>1, <1>3, MayStartAntitone
    <2>3. MayStart(ClassOf[a], T)
      BY <1>5
    <2> QED
      BY <2>1, <2>2, <2>3 DEF T
  <1> QED
    BY <1>7, <1>8
\* Counting the holders of a class after one request has joined or left.
LEMMA HoldersFinite ==
  ASSUME NEW S \in SUBSET Req
  PROVE  IsFiniteSet(S) /\ Cardinality(S) \in Nat
  BY SchedulerAssumption, FS_Subset, FS_CardinalityType

\* A promotion keeps the invariant when what the method did before it left the
\* counters right and nobody who could start one slot later.
LEMMA PromotePreserves ==
  ASSUME NEW st0 \in [Req -> RequestState], NEW order \in [Req -> SUBSET Req],
         NEW slots \in [Priority -> Nat], TypeOK,
         Ordered({r \in Req : st0[r] = "queued"}, order),
         OneAtMost({r \in Req : st0[r] = "queued"}, slots),
         \A p \in Priority :
           slots[p] = Cardinality({r \in Req : /\ st0[r] \in {"granted", "running"}
                                               /\ ClassOf[r] = p}),
         WithinCapacity(slots),
         Promote(st0, order, slots)
  PROVE  IInv'
  <1> DEFINE queue == {r \in Req : st0[r] = "queued"}
             held(p) == {r \in Req : st0[r] \in {"granted", "running"} /\ ClassOf[r] = p}
  <1>1. PICK A \in SUBSET queue :
          /\ AdmittedByLoop(A, queue, order, slots)
          /\ st' = [r \in Req |-> IF r \in A THEN "granted" ELSE st0[r]]
          /\ inFlight' = [p \in Priority |->
                            slots[p] + Cardinality({r \in A : ClassOf[r] = p})]
          /\ ahead' = [r \in Req |-> IF r \in queue \ A THEN order[r] \ A ELSE {}]
          /\ steps' = [r \in Req |-> IF r \in queue \ A THEN steps[r] ELSE 0]
    BY DEF Promote
  <1>2. \/ A = {} /\ \A w \in queue : ~MayStart(ClassOf[w], Total(slots))
        \/ \E a \in queue : /\ A = {a}
                            /\ MayStart(ClassOf[a], Total(slots))
                            /\ \A w \in queue \ A : ~MayStart(ClassOf[w], Total(slots) + 1)
    BY <1>1, PromoteAdmitsAtMostOne
  <1>3. Queued' = queue \ A
    BY <1>1 DEF Queued
  <1>4. \A p \in Priority : HoldersOf(p)' = held(p) \cup {r \in A : ClassOf[r] = p}
    BY <1>1 DEF HoldersOf, Holders
  <1>5. \A p \in Priority : Cardinality({r \in A : ClassOf[r] = p}) \in Nat
    BY HoldersFinite, \A p \in Priority : {r \in A : ClassOf[r] = p} \in SUBSET Req
  <1>6. TypeOK'
    <2>1. st' \in [Req -> RequestState]
      BY <1>1 DEF RequestState
    <2>2. inFlight' \in [Priority -> Nat]
      BY <1>1, <1>5
    <2>3. ahead' \in [Req -> SUBSET Req]
      BY <1>1
    <2>4. steps' \in [Req -> 0..MaxSteps]
      BY <1>1, SchedulerAssumption DEF TypeOK
    <2> QED
      BY <2>1, <2>2, <2>3, <2>4 DEF TypeOK
  <1>7. Ordered(Queued, ahead)'
    BY <1>1, <1>3 DEF Ordered
  <1>8. /\ inFlight' \in [Priority -> Nat]
        /\ SlotsAccounted'
        /\ \/ A = {} /\ inFlight' = slots
           \/ \E a \in queue :
                A = {a} /\ inFlight' = [slots EXCEPT ![ClassOf[a]] = @ + 1]
    <2>1. CASE A = {}
      <3>1. \A p \in Priority : {r \in A : ClassOf[r] = p} = {}
        BY <2>1
      <3>2. inFlight' = slots
        BY <1>1, <3>1, FS_EmptySet
      <3> QED
        BY <1>4, <2>1, <3>1, <3>2 DEF SlotsAccounted
    <2>2. CASE A # {}
      <3>1. PICK a \in queue : A = {a}
        BY <1>2, <2>2
      <3>2. ClassOf[a] \in Priority
        BY SchedulerAssumption
      <3>3. \A p \in Priority :
              {r \in A : ClassOf[r] = p} = IF p = ClassOf[a] THEN {a} ELSE {}
        BY <3>1
      <3>4. inFlight' = [slots EXCEPT ![ClassOf[a]] = @ + 1]
        <4>1. \A p \in Priority : Cardinality({r \in A : ClassOf[r] = p}) =
                                   IF p = ClassOf[a] THEN 1 ELSE 0
          BY <3>3, FS_EmptySet, FS_Singleton
        <4>2. \A p \in Priority : inFlight'[p] = IF p = ClassOf[a] THEN slots[p] + 1
                                                                ELSE slots[p]
          BY <1>1, <4>1
        <4>3. inFlight' = [p \in Priority |-> inFlight'[p]]
          BY <1>1
        <4> QED
          BY <3>2, <4>2, <4>3
      <3>5. ASSUME NEW p \in Priority
            PROVE  inFlight'[p] = Cardinality(HoldersOf(p)')
        <4>1. IsFiniteSet(held(p)) /\ a \notin held(p) /\ Cardinality(held(p)) = slots[p]
          BY HoldersFinite
        <4>2. CASE p = ClassOf[a]
          <5>1. HoldersOf(p)' = held(p) \cup {a}
            BY <1>4, <3>3, <4>2
          <5>2. Cardinality(held(p) \cup {a}) = Cardinality(held(p)) + 1
            BY <4>1, FS_AddElement
          <5> QED
            BY <3>4, <4>1, <4>2, <5>1, <5>2
        <4>3. CASE p # ClassOf[a]
          <5>1. HoldersOf(p)' = held(p)
            BY <1>4, <3>3, <4>3
          <5> QED
            BY <3>4, <4>1, <4>3, <5>1
        <4> QED
          BY <4>2, <4>3
      <3> QED
        BY <3>1, <3>4, <3>5, <1>6 DEF SlotsAccounted, TypeOK
    <2> QED
      BY <2>1, <2>2
  <1>9. WithinCapacity(inFlight)' /\ NobodyLeftBehind'
    <2>1. CASE A = {}
      BY <1>2, <1>3, <1>8, <2>1 DEF WithinCapacity, NobodyLeftBehind
    <2>2. CASE A # {}
      <3>1. PICK a \in queue :
              /\ A = {a}
              /\ MayStart(ClassOf[a], Total(slots))
              /\ \A w \in queue \ A : ~MayStart(ClassOf[w], Total(slots) + 1)
              /\ inFlight' = [slots EXCEPT ![ClassOf[a]] = @ + 1]
        BY <1>2, <1>8, <2>2
      <3>2. ClassOf[a] \in Priority
        BY SchedulerAssumption
      <3>3. Total(inFlight') = Total(slots) + 1
        BY <3>1, <3>2 DEF Total, Priority, INTERACTIVE, BLOCKING, STRUCTURAL, BULK
      <3>4. WithinCapacity(inFlight)'
        BY <3>1, <3>2, <3>3, SchedulerAssumption
           DEF WithinCapacity, MayStart, BulkWouldTakeTheLastSlot, Total,
               Priority, INTERACTIVE, BLOCKING, STRUCTURAL, BULK
      <3> QED
        BY <1>3, <3>1, <3>3, <3>4 DEF NobodyLeftBehind
    <2> QED
      BY <2>1, <2>2
  <1> QED
    BY <1>6, <1>7, <1>8, <1>9 DEF IInv

\* A slot given back by its holder is counted once.
LEMMA ReleasedCounts ==
  ASSUME IInv, NEW r \in Holders
  PROVE  LET p == ClassOf[r]
         IN  /\ Released(p) = [inFlight EXCEPT ![p] = @ - 1]
             /\ Released(p) \in [Priority -> Nat]
             /\ Total(inFlight) = Total(Released(p)) + 1
             /\ WithinCapacity(Released(p))
             /\ \A q \in Priority :
                  Released(p)[q] = Cardinality(HoldersOf(q) \ {r})
  <1> DEFINE p == ClassOf[r]
  <1>1. r \in Req /\ p \in Priority
    BY SchedulerAssumption DEF Holders
  <1>2. \A q \in Priority : IsFiniteSet(HoldersOf(q)) /\ Cardinality(HoldersOf(q)) \in Nat
    BY HoldersFinite, \A q \in Priority : HoldersOf(q) \in SUBSET Req DEF HoldersOf, Holders
  <1>3. inFlight[p] \in Nat /\ inFlight[p] >= 1
    <2>1. r \in HoldersOf(p)
      BY DEF HoldersOf
    <2> QED
      BY <1>1, <1>2, <2>1, FS_EmptySet DEF IInv, SlotsAccounted
  <1>4. Released(p) = [inFlight EXCEPT ![p] = @ - 1]
    <2>1. (IF inFlight[p] <= 1 THEN 0 ELSE inFlight[p] - 1) = inFlight[p] - 1
      BY <1>3
    <2> QED
      BY <2>1 DEF Released
  <1>5. Released(p) \in [Priority -> Nat]
    BY <1>1, <1>3, <1>4 DEF IInv, TypeOK
  <1>6. Total(inFlight) = Total(Released(p)) + 1
    BY <1>1, <1>3, <1>4
       DEF Total, IInv, TypeOK, Priority, INTERACTIVE, BLOCKING, STRUCTURAL, BULK
  <1>7. WithinCapacity(Released(p))
    <2>1. Total(Released(p)) \in Nat /\ Concurrency \in Nat /\ BULK \in Priority
      BY <1>5, TotalType, SchedulerAssumption DEF Priority
    <2>2. Released(p)[BULK] <= inFlight[BULK]
      BY <1>1, <1>3, <1>4, <2>1 DEF IInv, TypeOK
    <2>3. Released(p)[BULK] \in Nat /\ inFlight[BULK] \in Nat
      BY <1>5, <2>1 DEF IInv, TypeOK
    <2> QED
      BY <1>6, <2>1, <2>2, <2>3 DEF WithinCapacity, IInv
  <1>8. ASSUME NEW q \in Priority
        PROVE  Released(p)[q] = Cardinality(HoldersOf(q) \ {r})
    <2>1. Cardinality(HoldersOf(q) \ {r}) =
            IF r \in HoldersOf(q) THEN Cardinality(HoldersOf(q)) - 1 ELSE Cardinality(HoldersOf(q))
      BY <1>2, FS_RemoveElement
    <2>2. r \in HoldersOf(q) <=> q = p
      BY DEF HoldersOf
    <2>3. inFlight[q] = Cardinality(HoldersOf(q))
      BY DEF IInv, SlotsAccounted
    <2> QED
      BY <1>1, <1>4, <2>1, <2>2, <2>3 DEF IInv, TypeOK
  <1> QED
    BY <1>4, <1>5, <1>6, <1>7, <1>8
-----------------------------------------------------------------------------

\* Disjoint finite sets add up.
LEMMA DisjointUnion ==
  ASSUME NEW S, NEW T, IsFiniteSet(S), IsFiniteSet(T), S \cap T = {}
  PROVE  /\ IsFiniteSet(S \cup T)
         /\ Cardinality(S \cup T) = Cardinality(S) + Cardinality(T)
  <1>1. /\ IsFiniteSet(S \cup T)
        /\ Cardinality(S \cup T) = Cardinality(S) + Cardinality(T) - Cardinality(S \cap T)
    BY FS_Union
  <1>2. Cardinality(S \cap T) = 0
    BY FS_EmptySet
  <1>3. Cardinality(S) \in Nat /\ Cardinality(T) \in Nat
    BY FS_CardinalityType
  <1> QED
    BY <1>1, <1>2, <1>3

\* Initially nobody is queued and no slot is taken.
LEMMA InitIInv == Init => IInv
  <1> SUFFICES ASSUME Init PROVE IInv
    OBVIOUS
  <1>1. TypeOK
    BY SchedulerAssumption DEF Init, TypeOK, RequestState, Priority
  <1>2. Queued = {} /\ \A p \in Priority : HoldersOf(p) = {}
    BY DEF Init, Queued, HoldersOf, Holders
  <1>3. SlotsAccounted
    BY <1>2, FS_EmptySet DEF Init, SlotsAccounted
  <1>4. WithinCapacity(inFlight)
    BY SchedulerAssumption
       DEF Init, WithinCapacity, Total, Priority, INTERACTIVE, BLOCKING, STRUCTURAL, BULK
  <1> QED
    BY <1>1, <1>2, <1>3, <1>4 DEF IInv, Ordered, NobodyLeftBehind

\* A newcomer is the only one in the queue who may be able to start.
LEMMA AcquireIInv ==
  ASSUME IInv, NEW r \in Req, Acquire(r)
  PROVE  IInv'
  <1> DEFINE st0 == [st EXCEPT ![r] = "queued"]
             order == [ahead EXCEPT ![r] = Queued]
             queue == {u \in Req : st0[u] = "queued"}
  <1>1. TypeOK /\ st[r] = "idle"
    BY DEF IInv, Acquire
  <1>2. st0 \in [Req -> RequestState] /\ order \in [Req -> SUBSET Req]
    BY <1>1 DEF TypeOK, RequestState, Queued
  <1>3. queue = Queued \cup {r} /\ r \notin Queued
    BY <1>1 DEF TypeOK, Queued
  <1>4. Ordered(queue, order)
    BY <1>1, <1>3 DEF IInv, Ordered, TypeOK
  <1>5. inFlight \in [Priority -> Nat] /\ Total(inFlight) \in Nat
    BY <1>1, TotalType DEF TypeOK
  <1>6. OneAtMost(queue, inFlight)
    <2> SUFFICES ASSUME NEW u \in queue, NEW v \in queue, u # v,
                        MayStart(ClassOf[u], Total(inFlight)),
                        MayStart(ClassOf[v], Total(inFlight) + 1)
                 PROVE  FALSE
      BY DEF OneAtMost
    <2>1. MayStart(ClassOf[v], Total(inFlight))
      BY <1>5, SchedulerAssumption, MayStartAntitone
    <2> QED
      BY <1>3, <2>1 DEF IInv, NobodyLeftBehind
  <1>7. \A p \in Priority :
          inFlight[p] = Cardinality({u \in Req : /\ st0[u] \in {"granted", "running"}
                                                 /\ ClassOf[u] = p})
    <2> SUFFICES ASSUME NEW p \in Priority
                 PROVE  HoldersOf(p) = {u \in Req : /\ st0[u] \in {"granted", "running"}
                                                    /\ ClassOf[u] = p}
      BY DEF IInv, SlotsAccounted
    <2> QED
      BY <1>1 DEF HoldersOf, Holders, TypeOK
  <1>8. WithinCapacity(inFlight) /\ Promote(st0, order, inFlight)
    BY DEF IInv, Acquire
  <1> HIDE DEF st0, order
  <1> QED
    BY <1>1, <1>2, <1>4, <1>5, <1>6, <1>7, <1>8, PromotePreserves

\* A slot given back lets one waiter start.
LEMMA GiveBackIInv ==
  ASSUME IInv, NEW r \in Holders,
         NEW order \in [Req -> SUBSET Req], Ordered(Queued, order),
         Promote([st EXCEPT ![r] = "idle"], order, Released(ClassOf[r]))
  PROVE  IInv'
  <1> DEFINE st0 == [st EXCEPT ![r] = "idle"]
             slots == Released(ClassOf[r])
             queue == {u \in Req : st0[u] = "queued"}
  <1>1. TypeOK /\ r \in Req /\ st[r] \in {"granted", "running"}
    BY DEF IInv, Holders
  <1>2. st0 \in [Req -> RequestState] /\ queue = Queued
    BY <1>1 DEF TypeOK, RequestState, Queued
  <1>3. /\ slots \in [Priority -> Nat]
        /\ Total(inFlight) = Total(slots) + 1
        /\ WithinCapacity(slots)
        /\ \A q \in Priority : slots[q] = Cardinality(HoldersOf(q) \ {r})
    BY ReleasedCounts
  <1>4. OneAtMost(queue, slots)
    BY <1>2, <1>3 DEF OneAtMost, IInv, NobodyLeftBehind
  <1>5. \A p \in Priority :
          slots[p] = Cardinality({u \in Req : /\ st0[u] \in {"granted", "running"}
                                              /\ ClassOf[u] = p})
    <2> SUFFICES ASSUME NEW p \in Priority
                 PROVE  HoldersOf(p) \ {r} =
                          {u \in Req : /\ st0[u] \in {"granted", "running"}
                                       /\ ClassOf[u] = p}
      BY <1>3
    <2> QED
      BY <1>1 DEF HoldersOf, Holders, TypeOK
  <1>6. Ordered(queue, order) /\ Promote(st0, order, slots)
    BY <1>2
  <1> HIDE DEF st0, slots
  <1> QED
    BY <1>1, <1>2, <1>3, <1>4, <1>5, <1>6, PromotePreserves

\* A hang-up in the queue lets nobody start; one after the grant gives a slot back.
LEMMA CancelIInv ==
  ASSUME IInv, NEW r \in Req, Cancel(r)
  PROVE  IInv'
  <1> DEFINE order == [u \in Req |-> ahead[u] \ {r}]
             st0 == [st EXCEPT ![r] = "idle"]
             queue == {u \in Req : st0[u] = "queued"}
  <1>1. TypeOK /\ order \in [Req -> SUBSET Req]
    BY DEF IInv, TypeOK
  <1>2. CASE st[r] = "granted"
    <2>1. r \in Holders /\ r \notin Queued
      BY <1>2 DEF Holders, Queued
    <2>2. Ordered(Queued, order)
      BY <2>1 DEF IInv, Ordered, Queued
    <2>3. Promote(st0, order, Released(ClassOf[r]))
      BY <1>2 DEF Cancel
    <2> HIDE DEF order
    <2> QED
      BY <1>1, <2>1, <2>2, <2>3, GiveBackIInv
  <1>3. CASE st[r] = "queued"
    <2>1. st0 \in [Req -> RequestState] /\ queue = Queued \ {r}
      BY <1>1 DEF TypeOK, RequestState, Queued
    <2>2. Ordered(queue, order)
      BY <2>1 DEF IInv, Ordered, Queued
    <2>3. inFlight \in [Priority -> Nat]
      BY <1>1 DEF TypeOK
    <2>4. OneAtMost(queue, inFlight)
      BY <2>1 DEF OneAtMost, IInv, NobodyLeftBehind
    <2>5. \A p \in Priority :
            inFlight[p] = Cardinality({u \in Req : /\ st0[u] \in {"granted", "running"}
                                                   /\ ClassOf[u] = p})
      <3> SUFFICES ASSUME NEW p \in Priority
                   PROVE  HoldersOf(p) = {u \in Req : /\ st0[u] \in {"granted", "running"}
                                                      /\ ClassOf[u] = p}
        BY DEF IInv, SlotsAccounted
      <3> QED
        BY <1>1, <1>3 DEF HoldersOf, Holders, TypeOK
    <2>6. WithinCapacity(inFlight) /\ Promote(st0, order, inFlight)
      BY <1>3 DEF IInv, Cancel
    <2> HIDE DEF st0, order
    <2> QED
      BY <1>1, <2>1, <2>2, <2>3, <2>4, <2>5, <2>6, PromotePreserves
  <1> QED
    BY <1>2, <1>3 DEF Cancel

\* Every step of the scheduler keeps the invariant.
LEMMA NextIInv == IInv /\ [Next]_vars => IInv'
  <1> SUFFICES ASSUME IInv, [Next]_vars PROVE IInv'
    OBVIOUS
  <1>1. ASSUME NEW r \in Req, Acquire(r) PROVE IInv'
    BY <1>1, AcquireIInv
  <1>2. ASSUME NEW r \in Req, Cancel(r) PROVE IInv'
    BY <1>2, CancelIInv
  <1>3. ASSUME NEW r \in Req, Release(r) PROVE IInv'
    <2>1. r \in Holders /\ ahead \in [Req -> SUBSET Req] /\ Ordered(Queued, ahead)
      BY <1>3 DEF Release, Holders, IInv, TypeOK
    <2> QED
      BY <1>3, <2>1, GiveBackIInv DEF Release
  <1>4. ASSUME NEW r \in Req, Resume(r) PROVE IInv'
    <2>1. TypeOK' /\ Queued' = Queued /\ \A p \in Priority : HoldersOf(p)' = HoldersOf(p)
      BY <1>4 DEF Resume, IInv, TypeOK, RequestState, Queued, HoldersOf, Holders
    <2> QED
      BY <1>4, <2>1 DEF Resume, IInv, Ordered, SlotsAccounted, WithinCapacity, NobodyLeftBehind
  <1>5. ASSUME NEW r \in Req, Age(r) PROVE IInv'
    <2>1. TypeOK' /\ Queued' = Queued /\ \A p \in Priority : HoldersOf(p)' = HoldersOf(p)
      BY <1>5, SchedulerAssumption DEF Age, IInv, TypeOK, Queued, HoldersOf, Holders
    <2> QED
      BY <1>5, <2>1 DEF Age, IInv, Ordered, SlotsAccounted, WithinCapacity, NobodyLeftBehind
  <1>6. CASE UNCHANGED vars
    <2>1. TypeOK' /\ Queued' = Queued /\ \A p \in Priority : HoldersOf(p)' = HoldersOf(p)
      BY <1>6 DEF vars, IInv, TypeOK, Queued, HoldersOf, Holders
    <2> QED
      BY <1>6, <2>1 DEF vars, IInv, Ordered, SlotsAccounted, WithinCapacity, NobodyLeftBehind
  <1> QED
    BY <1>1, <1>2, <1>3, <1>4, <1>5, <1>6 DEF Next

LEMMA SpecIInv == Spec => []IInv
  BY InitIInv, NextIInv, PTL DEF Spec

\* Every variable keeps its type through all the scheduler's methods.
THEOREM TypeCorrect == Spec => []TypeOK
  <1>1. IInv => TypeOK
    BY DEF IInv
  <1> QED
    BY <1>1, SpecIInv, PTL

\* The per-class counters equal the slots really held, whatever grants, releases
\* and hang-ups interleave.
THEOREM CountersAreExact == Spec => []SlotsAccounted
  <1>1. IInv => SlotsAccounted
    BY DEF IInv
  <1> QED
    BY <1>1, SpecIInv, PTL

\* No waiter that may start is left queued.
THEOREM WorkConserving == Spec => []NobodyLeftBehind
  <1>1. IInv => NobodyLeftBehind
    BY DEF IInv
  <1> QED
    BY <1>1, SpecIInv, PTL

\* The slots are never oversubscribed and bulk work never holds all of them.
THEOREM SlotsBounded == Spec => []ReserveKept
  <1>1. IInv => ReserveKept
    <2> SUFFICES ASSUME IInv PROVE ReserveKept
      OBVIOUS
    <2> DEFINE I == HoldersOf(INTERACTIVE)
               B == HoldersOf(BLOCKING)
               S == HoldersOf(STRUCTURAL)
               K == HoldersOf(BULK)
    <2>1. Holders = ((I \cup B) \cup S) \cup K
      BY SchedulerAssumption DEF HoldersOf, Holders, Priority
    <2>2. /\ I \cap B = {}
          /\ (I \cup B) \cap S = {}
          /\ ((I \cup B) \cup S) \cap K = {}
      BY DEF HoldersOf, INTERACTIVE, BLOCKING, STRUCTURAL, BULK
    <2>3. /\ IsFiniteSet(I) /\ IsFiniteSet(B) /\ IsFiniteSet(S) /\ IsFiniteSet(K)
          /\ Cardinality(I) \in Nat /\ Cardinality(B) \in Nat
          /\ Cardinality(S) \in Nat /\ Cardinality(K) \in Nat
      BY HoldersFinite, \A p \in Priority : HoldersOf(p) \in SUBSET Req
         DEF HoldersOf, Holders, Priority
    <2> HIDE DEF I, B, S, K
    <2>4. /\ IsFiniteSet(I \cup B)
          /\ Cardinality(I \cup B) = Cardinality(I) + Cardinality(B)
      BY <2>2, <2>3, DisjointUnion
    <2>5. /\ IsFiniteSet((I \cup B) \cup S)
          /\ Cardinality((I \cup B) \cup S) = Cardinality(I) + Cardinality(B) + Cardinality(S)
      BY <2>2, <2>3, <2>4, DisjointUnion
    <2>6. Cardinality(Holders) =
            Cardinality(I) + Cardinality(B) + Cardinality(S) + Cardinality(K)
      BY <2>1, <2>2, <2>3, <2>4, <2>5, DisjointUnion
    <2>7. Cardinality(Holders) = Total(inFlight) /\ Cardinality(K) = inFlight[BULK]
      BY <2>6 DEF IInv, SlotsAccounted, Total, Priority, I, B, S, K
    <2> QED
      BY <2>7 DEF IInv, WithinCapacity, ReserveKept, K
  <1> QED
    BY <1>1, SpecIInv, PTL

\* Both together, as the run checks them on a small instance.
THEOREM SlotsAreKept == Spec => []SlotsKept
  <1>1. SlotsAccounted /\ ReserveKept => SlotsKept
    BY DEF SlotsKept
  <1> QED
    BY <1>1, CountersAreExact, SlotsBounded, PTL
-----------------------------------------------------------------------------
(* The order of grants *)

\* An order of arrival, told by who was there before: transitive, without cycles,
\* and whoever came before another has completed at least as many ageing windows.
OrderSound(queue, order) ==
  \A v \in queue :
    /\ order[v] \subseteq queue
    /\ \A u \in order[v] :
         v \notin order[u] /\ order[u] \subseteq order[v] /\ steps[u] >= steps[v]

\* The second invariant; nobody ages outside the queue.
Arrivals ==
  /\ OrderSound(Queued, ahead)
  /\ \A r \in Req \ Queued : steps[r] = 0

\* No request of the Manager is of class INTERACTIVE: clamp_priority caps every
\* task at BLOCKING or below.  (With ageing on, _effective would rank one with the
\* class below it.)
NoInteractive == \A r \in Req : ClassOf[r] # INTERACTIVE

\* The newcomer comes after everybody.
LEMMA AcquireOrder ==
  ASSUME TypeOK, Arrivals, NEW r \in Req, st[r] = "idle"
  PROVE  OrderSound(Queued \cup {r}, [ahead EXCEPT ![r] = Queued])
  <1> DEFINE order == [ahead EXCEPT ![r] = Queued]
  <1>1. r \notin Queued /\ Queued \subseteq Req
    BY DEF Queued
  <1>2. \A v \in Req : order[v] = IF v = r THEN Queued ELSE ahead[v]
    BY DEF TypeOK
  <1>3. steps[r] = 0 /\ \A v \in Req : steps[v] \in Nat
    BY <1>1 DEF Arrivals, TypeOK
  <1> HIDE DEF order
  <1> SUFFICES ASSUME NEW v \in Queued \cup {r}
               PROVE  /\ order[v] \subseteq Queued \cup {r}
                      /\ \A u \in order[v] : /\ v \notin order[u]
                                             /\ order[u] \subseteq order[v]
                                             /\ steps[u] >= steps[v]
    BY DEF OrderSound, order
  <1>4. CASE v = r
    BY <1>1, <1>2, <1>3, <1>4 DEF Arrivals, OrderSound
  <1>5. CASE v \in Queued
    BY <1>1, <1>2, <1>3, <1>5 DEF Arrivals, OrderSound
  <1> QED
    BY <1>4, <1>5

\* Who is left in the queue by a promotion keeps its place and its age.
LEMMA PromoteArrivals ==
  ASSUME NEW st0 \in [Req -> RequestState], NEW order \in [Req -> SUBSET Req], NEW slots,
         OrderSound({r \in Req : st0[r] = "queued"}, order),
         Promote(st0, order, slots)
  PROVE  Arrivals'
  <1> DEFINE queue == {r \in Req : st0[r] = "queued"}
  <1>1. PICK A \in SUBSET queue :
          /\ st' = [r \in Req |-> IF r \in A THEN "granted" ELSE st0[r]]
          /\ ahead' = [r \in Req |-> IF r \in queue \ A THEN order[r] \ A ELSE {}]
          /\ steps' = [r \in Req |-> IF r \in queue \ A THEN steps[r] ELSE 0]
    BY DEF Promote
  <1>2. Queued' = queue \ A
    BY <1>1 DEF Queued
  <1>3. \A r \in Req \ Queued' : steps'[r] = 0
    BY <1>1, <1>2
  <1>4. \A v \in Queued' : ahead'[v] = order[v] \ A /\ steps'[v] = steps[v]
    BY <1>1, <1>2
  <1>5. OrderSound(queue, order)
    OBVIOUS
  <1> HIDE DEF queue
  <1>6. OrderSound(Queued, ahead)'
    <2> SUFFICES ASSUME NEW v \in Queued'
                 PROVE  /\ ahead'[v] \subseteq Queued'
                        /\ \A u \in ahead'[v] : /\ v \notin ahead'[u]
                                                /\ ahead'[u] \subseteq ahead'[v]
                                                /\ steps'[u] >= steps'[v]
      BY DEF OrderSound
    <2>1. ahead'[v] \subseteq Queued'
      BY <1>2, <1>4, <1>5 DEF OrderSound
    <2> QED
      BY <1>2, <1>4, <1>5, <2>1 DEF OrderSound
  <1> QED
    BY <1>3, <1>6 DEF Arrivals

\* Every step keeps the order of arrival.
LEMMA NextArrivals ==
  ASSUME TypeOK, Arrivals, [Next]_vars
  PROVE  Arrivals'
  <1>1. ASSUME NEW r \in Req, Acquire(r) PROVE Arrivals'
    <2> DEFINE st0 == [st EXCEPT ![r] = "queued"]
               order == [ahead EXCEPT ![r] = Queued]
    <2>1. st0 \in [Req -> RequestState] /\ order \in [Req -> SUBSET Req]
      BY DEF TypeOK, RequestState, Queued
    <2>2. {u \in Req : st0[u] = "queued"} = Queued \cup {r}
      BY DEF TypeOK, Queued
    <2>3. OrderSound(Queued \cup {r}, order)
      BY <1>1, AcquireOrder DEF Acquire
    <2>4. Promote(st0, order, inFlight)
      BY <1>1 DEF Acquire
    <2> HIDE DEF st0, order
    <2> QED
      BY <2>1, <2>2, <2>3, <2>4, PromoteArrivals
  <1>2. ASSUME NEW r \in Req, Cancel(r) PROVE Arrivals'
    <2> DEFINE st0 == [st EXCEPT ![r] = "idle"]
               order == [u \in Req |-> ahead[u] \ {r}]
               slots == IF st[r] = "queued" THEN inFlight ELSE Released(ClassOf[r])
    <2>1. st0 \in [Req -> RequestState] /\ order \in [Req -> SUBSET Req]
      BY DEF TypeOK, RequestState
    <2>2. {u \in Req : st0[u] = "queued"} = Queued \ {r}
      BY DEF TypeOK, Queued
    <2>3. OrderSound(Queued \ {r}, order)
      BY DEF Arrivals, OrderSound, Queued
    <2>4. Promote(st0, order, slots)
      BY <1>2 DEF Cancel
    <2> HIDE DEF st0, order, slots
    <2> QED
      BY <2>1, <2>2, <2>3, <2>4, PromoteArrivals
  <1>3. ASSUME NEW r \in Req, Release(r) PROVE Arrivals'
    <2> DEFINE st0 == [st EXCEPT ![r] = "idle"]
    <2>1. st0 \in [Req -> RequestState] /\ ahead \in [Req -> SUBSET Req]
      BY DEF TypeOK, RequestState
    <2>2. {u \in Req : st0[u] = "queued"} = Queued
      BY <1>3 DEF Release, TypeOK, Queued
    <2>3. Promote(st0, ahead, Released(ClassOf[r]))
      BY <1>3 DEF Release
    <2> HIDE DEF st0
    <2> QED
      BY <2>1, <2>2, <2>3, PromoteArrivals DEF Arrivals
  <1>4. ASSUME NEW r \in Req, Resume(r) PROVE Arrivals'
    <2>1. Queued' = Queued
      BY <1>4 DEF Resume, TypeOK, Queued
    <2> QED
      BY <1>4, <2>1 DEF Resume, Arrivals, OrderSound
  <1>5. ASSUME NEW r \in Req, Age(r) PROVE Arrivals'
    <2>1. Queued' = Queued /\ ahead' = ahead /\ r \in Queued /\ Queued \subseteq Req
      BY <1>5 DEF Age, Queued
    <2>2. /\ \A v \in Req : steps[v] \in Nat
          /\ \A v \in Req : steps'[v] = IF v = r THEN steps[r] + 1 ELSE steps[v]
          /\ \A u \in ahead[r] : steps[u] > steps[r]
      BY <1>5 DEF Age, TypeOK
    <2>3. OrderSound(Queued, ahead)'
      <3> SUFFICES ASSUME NEW v \in Queued
                   PROVE  /\ ahead[v] \subseteq Queued
                          /\ \A u \in ahead[v] : /\ v \notin ahead[u]
                                                 /\ ahead[u] \subseteq ahead[v]
                                                 /\ steps'[u] >= steps'[v]
        BY <2>1 DEF OrderSound
      <3> QED
        BY <2>1, <2>2 DEF Arrivals, OrderSound
    <2> QED
      BY <2>1, <2>2, <2>3 DEF Arrivals
  <1>6. CASE UNCHANGED vars
    BY <1>6 DEF vars, Arrivals, OrderSound, Queued
  <1> QED
    BY <1>1, <1>2, <1>3, <1>4, <1>5, <1>6 DEF Next

\* The class a request ages to is a number.
LEMMA EffectiveType ==
  ASSUME TypeOK, NEW r \in Req
  PROVE  Effective(r) \in Nat
  BY SchedulerAssumption
     DEF Effective, Floor, TypeOK, Priority, INTERACTIVE, BLOCKING, STRUCTURAL, BULK

\* The keys are transitive.
LEMMA KeysAreTransitive ==
  ASSUME TypeOK, NEW queue \in SUBSET Req, NEW order, OrderSound(queue, order),
         NEW x \in queue, NEW u \in queue, NEW v \in queue,
         Precedes(order, x, u), Precedes(order, u, v)
  PROVE  Precedes(order, x, v)
  <1>1. Effective(x) \in Nat /\ Effective(u) \in Nat /\ Effective(v) \in Nat
    BY EffectiveType
  <1>2. x \in order[u] /\ u \in order[v] => x \in order[v]
    BY DEF OrderSound
  <1> QED
    BY <1>1, <1>2 DEF Precedes

\* Whoever outranks another comes before it in the queue and may start whenever it may.
LEMMA OutrankingPrecedes ==
  ASSUME TypeOK, NoInteractive, NEW queue \in SUBSET Req, NEW order,
         OrderSound(queue, order), NEW u \in queue, NEW v \in queue,
         \/ ClassOf[u] = ClassOf[v] /\ u \in order[v]
         \/ ClassOf[u] < ClassOf[v] /\ steps[v] = 0 /\ ClassOf[u] < BULK
         \/ /\ Aging /\ u \in order[v] /\ steps[u] > 0
            /\ ClassOf[u] = STRUCTURAL /\ ClassOf[v] = BLOCKING
  PROVE  /\ Precedes(order, u, v)
         /\ \A n \in Nat : MayStart(ClassOf[v], n) => MayStart(ClassOf[u], n)
  <1> USE DEF Priority, INTERACTIVE, BLOCKING, STRUCTURAL, BULK
  <1>1. /\ ClassOf[u] \in {1, 2, 3} /\ ClassOf[v] \in {1, 2, 3}
        /\ steps[u] \in Nat /\ steps[v] \in Nat
    BY SchedulerAssumption DEF NoInteractive, TypeOK
  <1>2. \A n \in Nat : MayStart(ClassOf[v], n) => MayStart(ClassOf[u], n)
    BY <1>1 DEF MayStart, BulkWouldTakeTheLastSlot
  <1>3. CASE ClassOf[u] = ClassOf[v] /\ u \in order[v]
    <2>1. steps[u] >= steps[v]
      BY <1>3 DEF OrderSound
    <2>2. Effective(u) <= Effective(v) /\ Effective(u) \in Nat /\ Effective(v) \in Nat
      BY <1>1, <1>3, <2>1 DEF Effective, Floor
    <2> QED
      BY <1>2, <1>3, <2>2 DEF Precedes
  <1>4. CASE ClassOf[u] < ClassOf[v] /\ steps[v] = 0 /\ ClassOf[u] < BULK
    <2>1. Effective(u) < Effective(v)
      BY <1>1, <1>4 DEF Effective, Floor
    <2> QED
      BY <1>2, <2>1 DEF Precedes
  <1>5. CASE /\ Aging /\ u \in order[v] /\ steps[u] > 0
             /\ ClassOf[u] = STRUCTURAL /\ ClassOf[v] = BLOCKING
    <2>1. Effective(u) = Effective(v)
      BY <1>1, <1>5 DEF Effective, Floor
    <2> QED
      BY <1>2, <1>5, <2>1 DEF Precedes
  <1> QED
    BY <1>3, <1>4, <1>5

\* A promotion that grants a slot to v leaves nobody queued who outranks v: those
\* of the admitted that precede the one precede the other, so it found room too.
LEMMA PromotionFollowsTheKeys ==
  ASSUME TypeOK, NoInteractive,
         NEW st0, NEW order, NEW slots \in [Priority -> Nat],
         OrderSound({r \in Req : st0[r] = "queued"}, order),
         Promote(st0, order, slots),
         NEW u \in Req, NEW v \in Req,
         st0[u] = "queued", st'[u] = "queued", st0[v] = "queued", st'[v] = "granted"
  PROVE  ~ \/ ClassOf[u] = ClassOf[v] /\ u \in order[v]
           \/ ClassOf[u] < ClassOf[v] /\ steps[v] = 0 /\ ClassOf[u] < BULK
           \/ /\ Aging /\ u \in order[v] /\ steps[u] > 0
              /\ ClassOf[u] = STRUCTURAL /\ ClassOf[v] = BLOCKING
  <1> DEFINE queue == {r \in Req : st0[r] = "queued"}
  <1> SUFFICES ASSUME \/ ClassOf[u] = ClassOf[v] /\ u \in order[v]
                      \/ ClassOf[u] < ClassOf[v] /\ steps[v] = 0 /\ ClassOf[u] < BULK
                      \/ /\ Aging /\ u \in order[v] /\ steps[u] > 0
                         /\ ClassOf[u] = STRUCTURAL /\ ClassOf[v] = BLOCKING
               PROVE  FALSE
    OBVIOUS
  <1>1. PICK A \in SUBSET queue :
          /\ AdmittedByLoop(A, queue, order, slots)
          /\ st' = [r \in Req |-> IF r \in A THEN "granted" ELSE st0[r]]
    BY DEF Promote
  <1>2. u \in queue \ A /\ v \in A /\ queue \subseteq Req /\ OrderSound(queue, order)
    BY <1>1
  <1>3. /\ Precedes(order, u, v)
        /\ \A n \in Nat : MayStart(ClassOf[v], n) => MayStart(ClassOf[u], n)
    BY <1>2, OutrankingPrecedes
  <1> DEFINE Before(w) == {x \in A : Precedes(order, x, w)}
  <1>4. Before(u) \subseteq Before(v)
    BY <1>2, <1>3, KeysAreTransitive
  <1>5. /\ IsFiniteSet(Before(v))
        /\ Cardinality(Before(u)) \in Nat /\ Cardinality(Before(v)) \in Nat
    BY <1>2, HoldersFinite, Before(u) \in SUBSET Req, Before(v) \in SUBSET Req
  <1>6. Cardinality(Before(u)) <= Cardinality(Before(v))
    BY <1>4, <1>5, FS_Subset
  <1>7. /\ MayStart(ClassOf[v], Total(slots) + Cardinality(Before(v)))
        /\ ~MayStart(ClassOf[u], Total(slots) + Cardinality(Before(u)))
    BY <1>1, <1>2 DEF AdmittedByLoop
  <1> HIDE DEF Before
  <1>8. Total(slots) \in Nat /\ ClassOf[u] \in Priority
    BY TotalType, SchedulerAssumption
  <1>9. MayStart(ClassOf[u], Total(slots) + Cardinality(Before(v)))
    BY <1>3, <1>5, <1>7, <1>8
  <1> QED
    BY <1>5, <1>6, <1>7, <1>8, <1>9, MayStartAntitone

\* A release leaves a count in every class.
LEMMA ReleasedType ==
  ASSUME TypeOK, NEW r \in Req
  PROVE  Released(ClassOf[r]) \in [Priority -> Nat]
  <1>1. ClassOf[r] \in Priority /\ inFlight \in [Priority -> Nat]
    BY SchedulerAssumption DEF TypeOK
  <1>2. (IF inFlight[ClassOf[r]] <= 1 THEN 0 ELSE inFlight[ClassOf[r]] - 1) \in Nat
    BY <1>1
  <1> QED
    BY <1>1, <1>2 DEF Released

\* Ditto for a step, in the terms of the state before it.
LEMMA StepFollowsTheKeys ==
  ASSUME TypeOK, Arrivals, NoInteractive, Next,
         NEW u \in Req, NEW v \in Req,
         st[u] = "queued", st[v] \in {"idle", "queued"},
         st'[u] = "queued", st'[v] = "granted"
  PROVE  ~Outranks(u, v)
  <1>1. u \in Queued /\ inFlight \in [Priority -> Nat]
    BY DEF Queued, TypeOK
  <1>2. ASSUME NEW r \in Req, Acquire(r) PROVE ~Outranks(u, v)
    <2> DEFINE st0 == [st EXCEPT ![r] = "queued"]
               order == [ahead EXCEPT ![r] = Queued]
    <2>1. {w \in Req : st0[w] = "queued"} = Queued \cup {r}
      BY DEF TypeOK, Queued
    <2>2. OrderSound(Queued \cup {r}, order)
      BY <1>2, AcquireOrder DEF Acquire
    <2>3. Promote(st0, order, inFlight) /\ st[r] = "idle"
      BY <1>2 DEF Acquire
    <2>4. st0[u] = "queued" /\ st0[v] = "queued"
      <3>1. st' = [w \in Req |-> st'[w]] /\ (st'[v] = st0[v] \/ st0[v] = "queued")
        BY <2>3 DEF Promote
      <3> QED
        BY <2>3, <3>1 DEF TypeOK
    <2>5. st[v] = "idle" => v = r
      BY <2>4 DEF TypeOK
    <2>6. Earlier(u, v) => u \in order[v]
      BY <1>1, <2>3, <2>5 DEF Earlier, TypeOK
    <2> HIDE DEF st0, order
    <2> QED
      BY <1>1, <2>1, <2>2, <2>3, <2>4, <2>6, PromotionFollowsTheKeys DEF Outranks
  <1>3. ASSUME NEW r \in Req, Cancel(r) PROVE ~Outranks(u, v)
    <2> DEFINE st0 == [st EXCEPT ![r] = "idle"]
               order == [w \in Req |-> ahead[w] \ {r}]
               slots == IF st[r] = "queued" THEN inFlight ELSE Released(ClassOf[r])
    <2>1. {w \in Req : st0[w] = "queued"} = Queued \ {r}
      BY DEF TypeOK, Queued
    <2>2. OrderSound(Queued \ {r}, order)
      BY DEF Arrivals, OrderSound, Queued
    <2>3. Promote(st0, order, slots)
      BY <1>3 DEF Cancel
    <2>4. st0[u] = "queued" /\ st0[v] = "queued" /\ u # r /\ v # r
      <3>1. /\ st'[v] = st0[v] \/ st0[v] = "queued"
            /\ st'[u] = st0[u] \/ st0[u] = "queued"
        BY <2>3 DEF Promote
      <3> QED
        BY <3>1 DEF TypeOK
    <2>5. Earlier(u, v) => u \in order[v]
      BY <2>4 DEF Earlier, TypeOK
    <2>6. slots \in [Priority -> Nat]
      BY <1>1, ReleasedType
    <2> HIDE DEF st0, order, slots
    <2> QED
      BY <2>1, <2>2, <2>3, <2>4, <2>5, <2>6, PromotionFollowsTheKeys DEF Outranks
  <1>4. ASSUME NEW r \in Req, Release(r) PROVE ~Outranks(u, v)
    <2> DEFINE st0 == [st EXCEPT ![r] = "idle"]
               slots == Released(ClassOf[r])
    <2>1. {w \in Req : st0[w] = "queued"} = Queued
      BY <1>4 DEF Release, TypeOK, Queued
    <2>2. Promote(st0, ahead, slots) /\ slots \in [Priority -> Nat]
      BY <1>4, ReleasedType DEF Release
    <2>3. st0[u] = "queued" /\ st0[v] = "queued" /\ u # r /\ v # r
      <3>1. st'[v] = st0[v] \/ st0[v] = "queued"
        BY <2>2 DEF Promote
      <3> QED
        BY <1>4, <3>1 DEF TypeOK, Release
    <2>4. Earlier(u, v) => u \in ahead[v]
      BY <2>3 DEF Earlier, TypeOK
    <2> HIDE DEF st0, slots
    <2> QED
      BY <2>1, <2>2, <2>3, <2>4, PromotionFollowsTheKeys DEF Outranks, Arrivals
  <1>5. ASSUME NEW r \in Req, Resume(r) \/ Age(r) PROVE FALSE
    BY <1>5 DEF Resume, Age, TypeOK
  <1> QED
    BY <1>2, <1>3, <1>4, <1>5 DEF Next

\* A grant never overtakes a waiter that outranks the granted one, in class, in
\* arrival within its class, or by a window waited: the order in which the run's
\* requests are served is the order of their keys.
THEOREM GrantsInOrder ==
  ASSUME NoInteractive
  PROVE  Spec => GrantsFollowTheKeys
  <1>1. Init => Arrivals
    BY DEF Init, Arrivals, OrderSound, Queued
  <1>2. TypeOK /\ Arrivals /\ [Next]_vars => Arrivals'
    BY NextArrivals
  <1>3. ASSUME TypeOK, Arrivals, [Next]_vars
        PROVE  [\A u, v \in Req :
                  /\ st[u] = "queued" /\ st[v] \in {"idle", "queued"}
                  /\ st'[u] = "queued" /\ st'[v] = "granted"
                  => ~Outranks(u, v)]_vars
    BY <1>3, StepFollowsTheKeys DEF vars
  <1> QED
    BY <1>1, <1>2, <1>3, TypeCorrect, PTL DEF Spec, GrantsFollowTheKeys
-----------------------------------------------------------------------------
(* The promotion loop and its closed form *)

\* A set of numbers has a least element.
LEMMA LeastOf ==
  ASSUME NEW N \in SUBSET Nat, N # {}
  PROVE  \E n \in N : \A m \in N : n <= m
  <1>1. PICK n \in N : \A m \in N : ~(<<m, n>> \in OpToRel(<, Nat))
    BY WFMin, NatLessThanWellFounded
  <1>2. ASSUME NEW m \in N PROVE n <= m
    <2>1. ~(m < n)
      BY <1>1 DEF OpToRel
    <2> QED
      BY <2>1
  <1> QED
    BY <1>2

\* A queue whose keys order it totally.
Sorted(queue, order) ==
  /\ queue \in SUBSET Req
  /\ Ordered(queue, order)
  /\ OrderSound(queue, order)

\* Those of S with a smaller key than w.
Before(S, order, w) == {v \in S : Precedes(order, v, w)}

\* Two waiters do not precede each other, nor one itself.
LEMMA KeysAreStrict ==
  ASSUME TypeOK, NEW queue, NEW order, Sorted(queue, order),
         NEW u \in queue, NEW v \in queue, Precedes(order, u, v)
  PROVE  ~Precedes(order, v, u)
  <1>1. Effective(u) \in Nat /\ Effective(v) \in Nat
    BY EffectiveType DEF Sorted
  <1>2. u \in order[v] => v \notin order[u]
    BY DEF Sorted, OrderSound
  <1> QED
    BY <1>1, <1>2 DEF Precedes

\* How many precede a waiter is a number, monotonic in the set counted.
LEMMA BeforeCounts ==
  ASSUME NEW S \in SUBSET Req, NEW R \in SUBSET S, NEW order, NEW u, NEW w,
         Before(R, order, u) \subseteq Before(S, order, w)
  PROVE  /\ IsFiniteSet(Before(S, order, w))
         /\ Cardinality(Before(R, order, u)) \in Nat
         /\ Cardinality(Before(S, order, w)) \in Nat
         /\ Cardinality(Before(R, order, u)) <= Cardinality(Before(S, order, w))
         /\ Cardinality(Before(R, order, u)) = Cardinality(Before(S, order, w))
              => Before(R, order, u) = Before(S, order, w)
  <1>1. Before(S, order, w) \in SUBSET Req /\ Before(R, order, u) \in SUBSET Req
    BY DEF Before
  <1> QED
    BY <1>1, HoldersFinite, FS_Subset

\* Any waiters at all have a first among them.
LEMMA FirstOf ==
  ASSUME TypeOK, NEW queue, NEW order, Sorted(queue, order),
         NEW W \in SUBSET queue, W # {}
  PROVE  \E w \in W : \A v \in W \ {w} : Precedes(order, w, v)
  <1> DEFINE N == {Cardinality(Before(W, order, w)) : w \in W}
  <1>1. W \in SUBSET Req
    BY DEF Sorted
  <1>2. \A w \in W : Cardinality(Before(W, order, w)) \in Nat
    BY <1>1, BeforeCounts
  <1>3. PICK n \in N : \A m \in N : n <= m
    <2>1. N \in SUBSET Nat /\ N # {}
      BY <1>2
    <2> HIDE DEF N
    <2> QED
      BY <2>1, LeastOf
  <1>4. PICK w \in W : n = Cardinality(Before(W, order, w))
    BY <1>3
  <1>5. ASSUME NEW v \in W \ {w}, Precedes(order, v, w)
        PROVE  FALSE
    <2>1. Before(W, order, v) \subseteq Before(W, order, w)
      BY <1>1, <1>5, KeysAreTransitive DEF Before, Sorted
    <2>2. v \in Before(W, order, w) /\ v \notin Before(W, order, v)
      BY <1>5, KeysAreStrict DEF Before
    <2>3. Cardinality(Before(W, order, v)) < Cardinality(Before(W, order, w))
      <3>1. Before(W, order, v) # Before(W, order, w)
        BY <2>2
      <3>2. /\ Cardinality(Before(W, order, v)) <= Cardinality(Before(W, order, w))
            /\ Cardinality(Before(W, order, v)) # Cardinality(Before(W, order, w))
        BY <1>1, <2>1, <3>1, BeforeCounts
      <3> QED
        BY <1>2, <3>2
    <2>4. Cardinality(Before(W, order, v)) \in N
      OBVIOUS
    <2> QED
      BY <1>2, <1>3, <1>4, <2>3, <2>4
  <1>6. \A v \in W \ {w} : Precedes(order, w, v)
    <2> TAKE v \in W \ {w}
    <2>1. Precedes(order, v, w) \/ Precedes(order, w, v)
      BY KeysAreTotal DEF Sorted
    <2> QED
      BY <1>5, <2>1
  <1> QED
    BY <1>6

\* The closed form admits one set: where two would first differ, the same waiters
\* precede.
LEMMA AdmittedIsUnique ==
  ASSUME TypeOK, NEW queue, NEW order, Sorted(queue, order), NEW slots,
         NEW A \in SUBSET queue, NEW B \in SUBSET queue,
         AdmittedByLoop(A, queue, order, slots), AdmittedByLoop(B, queue, order, slots)
  PROVE  A = B
  <1> DEFINE D == (A \ B) \cup (B \ A)
  <1> SUFFICES ASSUME D # {} PROVE FALSE
    OBVIOUS
  <1>1. PICK w \in D : \A v \in D \ {w} : Precedes(order, w, v)
    <2>1. D \in SUBSET queue
      OBVIOUS
    <2> HIDE DEF D
    <2> QED
      BY <2>1, FirstOf
  <1>2. \A v \in queue : Precedes(order, v, w) => v \notin D
    <2> TAKE v \in queue
    <2> HAVE Precedes(order, v, w)
    <2>1. ~Precedes(order, w, v) /\ v # w
      BY KeysAreStrict
    <2> HIDE DEF D
    <2> QED
      BY <1>1, <2>1
  <1>3. {v \in A : Precedes(order, v, w)} = {v \in B : Precedes(order, v, w)}
    BY <1>2
  <1> QED
    BY <1>1, <1>3 DEF AdmittedByLoop

\* Nobody left in the queue may start.
Closed(s) == \A w \in s.queue : ~MayStart(ClassOf[w], Total(s.slots))

\* After some turns on a queue Q with T slots taken, A the waiters admitted: each of
\* them found room after those of A that precede it; who may start now comes after
\* them all; who may not would not have found room in its turn either.
TurnOK(s, Q, order, T) ==
  LET A == Q \ s.queue
  IN  /\ s.queue \subseteq Q
      /\ s.slots \in [Priority -> Nat]
      /\ Total(s.slots) = T + Cardinality(A)
      /\ \A w \in A : MayStart(ClassOf[w], T + Cardinality(Before(A, order, w)))
      /\ \A w \in s.queue :
           MayStart(ClassOf[w], Total(s.slots)) => \A v \in A : Precedes(order, v, w)
      /\ \A w \in s.queue :
           \/ MayStart(ClassOf[w], Total(s.slots))
           \/ ~MayStart(ClassOf[w], T + Cardinality(Before(A, order, w)))

\* A turn takes the first of those who may start, or changes nothing.
LEMMA PickIsFirst ==
  ASSUME TypeOK, NEW queue, NEW order, Sorted(queue, order),
         NEW Q \in SUBSET queue, NEW slots
  PROVE  \/ /\ Pick(Q, order, slots) = {}
            /\ \A w \in Q : ~MayStart(ClassOf[w], Total(slots))
         \/ \E a \in Q : /\ Pick(Q, order, slots) = {a}
                         /\ MayStart(ClassOf[a], Total(slots))
                         /\ \A w \in Q \ {a} : MayStart(ClassOf[w], Total(slots))
                                                 => Precedes(order, a, w)
  <1> DEFINE open == {w \in Q : MayStart(ClassOf[w], Total(slots))}
  <1>1. Pick(Q, order, slots) = {w \in open : \A v \in open \ {w} : Precedes(order, w, v)}
    BY DEF Pick
  <1>2. CASE open = {}
    BY <1>1, <1>2
  <1>3. CASE open # {}
    <2>1. open \in SUBSET queue
      OBVIOUS
    <2> HIDE DEF open
    <2>2. PICK a \in open : \A v \in open \ {a} : Precedes(order, a, v)
      BY <1>3, <2>1, FirstOf
    <2>3. ASSUME NEW w \in open, w # a, \A v \in open \ {w} : Precedes(order, w, v)
          PROVE  FALSE
      <3>1. Precedes(order, w, a) /\ Precedes(order, a, w)
        BY <2>2, <2>3
      <3> QED
        BY <2>1, <3>1, KeysAreStrict
    <2>4. Pick(Q, order, slots) = {a}
      BY <1>1, <2>2, <2>3
    <2> QED
      BY <2>2, <2>4 DEF open
  <1> QED
    BY <1>2, <1>3

\* A turn with nobody to pick.
LEMMA TurnStands ==
  ASSUME NEW s, NEW order, s.slots \in [Priority -> Nat],
         Pick(s.queue, order, s.slots) = {}
  PROVE  /\ LoopTurn(s, order).queue = s.queue
         /\ LoopTurn(s, order).slots = s.slots
  <1>1. \A p \in Priority : Cardinality({w \in {} : ClassOf[w] = p}) = 0
    <2> TAKE p \in Priority
    <2>1. {w \in {} : ClassOf[w] = p} = {}
      OBVIOUS
    <2> QED
      BY <2>1, FS_EmptySet
  <1>2. LoopTurn(s, order).slots =
          [p \in Priority |-> s.slots[p] + Cardinality({w \in {} : ClassOf[w] = p})]
    BY DEF LoopTurn
  <1>3. LoopTurn(s, order).slots = s.slots
    BY <1>1, <1>2
  <1> QED
    BY <1>3 DEF LoopTurn

\* A turn that picks one: it is off the queue and counted.
LEMMA TurnTakes ==
  ASSUME NEW s, NEW order, s.slots \in [Priority -> Nat],
         NEW a \in Req, Pick(s.queue, order, s.slots) = {a}
  PROVE  /\ LoopTurn(s, order).queue = s.queue \ {a}
         /\ LoopTurn(s, order).slots \in [Priority -> Nat]
         /\ Total(LoopTurn(s, order).slots) = Total(s.slots) + 1
  <1>1. ClassOf[a] \in Priority
    BY SchedulerAssumption
  <1>2. \A p \in Priority : Cardinality({w \in {a} : ClassOf[w] = p}) =
                              IF p = ClassOf[a] THEN 1 ELSE 0
    <2> TAKE p \in Priority
    <2>1. {w \in {a} : ClassOf[w] = p} = IF p = ClassOf[a] THEN {a} ELSE {}
      OBVIOUS
    <2> QED
      BY <2>1, FS_EmptySet, FS_Singleton
  <1>3. LoopTurn(s, order).slots =
          [p \in Priority |-> s.slots[p] + Cardinality({w \in {a} : ClassOf[w] = p})]
    BY DEF LoopTurn
  <1>4. LoopTurn(s, order).slots =
          [p \in Priority |-> s.slots[p] + IF p = ClassOf[a] THEN 1 ELSE 0]
    BY <1>2, <1>3
  <1>5. LoopTurn(s, order).slots \in [Priority -> Nat]
    BY <1>4
  <1>6. Total(LoopTurn(s, order).slots) = Total(s.slots) + 1
    BY <1>1, <1>4 DEF Total, Priority, INTERACTIVE, BLOCKING, STRUCTURAL, BULK
  <1> QED
    BY <1>5, <1>6 DEF LoopTurn

\* One turn keeps TurnOK, and admits one more or finds the queue closed.
LEMMA TurnKeeps ==
  ASSUME TypeOK, NEW Q, NEW order, Sorted(Q, order), NEW T \in Nat,
         NEW s, TurnOK(s, Q, order, T)
  PROVE  LET t == LoopTurn(s, order)
         IN  /\ TurnOK(t, Q, order, T)
             /\ \/ Closed(t)
                \/ ~Closed(s) /\ Cardinality(Q \ t.queue) = Cardinality(Q \ s.queue) + 1
  <1> DEFINE t == LoopTurn(s, order)
             A == Q \ s.queue
             B == Q \ t.queue
             n == Total(s.slots)
  <1>1. /\ s.queue \subseteq Q /\ Q \in SUBSET Req
        /\ s.slots \in [Priority -> Nat]
        /\ n = T + Cardinality(A)
    BY DEF TurnOK, Sorted
  <1>2. /\ \A w \in A : MayStart(ClassOf[w], T + Cardinality(Before(A, order, w)))
        /\ \A w \in s.queue :
             MayStart(ClassOf[w], n) => \A v \in A : Precedes(order, v, w)
        /\ \A w \in s.queue :
             \/ MayStart(ClassOf[w], n)
             \/ ~MayStart(ClassOf[w], T + Cardinality(Before(A, order, w)))
    BY DEF TurnOK
  <1>3. CASE /\ Pick(s.queue, order, s.slots) = {}
             /\ \A w \in s.queue : ~MayStart(ClassOf[w], n)
    <2>1. t.queue = s.queue /\ t.slots = s.slots
      BY <1>1, <1>3, TurnStands
    <2>2. Closed(t)
      BY <1>3, <2>1 DEF Closed
    <2> HIDE DEF t
    <2>3. TurnOK(t, Q, order, T)
      BY <2>1 DEF TurnOK
    <2> QED
      BY <2>1, <2>2, <2>3 DEF t
  <1>4. ASSUME NEW a \in s.queue, Pick(s.queue, order, s.slots) = {a},
               MayStart(ClassOf[a], n),
               \A w \in s.queue \ {a} : MayStart(ClassOf[w], n) => Precedes(order, a, w)
        PROVE  /\ TurnOK(t, Q, order, T)
               /\ ~Closed(s) /\ Cardinality(B) = Cardinality(A) + 1
    <2>0. ~Closed(s)
      BY <1>4 DEF Closed
    <2>1. /\ t.queue = s.queue \ {a}
          /\ t.slots \in [Priority -> Nat]
          /\ Total(t.slots) = n + 1
      BY <1>1, <1>4, TurnTakes
    <2>2. A \in SUBSET Req /\ B = A \cup {a} /\ a \notin A /\ a \in Q /\ A \subseteq Q
      BY <1>1, <1>4, <2>1
    <2>3. Cardinality(B) = Cardinality(A) + 1 /\ Cardinality(A) \in Nat
      BY <2>2, HoldersFinite, FS_AddElement
    <2>4. n \in Nat /\ \A w \in Q : ClassOf[w] \in Priority
      BY <1>1, <2>3, SchedulerAssumption
    <2> HIDE DEF t, A, B, n
    <2>5. \A w \in Q : /\ Cardinality(Before(A, order, w)) \in Nat
                       /\ Cardinality(Before(B, order, w)) \in Nat
                       /\ Cardinality(Before(A, order, w)) <= Cardinality(Before(B, order, w))
      <3> TAKE w \in Q
      <3>1. B \in SUBSET Req /\ A \in SUBSET B
        BY <1>1, <2>2
      <3>2. Before(A, order, w) \subseteq Before(B, order, w)
        BY <3>1 DEF Before
      <3> QED
        BY <3>1, <3>2, BeforeCounts
    <2>6. ASSUME NEW w \in B
          PROVE  MayStart(ClassOf[w], T + Cardinality(Before(B, order, w)))
      <3>1. ~Precedes(order, a, w)
        <4>1. CASE w = a
          BY <2>2, <4>1, KeysAreStrict
        <4>2. CASE w \in A
          <5>1. Precedes(order, w, a)
            BY <1>2, <1>4, <4>2
          <5> QED
            BY <2>2, <4>2, <5>1, KeysAreStrict
        <4> QED
          BY <2>2, <4>1, <4>2
      <3>2. Before(B, order, w) = Before(A, order, w)
        BY <2>2, <3>1 DEF Before
      <3>3. CASE w \in A
        BY <1>2, <3>2, <3>3
      <3>4. CASE w = a
        <4>1. Cardinality(Before(A, order, a)) <= Cardinality(A)
          <5>1. Before(A, order, a) \in SUBSET A /\ IsFiniteSet(A)
            BY <2>2, HoldersFinite DEF Before
          <5> QED
            BY <5>1, FS_Subset
        <4>2. T + Cardinality(Before(A, order, a)) <= n
          BY <1>1, <2>2, <2>3, <2>5, <4>1
        <4>3. T + Cardinality(Before(A, order, a)) \in Nat
          BY <2>2, <2>5
        <4> QED
          BY <1>4, <2>2, <2>4, <3>2, <3>4, <4>2, <4>3, MayStartAntitone
      <3> QED
        BY <2>2, <3>3, <3>4
    <2>7. ASSUME NEW w \in s.queue \ {a}
          PROVE  w \in Q /\ (MayStart(ClassOf[w], n + 1) => MayStart(ClassOf[w], n))
      BY <1>1, <2>4, MayStartAntitone
    <2>8. ASSUME NEW w \in s.queue \ {a}, MayStart(ClassOf[w], n)
          PROVE  \A v \in B : Precedes(order, v, w)
      BY <1>2, <1>4, <2>2, <2>8
    <2>9. ASSUME NEW w \in s.queue \ {a}, ~MayStart(ClassOf[w], n + 1)
          PROVE  ~MayStart(ClassOf[w], T + Cardinality(Before(B, order, w)))
      <3>1. CASE MayStart(ClassOf[w], n)
        <4>1. Before(B, order, w) = B
          BY <2>8, <3>1 DEF Before
        <4>2. T + Cardinality(Before(B, order, w)) = n + 1
          BY <1>1, <2>3, <4>1
        <4> QED
          BY <2>9, <4>2
      <3>2. CASE ~MayStart(ClassOf[w], n)
        <4>1. ~MayStart(ClassOf[w], T + Cardinality(Before(A, order, w)))
          BY <1>2, <3>2
        <4>2. /\ T + Cardinality(Before(A, order, w)) \in Nat
              /\ T + Cardinality(Before(B, order, w)) \in Nat
              /\ T + Cardinality(Before(A, order, w)) <= T + Cardinality(Before(B, order, w))
          BY <2>5, <2>7
        <4> QED
          BY <2>4, <2>7, <4>1, <4>2, MayStartAntitone
      <3> QED
        BY <3>1, <3>2
    <2>10. TurnOK(t, Q, order, T)
      <3>1. t.queue \subseteq Q /\ Total(t.slots) = T + Cardinality(B)
        BY <1>1, <2>1, <2>3
      <3>2. \A w \in t.queue :
              MayStart(ClassOf[w], Total(t.slots)) => \A v \in B : Precedes(order, v, w)
        BY <2>1, <2>7, <2>8
      <3>3. \A w \in t.queue :
              \/ MayStart(ClassOf[w], Total(t.slots))
              \/ ~MayStart(ClassOf[w], T + Cardinality(Before(B, order, w)))
        BY <2>1, <2>9
      <3> QED
        BY <2>1, <2>6, <3>1, <3>2, <3>3 DEF TurnOK, B
    <2> QED
      BY <2>0, <2>3, <2>10
  <1>5. \/ /\ Pick(s.queue, order, s.slots) = {}
           /\ \A w \in s.queue : ~MayStart(ClassOf[w], n)
        \/ \E a \in s.queue : /\ Pick(s.queue, order, s.slots) = {a}
                              /\ MayStart(ClassOf[a], n)
                              /\ \A w \in s.queue \ {a} : MayStart(ClassOf[w], n)
                                                            => Precedes(order, a, w)
    BY <1>1, PickIsFirst
  <1>6. CASE \E a \in s.queue : /\ Pick(s.queue, order, s.slots) = {a}
                                /\ MayStart(ClassOf[a], n)
                                /\ \A w \in s.queue \ {a} : MayStart(ClassOf[w], n)
                                                              => Precedes(order, a, w)
    BY <1>4, <1>6
  <1> QED
    BY <1>3, <1>5, <1>6

\* The turns on a queue: what the loop's function is at each of them.
Turns(f, N, s0, order) ==
  f = [n \in 0..N |-> IF n = 0 THEN s0 ELSE LoopTurn(f[n - 1], order)]

\* There is such a function, for any number of turns.
LEMMA TurnsExist ==
  ASSUME NEW s0, NEW order, NEW N \in Nat
  PROVE  \E f : Turns(f, N, s0, order)
  <1> DEFINE Bad == {m \in Nat : ~\E f : Turns(f, m, s0, order)}
  <1>1. 0 \notin Bad
    <2> DEFINE f == [n \in 0..0 |-> s0]
    <2>1. Turns(f, 0, s0, order)
      BY DEF Turns
    <2> QED
      BY <2>1
  <1>2. ASSUME NEW m \in Nat, NEW f, Turns(f, m, s0, order)
        PROVE  \E g : Turns(g, m + 1, s0, order)
    <2> DEFINE g == [n \in 0..(m + 1) |-> IF n = 0 THEN s0 ELSE LoopTurn(f[n - 1], order)]
    <2>1. \A n \in 0..m : g[n] = f[n]
      BY <1>2 DEF Turns
    <2>2. \A n \in 0..(m + 1) : n # 0 => g[n - 1] = f[n - 1]
      BY <2>1
    <2>3. Turns(g, m + 1, s0, order)
      BY <2>2 DEF Turns
    <2> QED
      BY <2>3
  <1>3. Bad = {}
    <2> SUFFICES ASSUME Bad # {} PROVE FALSE
      OBVIOUS
    <2>1. PICK m \in Bad : \A k \in Bad : m <= k
      <3>1. Bad \in SUBSET Nat
        OBVIOUS
      <3> HIDE DEF Bad
      <3> QED
        BY <3>1, LeastOf
    <2>2. m \in Nat /\ m # 0
      BY <1>1, <2>1
    <2>3. m - 1 \in Nat /\ m - 1 \notin Bad
      BY <2>1, <2>2
    <2>4. PICK f : Turns(f, m - 1, s0, order)
      BY <2>3
    <2>5. \E g : Turns(g, (m - 1) + 1, s0, order)
      BY <1>2, <2>3, <2>4
    <2>6. (m - 1) + 1 = m
      BY <2>2
    <2> QED
      BY <2>1, <2>5, <2>6
  <1> QED
    BY <1>3

\* After as many turns as there were waiters the queue is closed, so the loop admits
\* the one set the closed form describes.
LEMMA LoopIsClosedForm ==
  ASSUME TypeOK, NEW Q, NEW order, Sorted(Q, order),
         NEW slots \in [Priority -> Nat], NEW A \in SUBSET Q
  PROVE  AdmittedByLoop(A, Q, order, slots) <=> A = LoopAdmits(Q, order, slots)
  <1> DEFINE s0 == [queue |-> Q, slots |-> slots]
             N == Cardinality(Q)
             T == Total(slots)
  <1>1. Q \in SUBSET Req /\ IsFiniteSet(Q) /\ N \in Nat /\ T \in Nat
    BY HoldersFinite, TotalType DEF Sorted
  <1>2. PICK f : /\ Turns(f, N, s0, order)
                 /\ LoopAdmits(Q, order, slots) = Q \ f[N].queue
    <2> DEFINE turn == CHOOSE g : Turns(g, N, s0, order)
    <2>1. Turns(turn, N, s0, order)
      BY <1>1, TurnsExist
    <2>2. LoopAdmits(Q, order, slots) = Q \ turn[N].queue
      BY DEF LoopAdmits, Turns
    <2> QED
      BY <2>1, <2>2
  <1>3. f[0] = s0 /\ \A n \in 1..N : f[n] = LoopTurn(f[n - 1], order)
    BY <1>1, <1>2 DEF Turns
  <1> DEFINE Fine(n) == /\ TurnOK(f[n], Q, order, T)
                        /\ Closed(f[n]) \/ Cardinality(Q \ f[n].queue) = n
             Bad == {n \in 0..N : ~Fine(n)}
  <1>4. Fine(0)
    <2>1. f[0].queue = Q /\ f[0].slots = slots
      BY <1>3
    <2>2. Q \ f[0].queue = {} /\ Cardinality(Q \ f[0].queue) = 0
      BY <2>1, FS_EmptySet
    <2>3. \A w \in f[0].queue : Cardinality(Before(Q \ f[0].queue, order, w)) = 0
      <3>1. \A w \in f[0].queue : Before(Q \ f[0].queue, order, w) = {}
        BY <2>2 DEF Before
      <3> QED
        BY <3>1, FS_EmptySet
    <2>4. TurnOK(f[0], Q, order, T)
      BY <1>1, <2>1, <2>2, <2>3 DEF TurnOK
    <2> QED
      BY <2>2, <2>4
  <1>5. ASSUME NEW n \in 1..N, Fine(n - 1)
        PROVE  Fine(n)
    <2>1. f[n] = LoopTurn(f[n - 1], order)
      BY <1>3
    <2>2. /\ TurnOK(f[n], Q, order, T)
          /\ \/ Closed(f[n])
             \/ /\ ~Closed(f[n - 1])
                /\ Cardinality(Q \ f[n].queue) = Cardinality(Q \ f[n - 1].queue) + 1
      BY <1>1, <1>5, <2>1, TurnKeeps
    <2>3. ~Closed(f[n - 1]) => Cardinality(Q \ f[n - 1].queue) = n - 1
      BY <1>5
    <2> QED
      BY <1>1, <2>2, <2>3
  <1>6. Fine(N)
    <2>1. ASSUME Bad # {} PROVE FALSE
      <3>1. PICK n \in Bad : \A m \in Bad : n <= m
        <4>1. Bad \in SUBSET Nat
          BY <1>1
        <4> HIDE DEF Bad
        <4> QED
          BY <2>1, <4>1, LeastOf
      <3> HIDE DEF Fine
      <3>2. n \in 1..N /\ n - 1 \in 0..N
        <4>1. n \in 0..N /\ n # 0
          BY <1>4, <3>1
        <4> QED
          BY <1>1, <4>1
      <3>3. n - 1 \notin Bad
        <4>1. ~(n <= n - 1)
          BY <1>1, <3>2
        <4> HIDE DEF Bad
        <4> QED
          BY <3>1, <4>1
      <3>4. Fine(n - 1)
        BY <3>2, <3>3
      <3> QED
        BY <1>5, <3>1, <3>2, <3>4
    <2> HIDE DEF Fine
    <2> QED
      BY <1>1, <2>1
  <1> DEFINE R == f[N].queue
             S == f[N].slots
  <1>7. /\ TurnOK(f[N], Q, order, T)
        /\ R \subseteq Q
        /\ Total(S) = T + Cardinality(Q \ R)
    BY <1>6 DEF TurnOK
  <1>8. Closed(f[N])
    <2>1. ASSUME Cardinality(Q \ R) = N PROVE R = {}
      <3>1. Q \ R = Q
        BY <1>1, <2>1, FS_Subset, Q \ R \in SUBSET Q
      <3> QED
        BY <1>7, <3>1
    <2> QED
      BY <1>6, <2>1 DEF Closed
  <1>9. AdmittedByLoop(Q \ R, Q, order, slots)
    <2>1. ASSUME NEW w \in Q
          PROVE  w \in Q \ R
                   <=> MayStart(ClassOf[w],
                                T + Cardinality({v \in Q \ R : Precedes(order, v, w)}))
      <3>1. {v \in Q \ R : Precedes(order, v, w)} = Before(Q \ R, order, w)
        BY DEF Before
      <3>2. CASE w \in R
        BY <1>7, <1>8, <3>1, <3>2 DEF TurnOK, Closed
      <3>3. CASE w \notin R
        BY <1>7, <3>1, <3>3 DEF TurnOK
      <3> QED
        BY <3>2, <3>3
    <2> QED
      BY <2>1 DEF AdmittedByLoop
  <1>10. LoopAdmits(Q, order, slots) = Q \ R
    BY <1>2
  <1>11. Q \ R \in SUBSET Q
    OBVIOUS
  <1> HIDE DEF R, T
  <1>12. AdmittedByLoop(A, Q, order, slots) => A = Q \ R
    BY <1>9, <1>11, AdmittedIsUnique
  <1> QED
    BY <1>9, <1>10, <1>12

\* The loop the code writes and the closed form the specification states admit the
\* same waiters in every reachable state, from the slots taken there and from any
\* split of taken slots: what is proved with the one holds of the other.
THEOREM LoopIsWhatIsSpecified == Spec => []LoopAgrees
  <1>1. IInv /\ Arrivals => LoopAgrees
    <2> SUFFICES ASSUME IInv, Arrivals,
                        NEW b \in 0..Concurrency, NEW k \in 0..Concurrency,
                        NEW A \in SUBSET Queued
                 PROVE  LET slots == [p \in Priority |-> IF p = BULK THEN b
                                                         ELSE IF p = BLOCKING THEN k ELSE 0]
                        IN  AdmittedByLoop(A, Queued, ahead, slots)
                              <=> A = LoopAdmits(Queued, ahead, slots)
      BY DEF LoopAgrees
    <2> DEFINE slots == [p \in Priority |-> IF p = BULK THEN b
                                            ELSE IF p = BLOCKING THEN k ELSE 0]
    <2>1. slots \in [Priority -> Nat]
      BY SchedulerAssumption
    <2>2. TypeOK /\ Sorted(Queued, ahead)
      BY DEF IInv, Arrivals, Sorted, Queued
    <2> HIDE DEF slots
    <2>3. AdmittedByLoop(A, Queued, ahead, slots) <=> A = LoopAdmits(Queued, ahead, slots)
      BY <2>1, <2>2, LoopIsClosedForm
    <2> QED
      BY <2>3 DEF slots
  <1>2. Init => Arrivals
    BY DEF Init, Arrivals, OrderSound, Queued
  <1>3. TypeOK /\ Arrivals /\ [Next]_vars => Arrivals'
    BY NextArrivals
  <1> QED
    BY <1>1, <1>2, <1>3, TypeCorrect, SpecIInv, PTL DEF Spec

-----------------------------------------------------------------------------
(* The handler and the scheduler *)
\* The handler drives the scheduler by its protocol: each of its steps is one of
\* the scheduler's, or none.
THEOREM ProtocolKept == GateSpec => SchedulerProtocolKept
  <1>1. GateInit => Init
    BY DEF GateInit
  <1>2. [GateNext]_gateVars => [Next]_vars
    <2>1. ASSUME NEW r \in Req,
                 \/ Submit(r) \/ Enter(r) \/ HangUp(r) \/ Wait(r)
                 \/ \E seconds \in 0..MaxSeconds : Finish(r, seconds)
          PROVE  Next
      BY <2>1 DEF Submit, Enter, HangUp, Wait, Finish, Next
    <2>2. ASSUME UNCHANGED gateVars PROVE UNCHANGED vars
      BY <2>2 DEF gateVars
    <2> QED
      BY <2>1, <2>2 DEF GateNext
  <1> QED
    BY <1>1, <1>2, PTL DEF GateSpec, SchedulerProtocolKept, Spec

\* So the scheduler's theorems hold of the handler: slots are counted exactly and
\* kept within their limits, whatever the gate lets in and whoever hangs up.
THEOREM SlotsAreKeptBehindTheGate == GateSpec => []SlotsKept
  BY ProtocolKept, SlotsAreKept, PTL DEF SchedulerProtocolKept

\* Nobody who may start is left queued.
THEOREM WorkConservingBehindTheGate == GateSpec => []NobodyLeftBehind
  BY ProtocolKept, WorkConserving, PTL DEF SchedulerProtocolKept

-----------------------------------------------------------------------------
(* The gate *)

LiveBulk == {r \in Live : IsBulk(r)}

\* What the gate relies on of the scheduler's state.
StOK == st \in [Req -> RequestState]

\* The inductive invariant: the gate counts every live request, and what bulk work
\* may still spend is covered by the places in the queue.
GateInv ==
  /\ StOK
  /\ inflight \in Nat /\ bulkUsed \in Nat
  /\ GateCoversLive
  /\ OvershootBounded

LEMMA LiveFinite ==
  /\ IsFiniteSet(Live) /\ IsFiniteSet(LiveBulk)
  /\ Cardinality(Live) \in Nat /\ Cardinality(LiveBulk) \in Nat
  /\ Cardinality(LiveBulk) <= Cardinality(Live)
  BY SchedulerAssumption, GateAssumption, FS_Subset, FS_CardinalityType, Live \in SUBSET Req, LiveBulk \in SUBSET Live
     DEF Live, LiveBulk

\* A promotion moves nobody into the scheduler or out of it.
LEMMA PromoteLive ==
  ASSUME NEW st0 \in [Req -> RequestState], NEW order, NEW slots,
         Promote(st0, order, slots)
  PROVE  StOK' /\ Live' = {r \in Req : st0[r] # "idle"}
  BY DEF Promote, Live, StOK, RequestState

\* Which requests are live after a step of the scheduler.
LEMMA SchedLive ==
  ASSUME StOK, NEW r \in Req
  PROVE  /\ Acquire(r) => StOK' /\ r \notin Live /\ Live' = Live \cup {r}
         /\ Cancel(r) => StOK' /\ Live' = Live \ {r}
         /\ Release(r) => StOK' /\ r \in Live /\ Live' = Live \ {r}
         /\ Resume(r) \/ Age(r) => StOK' /\ Live' = Live
  <1> USE DEF RequestState
  <1>1. ASSUME Acquire(r) PROVE StOK' /\ r \notin Live /\ Live' = Live \cup {r}
    <2>1. [st EXCEPT ![r] = "queued"] \in [Req -> RequestState]
      BY DEF StOK
    <2> QED
      BY <1>1, <2>1, PromoteLive DEF Acquire, StOK, Live
  <1>2. [st EXCEPT ![r] = "idle"] \in [Req -> RequestState]
    BY DEF StOK
  <1>3. ASSUME Cancel(r) PROVE StOK' /\ Live' = Live \ {r}
    BY <1>2, <1>3, PromoteLive DEF Cancel, StOK, Live
  <1>4. ASSUME Release(r) PROVE StOK' /\ r \in Live /\ Live' = Live \ {r}
    BY <1>2, <1>4, PromoteLive DEF Release, StOK, Live
  <1>5. ASSUME Resume(r) \/ Age(r) PROVE StOK' /\ Live' = Live
    BY <1>5 DEF Resume, Age, StOK, Live
  <1> QED
    BY <1>1, <1>3, <1>4, <1>5

\* Who leaves takes its share of the bulk requests along.
LEMMA LeavingCounts ==
  ASSUME NEW r \in Live, Live' = Live \ {r}
  PROVE  /\ Cardinality(Live') = Cardinality(Live) - 1
         /\ IF IsBulk(r) THEN Cardinality(LiveBulk') = Cardinality(LiveBulk) - 1
                         ELSE LiveBulk' = LiveBulk
  <1>1. Cardinality(Live') = Cardinality(Live) - 1
    BY LiveFinite, FS_RemoveElement
  <1>2. LiveBulk' = LiveBulk \ {r}
    BY DEF LiveBulk, IsBulk
  <1>3. r \in LiveBulk <=> IsBulk(r)
    BY DEF LiveBulk
  <1> QED
    <2>1. CASE IsBulk(r)
      BY <1>1, <1>2, <1>3, <2>1, LiveFinite, FS_RemoveElement
    <2>2. CASE ~IsBulk(r)
      BY <1>1, <1>2, <1>3, <2>2
    <2> QED
      BY <2>1, <2>2

\* More requests may spend more.
LEMMA Spending ==
  ASSUME NEW m \in Nat, NEW n \in Nat, m <= n
  PROVE  MaxSeconds * m \in Nat /\ MaxSeconds * n \in Nat /\ MaxSeconds * m <= MaxSeconds * n
  <1>1. MaxSeconds \in Nat
    BY SchedulerAssumption, GateAssumption
  <1> QED
    BY <1>1

LEMMA GateInitInv == GateInit => GateInv
  <1> SUFFICES ASSUME GateInit PROVE GateInv
    OBVIOUS
  <1>1. StOK /\ inflight = 0 /\ bulkUsed = 0
    BY DEF GateInit, Init, StOK, RequestState
  <1>2. Live = {} /\ LiveBulk = {}
    BY DEF GateInit, Init, Live, LiveBulk
  <1>3. Cardinality(Live) = 0 /\ Cardinality(LiveBulk) = 0
    BY <1>2, FS_EmptySet
  <1>4. MaxSeconds * 0 = 0 /\ MaxSeconds * MaxQueue \in Nat
    BY SchedulerAssumption, GateAssumption
  <1> QED
    BY <1>1, <1>3, <1>4, SchedulerAssumption, GateAssumption DEF GateInv, GateCoversLive, OvershootBounded, LiveBulk

\* A request that passes the gate found its place free, and with it, if it is bulk,
\* some of the budget unspent.
LEMMA SubmitInv ==
  ASSUME GateInv, NEW r \in Req, Submit(r)
  PROVE  GateInv'
  <1>1. StOK' /\ r \notin Live /\ Live' = Live \cup {r}
    BY SchedLive DEF GateInv, Submit
  <1>2. Cardinality(Live') = Cardinality(Live) + 1
    BY <1>1, LiveFinite, FS_AddElement
  <1>3. GateCoversLive' /\ inflight' \in Nat /\ bulkUsed' \in Nat
    BY <1>2, LiveFinite, SchedulerAssumption, GateAssumption DEF GateInv, GateCoversLive, Submit
  <1>4. /\ Cardinality(LiveBulk') \in Nat /\ Cardinality(LiveBulk') <= MaxQueue
    <2>1. IsFiniteSet(Live') /\ LiveBulk' \subseteq Live'
      BY <1>1, LiveFinite, FS_AddElement DEF LiveBulk
    <2> QED
      BY <1>3, <2>1, FS_Subset, FS_CardinalityType, SchedulerAssumption, GateAssumption DEF GateCoversLive
  <1>5. OvershootBounded'
    <2>1. CASE IsBulk(r)
      <3> SUFFICES ASSUME Budget > 0
                   PROVE  bulkUsed' + MaxSeconds * Cardinality(LiveBulk')
                            < Budget + MaxSeconds * MaxQueue
        BY DEF OvershootBounded, LiveBulk
      <3>1. bulkUsed' < Budget
        BY <2>1 DEF Submit, QuotaAllows
      <3> QED
        BY <1>3, <1>4, <3>1, Spending, SchedulerAssumption, GateAssumption
    <2>2. CASE ~IsBulk(r)
      <3>1. LiveBulk' = LiveBulk /\ bulkUsed' = bulkUsed
        BY <1>1, <2>2 DEF LiveBulk, IsBulk, Submit
      <3> QED
        BY <3>1 DEF GateInv, OvershootBounded, LiveBulk
    <2> QED
      BY <2>1, <2>2
  <1> QED
    BY <1>1, <1>3, <1>5 DEF GateInv

\* A hang-up in acquire leaves the gate's count too high, never too low.
LEMMA HangUpInv ==
  ASSUME GateInv, NEW r \in Req, HangUp(r)
  PROVE  GateInv'
  <1>1. StOK' /\ Live' = Live \ {r} /\ inflight' = inflight /\ bulkUsed' = bulkUsed
    BY SchedLive DEF GateInv, HangUp
  <1>2. /\ Cardinality(Live') \in Nat /\ Cardinality(Live') <= Cardinality(Live)
        /\ Cardinality(LiveBulk') \in Nat /\ Cardinality(LiveBulk') <= Cardinality(LiveBulk)
    <2>1. Live' \subseteq Live /\ LiveBulk' \subseteq LiveBulk
      BY <1>1 DEF LiveBulk, IsBulk
    <2> QED
      BY <2>1, LiveFinite, FS_Subset, FS_CardinalityType
  <1>3. GateCoversLive'
    BY <1>1, <1>2, LiveFinite, SchedulerAssumption, GateAssumption DEF GateInv, GateCoversLive
  <1>4. OvershootBounded'
    <2> SUFFICES ASSUME Budget > 0
                 PROVE  bulkUsed + MaxSeconds * Cardinality(LiveBulk')
                          < Budget + MaxSeconds * MaxQueue
      BY <1>1 DEF OvershootBounded, LiveBulk
    <2>1. bulkUsed + MaxSeconds * Cardinality(LiveBulk) < Budget + MaxSeconds * MaxQueue
      BY DEF GateInv, OvershootBounded, LiveBulk
    <2>2. MaxSeconds * MaxQueue \in Nat /\ Budget \in Nat /\ bulkUsed \in Nat
      BY SchedulerAssumption, GateAssumption DEF GateInv
    <2> QED
      BY <1>2, <2>1, <2>2, LiveFinite, Spending
  <1> QED
    BY <1>1, <1>3, <1>4 DEF GateInv

\* A request that ends gives its place back and spends no more than its share.
LEMMA FinishInv ==
  ASSUME GateInv, NEW r \in Req, NEW seconds \in 0..MaxSeconds, Finish(r, seconds)
  PROVE  GateInv'
  <1>1. StOK' /\ r \in Live /\ Live' = Live \ {r} /\ inflight' = inflight - 1
    BY SchedLive DEF GateInv, Finish
  <1>2. /\ Cardinality(Live') = Cardinality(Live) - 1
        /\ IF IsBulk(r) THEN Cardinality(LiveBulk') = Cardinality(LiveBulk) - 1
                        ELSE LiveBulk' = LiveBulk
    BY <1>1, LeavingCounts
  <1>3. Cardinality(Live) >= 1
    BY <1>1, LiveFinite, FS_EmptySet
  <1>4. GateCoversLive' /\ inflight' \in Nat
    BY <1>1, <1>2, <1>3, LiveFinite, SchedulerAssumption, GateAssumption DEF GateInv, GateCoversLive
  <1>5. bulkUsed' = IF IsBulk(r) THEN bulkUsed + seconds ELSE bulkUsed
    BY DEF Finish
  <1>6. bulkUsed' \in Nat
    BY <1>5, SchedulerAssumption, GateAssumption DEF GateInv
  <1>7. OvershootBounded'
    <2> SUFFICES ASSUME Budget > 0
                 PROVE  bulkUsed' + MaxSeconds * Cardinality(LiveBulk')
                          < Budget + MaxSeconds * MaxQueue
      BY DEF OvershootBounded, LiveBulk
    <2>1. bulkUsed + MaxSeconds * Cardinality(LiveBulk) < Budget + MaxSeconds * MaxQueue
      BY DEF GateInv, OvershootBounded, LiveBulk
    <2>2. CASE IsBulk(r)
      <3>1. MaxSeconds * Cardinality(LiveBulk') = MaxSeconds * Cardinality(LiveBulk) - MaxSeconds
        <4>1. MaxSeconds \in Nat /\ Cardinality(LiveBulk) \in Nat
          BY LiveFinite, SchedulerAssumption, GateAssumption
        <4> QED
          BY <1>2, <2>2, <4>1
      <3>2. /\ MaxSeconds * Cardinality(LiveBulk) \in Nat /\ MaxSeconds * MaxQueue \in Nat
            /\ Budget \in Nat /\ MaxSeconds \in Nat /\ bulkUsed \in Nat
        BY LiveFinite, SchedulerAssumption, GateAssumption DEF GateInv
      <3> HIDE DEF LiveBulk
      <3> QED
        BY <1>5, <2>1, <2>2, <3>1, <3>2
    <2>3. CASE ~IsBulk(r)
      BY <1>2, <1>5, <2>1, <2>3
    <2> QED
      BY <2>2, <2>3
  <1> QED
    BY <1>1, <1>4, <1>6, <1>7 DEF GateInv

\* Every step keeps the invariant.
LEMMA GateNextInv == GateInv /\ [GateNext]_gateVars => GateInv'
  <1> SUFFICES ASSUME GateInv, [GateNext]_gateVars PROVE GateInv'
    OBVIOUS
  <1>1. ASSUME NEW r \in Req, Enter(r) \/ Wait(r) PROVE GateInv'
    <2>1. StOK' /\ Live' = Live /\ UNCHANGED <<inflight, bulkUsed>>
      BY <1>1, SchedLive DEF GateInv, Enter, Wait
    <2> QED
      BY <2>1 DEF GateInv, GateCoversLive, OvershootBounded, IsBulk
  <1>2. CASE UNCHANGED gateVars
    BY <1>2 DEF gateVars, vars, GateInv, StOK, GateCoversLive, OvershootBounded, Live, IsBulk
  <1> QED
    BY <1>1, <1>2, SubmitInv, HangUpInv, FinishInv DEF GateNext

LEMMA GateSpecInv == GateSpec => []GateInv
  BY GateInitInv, GateNextInv, PTL DEF GateSpec

\* Every variable keeps its type.
THEOREM GateTypeCorrect == GateSpec => []GateTypeOK
  <1>1. GateInv /\ TypeOK => GateTypeOK
    BY DEF GateInv, GateTypeOK
  <1>2. GateSpec => []TypeOK
    BY ProtocolKept, TypeCorrect, PTL DEF SchedulerProtocolKept
  <1> QED
    BY <1>1, <1>2, GateSpecInv, PTL

\* The gate lets in no more than max_queue requests and forgets none that is still
\* queued or running, whoever hangs up.
THEOREM GateIsSafe == GateSpec => []GateCoversLive
  <1>1. GateInv => GateCoversLive
    BY DEF GateInv
  <1> QED
    BY <1>1, GateSpecInv, PTL

\* Bulk work overshoots its budget by no more than what the places in the queue may
\* still spend, although the budget is read on arrival and charged at the end.
THEOREM OvershootIsBounded == GateSpec => []OvershootBounded
  <1>1. GateInv => OvershootBounded
    BY DEF GateInv
  <1> QED
    BY <1>1, GateSpecInv, PTL
=============================================================================

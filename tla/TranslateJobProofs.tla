-------------------------- MODULE TranslateJobProofs --------------------------
(***************************************************************************)
(* Proofs about the translation job, for every set of units and workers,   *)
(* every limit and every behaviour of the agents.                          *)
(*                                                                         *)
(* The invariant says where each unit is (Places), that in_flight counts   *)
(* the workers that hold one (FlightCounted), and why a worker has left    *)
(* (Leaving): a worker that saw the queue empty and nothing in flight saw  *)
(* the end of the job, since only a holder can refill the queue.           *)
(***************************************************************************)
EXTENDS TranslateJob, FiniteSetTheorems, SequenceTheorems, TLAPS

Holders == {w \in Worker : pc[w] \in Holding}

Places ==
  /\ IsInjective(pending)
  /\ Range(pending) \cap (done \cup failed) = {}
  /\ done \cap failed = {}
  /\ \A w \in Worker : Busy(w) =>
       /\ unit[w] \in Unit
       /\ unit[w] \notin Range(pending) \cup done \cup failed
  /\ \A v, w \in Worker : v # w /\ Busy(v) /\ Busy(w) => unit[v] # unit[w]
  /\ \A u \in Unit :
       \/ u \in Range(pending) \cup done \cup failed
       \/ \E w \in Worker : Busy(w) /\ unit[w] = u

Segments ==
  \A u \in Unit : u \in recorded <=>
    u \in done \/ \E w \in Worker : pc[w] = "count" /\ unit[w] = u

Limits ==
  /\ \A u \in Range(pending) : attempts[u] < MAX_ATTEMPTS
  /\ \A u \in failed : attempts[u] >= MAX_ATTEMPTS
  /\ \A w \in Worker : pc[w] = "call" => attempts[unit[w]] < MAX_ATTEMPTS
  /\ \A w \in Worker : pc[w] \in {"take", "call"} => failures[w] < RETIRE_AFTER

FlightCounted == inFlight = Cardinality(Holders)

Finished == pending = <<>> /\ Holders = {}

Leaving ==
  \A w \in Worker : pc[w] = "out" =>
    stop \/ failures[w] >= RETIRE_AFTER \/ Finished

\* The inductive invariant.
IInv == TypeOK /\ Places /\ Segments /\ Limits /\ FlightCounted /\ Leaving

-----------------------------------------------------------------------------
(* Queues *)

LEMMA RangeIsIndexed ==
  ASSUME NEW S, NEW s \in Seq(S), NEW x
  PROVE  x \in Range(s) <=> \E i \in 1..Len(s) : s[i] = x
  BY DEF Range

\* Taking the head of a queue without duplicates removes exactly that element.
LEMMA TailDropsHead ==
  ASSUME NEW S, NEW s \in Seq(S), s # <<>>, IsInjective(s)
  PROVE  /\ Head(s) \in Range(s)
         /\ Head(s) \in S
         /\ Tail(s) \in Seq(S)
         /\ Range(Tail(s)) = Range(s) \ {Head(s)}
         /\ IsInjective(Tail(s))
  <1>1. /\ Len(s) \in Nat \ {0} /\ Head(s) = s[1]
        /\ Tail(s) \in Seq(S) /\ Len(Tail(s)) = Len(s) - 1
        /\ \A i \in 1..(Len(s) - 1) : Tail(s)[i] = s[i + 1]
    BY HeadTailProperties, EmptySeq, LenProperties
  <1>2. \A i, j \in 1..Len(s) : s[i] = s[j] => i = j
    BY DEF IsInjective
  <1>3. Head(s) \in Range(s) /\ Head(s) \in S
    BY <1>1 DEF Range
  <1>4. \A i, j \in 1..Len(Tail(s)) : Tail(s)[i] = Tail(s)[j] => i = j
    BY <1>1, <1>2
  <1>5. IsInjective(Tail(s))
    <2>1. DOMAIN Tail(s) = 1..Len(Tail(s))
      BY <1>1, LenProperties
    <2> QED
      BY <1>4, <2>1 DEF IsInjective
  <1>6. ASSUME NEW x PROVE x \in Range(Tail(s)) <=> x \in Range(s) \ {Head(s)}
    <2>1. CASE x \in Range(Tail(s))
      <3>1. PICK i \in 1..Len(Tail(s)) : Tail(s)[i] = x
        BY <2>1, <1>1, RangeIsIndexed
      <3>2. i + 1 \in 1..Len(s) /\ s[i + 1] = x /\ i + 1 # 1
        BY <3>1, <1>1
      <3> QED
        BY <2>1, <3>2, <1>1, <1>2, RangeIsIndexed
    <2>2. CASE x \in Range(s) \ {Head(s)}
      <3>1. PICK i \in 1..Len(s) : s[i] = x
        BY <2>2, RangeIsIndexed
      <3>2. i # 1
        BY <2>2, <3>1, <1>1
      <3>3. i - 1 \in 1..Len(Tail(s)) /\ Tail(s)[i - 1] = x
        BY <3>1, <3>2, <1>1
      <3> QED
        BY <2>2, <3>3, <1>1, RangeIsIndexed
    <2> QED
      BY <2>1, <2>2
  <1> QED
    BY <1>1, <1>3, <1>5, <1>6

\* Putting back what is not in the queue adds exactly that element.
LEMMA AppendAdds ==
  ASSUME NEW S, NEW s \in Seq(S), NEW e \in S, IsInjective(s), e \notin Range(s)
  PROVE  /\ Append(s, e) \in Seq(S)
         /\ Append(s, e) # <<>>
         /\ Range(Append(s, e)) = Range(s) \cup {e}
         /\ IsInjective(Append(s, e))
  <1> DEFINE t == Append(s, e)
  <1>1. /\ t \in Seq(S) /\ t # <<>> /\ Len(t) = Len(s) + 1 /\ Len(s) \in Nat
        /\ \A i \in 1..Len(s) : t[i] = s[i]
        /\ t[Len(s) + 1] = e
    BY AppendProperties, LenProperties, EmptySeq
  <1>2. \A i, j \in 1..Len(s) : s[i] = s[j] => i = j
    BY DEF IsInjective
  <1>3. \A i \in 1..Len(s) : s[i] # e
    BY RangeIsIndexed
  <1>4. \A i, j \in 1..Len(t) : t[i] = t[j] => i = j
    BY <1>1, <1>2, <1>3
  <1>5. IsInjective(t)
    <2>1. DOMAIN t = 1..Len(t)
      BY <1>1, LenProperties
    <2> QED
      BY <1>4, <2>1 DEF IsInjective
  <1>6. ASSUME NEW x PROVE x \in Range(t) <=> x \in Range(s) \cup {e}
    <2>1. x \in Range(t) <=> \E i \in 1..Len(t) : t[i] = x
      BY <1>1, RangeIsIndexed
    <2>2. x \in Range(s) <=> \E i \in 1..Len(s) : s[i] = x
      BY RangeIsIndexed
    <2> HIDE DEF t
    <2> QED
      BY <1>1, <2>1, <2>2
  <1> QED
    BY <1>1, <1>5, <1>6

LEMMA EmptyQueue == Range(<<>>) = {}
  BY DEF Range

-----------------------------------------------------------------------------
(* Steps *)

LEMMA TypeStep ==
  ASSUME IInv, Next
  PROVE  TypeOK'
  <1> USE JobAssumption DEF IInv, TypeOK, Control, Holding, Go, stats
  <1>1. CASE Stop
    BY <1>1 DEF Stop
  <1>2. ASSUME NEW w \in Worker, Loop(w) PROVE TypeOK'
    BY <1>2 DEF Loop
  <1>3. ASSUME NEW w \in Worker, Take(w) PROVE TypeOK'
    <2>1. Head(pending) \in Unit /\ Tail(pending) \in Seq(Unit)
      BY <1>3, TailDropsHead DEF Take, Places
    <2> QED
      BY <1>3, <2>1 DEF Take
  <1>4. ASSUME NEW w \in Worker, TakeNothing(w) PROVE TypeOK'
    BY <1>4 DEF TakeNothing
  <1>5. ASSUME NEW w \in Worker, Wake(w) PROVE TypeOK'
    BY <1>5 DEF Wake
  <1>6. ASSUME NEW w \in Worker, Accepted(w) PROVE TypeOK'
    BY <1>6 DEF Accepted
  <1>7. ASSUME NEW w \in Worker, Rejected(w) PROVE TypeOK'
    <2>1. unit[w] \in Unit
      BY <1>7 DEF Rejected, Places, Busy
    <2>2. failures[w] < RETIRE_AFTER /\ attempts[unit[w]] < MAX_ATTEMPTS
      BY <1>7 DEF Rejected, Limits
    <2>3. failures[w] + 1 \in 0..RETIRE_AFTER /\ attempts[unit[w]] + 1 \in 0..MAX_ATTEMPTS
      BY <2>1, <2>2
    <2> QED
      BY <1>7, <2>1, <2>3 DEF Rejected
  <1>8. ASSUME NEW w \in Worker, Record(w) PROVE TypeOK'
    BY <1>8 DEF Record, Places, Busy
  <1>9. ASSUME NEW w \in Worker, Count(w) PROVE TypeOK'
    BY <1>9 DEF Count, Places, Busy
  <1>10. ASSUME NEW w \in Worker, PutBack(w) PROVE TypeOK'
    <2>1. unit[w] \in Unit
      BY <1>10 DEF PutBack, Places, Busy
    <2>2. Append(pending, unit[w]) \in Seq(Unit)
      BY <2>1, AppendProperties
    <2> QED
      BY <1>10, <2>1, <2>2 DEF PutBack
  <1>11. ASSUME NEW w \in Worker, Settle(w) PROVE TypeOK'
    <2>1. w \in Holders /\ IsFiniteSet(Holders)
      BY <1>11, FS_Subset DEF Settle, Holders
    <2>2. inFlight \in Nat \ {0}
      BY <2>1, FS_CardinalityType, FS_EmptySet DEF FlightCounted
    <2> QED
      BY <1>11, <2>2 DEF Settle
  <1> QED
    BY <1>1, <1>2, <1>3, <1>4, <1>5, <1>6, <1>7, <1>8, <1>9, <1>10, <1>11 DEF Next, Step

LEMMA PlacesStep ==
  ASSUME IInv, Next
  PROVE  Places'
  <1> USE JobAssumption DEF IInv, TypeOK, Holding, Go, stats, Busy
  <1>1. CASE Stop
    BY <1>1 DEF Stop, Places
  <1>2. ASSUME NEW w \in Worker, Loop(w) PROVE Places'
    BY <1>2 DEF Loop, Places
  <1>3. ASSUME NEW w \in Worker, Take(w) PROVE Places'
    <2>1. /\ Head(pending) \in Range(pending) /\ Head(pending) \in Unit
          /\ Range(pending') = Range(pending) \ {Head(pending)}
          /\ IsInjective(pending')
      BY <1>3, TailDropsHead DEF Take, Places
    <2>2. unit'[w] = Head(pending) /\ pc'[w] = "call"
      BY <1>3 DEF Take
    <2>3. \A x \in Worker : x # w => unit'[x] = unit[x] /\ pc'[x] = pc[x]
      BY <1>3 DEF Take
    <2>4. done' = done /\ failed' = failed
      BY <1>3 DEF Take
    <2>5. ~Busy(w) /\ Busy(w)'
      BY <1>3 DEF Take
    <2>6. \A x \in Worker : x # w => (Busy(x)' <=> Busy(x))
      BY <2>3
    <2> USE DEF Places
    <2> HIDE DEF Busy, TypeOK
    <2>7. \A x \in Worker : Busy(x)' =>
            unit'[x] \in Unit /\ unit'[x] \notin Range(pending') \cup done' \cup failed'
      BY <2>1, <2>2, <2>3, <2>4, <2>6
    <2>8. \A x, y \in Worker : x # y /\ Busy(x)' /\ Busy(y)' => unit'[x] # unit'[y]
      BY <2>1, <2>2, <2>3, <2>6
    <2>9. ASSUME NEW u \in Unit
          PROVE  \/ u \in Range(pending') \cup done' \cup failed'
                 \/ \E x \in Worker : Busy(x)' /\ unit'[x] = u
      <3>1. CASE u = Head(pending)
        BY <3>1, <2>2, <2>5
      <3>2. CASE u # Head(pending)
        BY <3>2, <2>1, <2>3, <2>4, <2>5, <2>6
      <3> QED
        BY <3>1, <3>2
    <2> QED
      BY <2>1, <2>4, <2>7, <2>8, <2>9
  <1>4. ASSUME NEW w \in Worker, TakeNothing(w) PROVE Places'
    BY <1>4 DEF TakeNothing, Places
  <1>5. ASSUME NEW w \in Worker, Wake(w) PROVE Places'
    BY <1>5 DEF Wake, Places
  <1>6. ASSUME NEW w \in Worker, Accepted(w) PROVE Places'
    BY <1>6 DEF Accepted, Places
  <1>7. ASSUME NEW w \in Worker, Rejected(w) PROVE Places'
    BY <1>7 DEF Rejected, Places
  <1>8. ASSUME NEW w \in Worker, Record(w) PROVE Places'
    BY <1>8 DEF Record, Places
  <1>9. ASSUME NEW w \in Worker, Count(w) PROVE Places'
    BY <1>9 DEF Count, Places
  <1>10. ASSUME NEW w \in Worker, PutBack(w) PROVE Places'
    <2>1. unit[w] \in Unit /\ unit[w] \notin Range(pending) \cup done \cup failed
      BY <1>10 DEF PutBack, Places
    <2>2. /\ Range(Append(pending, unit[w])) = Range(pending) \cup {unit[w]}
          /\ IsInjective(Append(pending, unit[w]))
      BY <2>1, AppendAdds DEF Places
    <2>3. \A x \in Worker : x # w => unit'[x] = unit[x] /\ pc'[x] = pc[x]
      BY <1>10 DEF PutBack
    <2>4. Busy(w) /\ ~Busy(w)' /\ done' = done
      BY <1>10 DEF PutBack
    <2>5. \/ pending' = Append(pending, unit[w]) /\ failed' = failed
          \/ failed' = failed \cup {unit[w]} /\ pending' = pending
      BY <1>10 DEF PutBack
    <2>6. \A x \in Worker : x # w => (Busy(x)' <=> Busy(x))
      BY <2>3
    <2>7. Range(pending') \cup done' \cup failed' = Range(pending) \cup done \cup failed \cup {unit[w]}
      BY <2>2, <2>4, <2>5
    <2> USE DEF Places
    <2> HIDE DEF Busy, TypeOK
    <2>8. \A x \in Worker : Busy(x)' =>
            unit'[x] \in Unit /\ unit'[x] \notin Range(pending') \cup done' \cup failed'
      BY <2>3, <2>4, <2>6, <2>7
    <2>9. \A x, y \in Worker : x # y /\ Busy(x)' /\ Busy(y)' => unit'[x] # unit'[y]
      BY <2>3, <2>4, <2>6
    <2>10. ASSUME NEW u \in Unit
           PROVE  \/ u \in Range(pending') \cup done' \cup failed'
                  \/ \E x \in Worker : Busy(x)' /\ unit'[x] = u
      BY <2>3, <2>4, <2>6, <2>7
    <2>11. /\ IsInjective(pending')
           /\ Range(pending') \cap (done' \cup failed') = {}
           /\ done' \cap failed' = {}
      <3>1. CASE pending' = Append(pending, unit[w]) /\ failed' = failed
        BY <3>1, <2>1, <2>2, <2>4
      <3>2. CASE failed' = failed \cup {unit[w]} /\ pending' = pending
        <4>1. IsInjective(pending') /\ Range(pending') = Range(pending)
          BY <3>2
        <4> QED
          BY <3>2, <4>1, <2>1, <2>4
      <3> QED
        BY <2>5, <3>1, <3>2
    <2> QED
      BY <2>8, <2>9, <2>10, <2>11
  <1>11. ASSUME NEW w \in Worker, Settle(w) PROVE Places'
    BY <1>11 DEF Settle, Places
  <1> QED
    BY <1>1, <1>2, <1>3, <1>4, <1>5, <1>6, <1>7, <1>8, <1>9, <1>10, <1>11 DEF Next, Step

LEMMA SegmentsStep ==
  ASSUME IInv, Next
  PROVE  Segments'
  <1> USE DEF IInv, TypeOK, Go, stats, Segments
  <1>1. CASE Stop
    BY <1>1 DEF Stop
  <1>2. ASSUME NEW w \in Worker, Loop(w) PROVE Segments'
    BY <1>2 DEF Loop
  <1>3. ASSUME NEW w \in Worker, Take(w) PROVE Segments'
    BY <1>3 DEF Take
  <1>4. ASSUME NEW w \in Worker, TakeNothing(w) PROVE Segments'
    BY <1>4 DEF TakeNothing
  <1>5. ASSUME NEW w \in Worker, Wake(w) PROVE Segments'
    BY <1>5 DEF Wake
  <1>6. ASSUME NEW w \in Worker, Accepted(w) PROVE Segments'
    BY <1>6 DEF Accepted
  <1>7. ASSUME NEW w \in Worker, Rejected(w) PROVE Segments'
    BY <1>7 DEF Rejected
  <1>8. ASSUME NEW w \in Worker, Record(w) PROVE Segments'
    BY <1>8 DEF Record
  <1>9. ASSUME NEW w \in Worker, Count(w) PROVE Segments'
    BY <1>9 DEF Count
  <1>10. ASSUME NEW w \in Worker, PutBack(w) PROVE Segments'
    BY <1>10 DEF PutBack
  <1>11. ASSUME NEW w \in Worker, Settle(w) PROVE Segments'
    BY <1>11 DEF Settle
  <1> QED
    BY <1>1, <1>2, <1>3, <1>4, <1>5, <1>6, <1>7, <1>8, <1>9, <1>10, <1>11 DEF Next, Step

LEMMA LimitsStep ==
  ASSUME IInv, Next
  PROVE  Limits'
  <1> USE JobAssumption DEF IInv, TypeOK, Go, stats, Limits
  <1>1. CASE Stop
    BY <1>1 DEF Stop
  <1>2. ASSUME NEW w \in Worker, Loop(w) PROVE Limits'
    BY <1>2 DEF Loop
  <1>3. ASSUME NEW w \in Worker, Take(w) PROVE Limits'
    <2>1. /\ Head(pending) \in Range(pending)
          /\ Range(pending') \subseteq Range(pending)
      BY <1>3, TailDropsHead DEF Take, Places
    <2> QED
      BY <1>3, <2>1 DEF Take
  <1>4. ASSUME NEW w \in Worker, TakeNothing(w) PROVE Limits'
    BY <1>4 DEF TakeNothing
  <1>5. ASSUME NEW w \in Worker, Wake(w) PROVE Limits'
    BY <1>5 DEF Wake
  <1>6. ASSUME NEW w \in Worker, Accepted(w) PROVE Limits'
    BY <1>6 DEF Accepted
  <1>7. ASSUME NEW w \in Worker, Rejected(w) PROVE Limits'
    <2>1. unit[w] \in Unit /\ unit[w] \notin Range(pending) \cup failed
      BY <1>7 DEF Rejected, Places, Busy, Holding
    <2>2. \A x \in Worker : pc[x] = "call" /\ x # w => unit[x] # unit[w]
      BY <1>7 DEF Rejected, Places, Busy, Holding
    <2>3. \A u \in Unit : u # unit[w] => attempts'[u] = attempts[u]
      BY <1>7 DEF Rejected
    <2>4. Range(pending) \subseteq Unit
      BY DEF Range
    <2> QED
      BY <1>7, <2>1, <2>2, <2>3, <2>4 DEF Rejected
  <1>8. ASSUME NEW w \in Worker, Record(w) PROVE Limits'
    BY <1>8 DEF Record
  <1>9. ASSUME NEW w \in Worker, Count(w) PROVE Limits'
    BY <1>9 DEF Count
  <1>10. ASSUME NEW w \in Worker, PutBack(w) PROVE Limits'
    <2>1. unit[w] \in Unit /\ unit[w] \notin Range(pending)
      BY <1>10 DEF PutBack, Places, Busy, Holding
    <2>2. Range(Append(pending, unit[w])) = Range(pending) \cup {unit[w]}
      BY <2>1, AppendAdds DEF Places
    <2>3. /\ attempts' = attempts /\ unit' = unit /\ failures' = failures
          /\ \A x \in Worker : pc'[x] \in {"take", "call"} => pc'[x] = pc[x]
      BY <1>10 DEF PutBack
    <2>4. attempts[unit[w]] \in Nat /\ MAX_ATTEMPTS \in Nat
      BY <2>1
    <2>5. CASE attempts[unit[w]] < MAX_ATTEMPTS
      <3>1. Range(pending') = Range(pending) \cup {unit[w]} /\ failed' = failed
        BY <1>10, <2>2, <2>5 DEF PutBack
      <3> QED
        BY <2>3, <2>5, <3>1
    <2>6. CASE ~(attempts[unit[w]] < MAX_ATTEMPTS)
      <3>1. pending' = pending /\ failed' = failed \cup {unit[w]}
        BY <1>10, <2>6 DEF PutBack
      <3>2. attempts[unit[w]] >= MAX_ATTEMPTS
        BY <2>4, <2>6
      <3>3. \A u \in failed' : attempts'[u] >= MAX_ATTEMPTS
        BY <2>3, <3>1, <3>2
      <3>4. \A u \in Range(pending') : attempts'[u] < MAX_ATTEMPTS
        BY <2>3, <3>1
      <3> QED
        BY <2>3, <3>3, <3>4
    <2> QED
      BY <2>5, <2>6
  <1>11. ASSUME NEW w \in Worker, Settle(w) PROVE Limits'
    BY <1>11 DEF Settle
  <1> QED
    BY <1>1, <1>2, <1>3, <1>4, <1>5, <1>6, <1>7, <1>8, <1>9, <1>10, <1>11 DEF Next, Step

\* A worker that takes a unit joins the holders, one that settles leaves them.
LEMMA HoldersStep ==
  ASSUME IInv, Next
  PROVE  \/ Holders' = Holders /\ inFlight' = inFlight
         \/ \E w \in Worker : /\ w \notin Holders /\ Holders' = Holders \cup {w}
                              /\ inFlight' = inFlight + 1 /\ pending # <<>>
         \/ \E w \in Worker : /\ w \in Holders /\ Holders' = Holders \ {w}
                              /\ inFlight' = inFlight - 1
  <1> DEFINE Goal ==
         \/ Holders' = Holders /\ inFlight' = inFlight
         \/ \E w \in Worker : /\ w \notin Holders /\ Holders' = Holders \cup {w}
                              /\ inFlight' = inFlight + 1 /\ pending # <<>>
         \/ \E w \in Worker : /\ w \in Holders /\ Holders' = Holders \ {w}
                              /\ inFlight' = inFlight - 1
  <1> USE DEF IInv, TypeOK, Go, Holders, Holding
  <1>1. CASE Stop
    BY <1>1 DEF Stop
  <1>2. ASSUME NEW w \in Worker, Loop(w) PROVE Goal
    BY <1>2 DEF Loop
  <1>3. ASSUME NEW w \in Worker, Take(w) PROVE Goal
    BY <1>3 DEF Take
  <1>4. ASSUME NEW w \in Worker, TakeNothing(w) PROVE Goal
    BY <1>4 DEF TakeNothing
  <1>5. ASSUME NEW w \in Worker, Wake(w) PROVE Goal
    BY <1>5 DEF Wake
  <1>6. ASSUME NEW w \in Worker, Accepted(w) PROVE Goal
    BY <1>6 DEF Accepted
  <1>7. ASSUME NEW w \in Worker, Rejected(w) PROVE Goal
    BY <1>7 DEF Rejected
  <1>8. ASSUME NEW w \in Worker, Record(w) PROVE Goal
    BY <1>8 DEF Record
  <1>9. ASSUME NEW w \in Worker, Count(w) PROVE Goal
    BY <1>9 DEF Count
  <1>10. ASSUME NEW w \in Worker, PutBack(w) PROVE Goal
    BY <1>10 DEF PutBack
  <1>11. ASSUME NEW w \in Worker, Settle(w) PROVE Goal
    BY <1>11 DEF Settle
  <1> QED
    BY <1>1, <1>2, <1>3, <1>4, <1>5, <1>6, <1>7, <1>8, <1>9, <1>10, <1>11 DEF Next, Step

LEMMA FlightStep ==
  ASSUME IInv, Next
  PROVE  FlightCounted'
  <1>1. IsFiniteSet(Holders) /\ Cardinality(Holders) \in Nat
    BY JobAssumption, FS_Subset, FS_CardinalityType DEF Holders
  <1>2. inFlight = Cardinality(Holders)
    BY DEF IInv, FlightCounted
  <1> QED
    BY <1>1, <1>2, HoldersStep, FS_AddElement, FS_RemoveElement DEF FlightCounted

\* Finished lasts: only a holder puts a unit back, and a unit is taken only from a
\* queue that is not empty.
LEMMA FinishedLasts ==
  ASSUME IInv, Next, Finished
  PROVE  Finished'
  <1>1. Holders' = {}
    BY HoldersStep DEF Finished
  <1>2. pending' = pending
    <2> USE DEF Holding, Holders, Finished
    <2>1. CASE Stop
      BY <2>1 DEF Stop
    <2>2. ASSUME NEW w \in Worker, Step(w) PROVE pending' = pending
      <3>1. ~Take(w)
        BY DEF Take
      <3>2. ~PutBack(w)
        BY DEF PutBack
      <3> QED
        BY <2>2, <3>1, <3>2
        DEF Step, Loop, TakeNothing, Wake, Accepted, Rejected, Record, Count, Settle
    <2> QED
      BY <2>1, <2>2 DEF Next
  <1> QED
    BY <1>1, <1>2 DEF Finished

LEMMA LeavingStep ==
  ASSUME IInv, Next
  PROVE  Leaving'
  <1> USE DEF IInv, TypeOK, Go, stats
  <1>1. CASE Stop
    BY <1>1 DEF Stop, Leaving
  <1>2. ASSUME NEW w \in Worker, Loop(w) PROVE Leaving'
    <2>1. Finished' <=> Finished
      BY <1>2 DEF Loop, Finished, Holders, Holding
    <2> QED
      BY <1>2, <2>1 DEF Loop, Leaving
  <1>3. ASSUME NEW w \in Worker, TakeNothing(w) PROVE Leaving'
    <2>1. Finished => Finished'
      BY FinishedLasts
    <2>2. CASE inFlight = 0
      <3>1. IsFiniteSet(Holders)
        BY JobAssumption, FS_Subset DEF Holders
      <3>2. Holders = {}
        BY <2>2, <3>1, FS_EmptySet DEF FlightCounted
      <3>3. Finished
        BY <1>3, <3>2 DEF TakeNothing, Finished
      <3> QED
        BY <3>3, FinishedLasts DEF Leaving
    <2>3. CASE inFlight # 0
      BY <1>3, <2>1, <2>3 DEF TakeNothing, Leaving
    <2> QED
      BY <2>2, <2>3
  <1>4. ASSUME NEW w \in Worker, Step(w), ~Loop(w), ~TakeNothing(w) PROVE Leaving'
    <2>1. stop' = stop
      BY <1>4 DEF Step, Take, Wake, Accepted, Rejected, Record, Count, PutBack, Settle
    <2>2. \A x \in Worker : pc'[x] = "out" => pc[x] = "out" /\ failures'[x] = failures[x]
      BY <1>4 DEF Step, Take, Wake, Accepted, Rejected, Record, Count, PutBack, Settle
    <2> QED
      BY <2>1, <2>2, FinishedLasts DEF Leaving
  <1> QED
    BY <1>1, <1>2, <1>3, <1>4 DEF Next, Step

-----------------------------------------------------------------------------
(* The invariant *)

LEMMA InitIInv == Init => IInv
  <1> SUFFICES ASSUME Init PROVE IInv
    OBVIOUS
  <1>1. /\ pending \in [1..Cardinality(Unit) -> Unit]
        /\ IsInjective(pending)
        /\ \A u \in Unit : \E i \in 1..Cardinality(Unit) : pending[i] = u
    BY DEF Init, Bijection, Injection, Surjection
  <1>2. Cardinality(Unit) \in Nat
    BY JobAssumption, FS_CardinalityType
  <1>3. pending \in Seq(Unit)
    BY <1>1, <1>2, SeqDef
  <1>4. Range(pending) = Unit
    BY <1>1 DEF Range
  <1>5. TypeOK
    BY <1>3, JobAssumption DEF Init, TypeOK, Control, Holding
  <1>6. Places
    BY <1>1, <1>4 DEF Init, Places, Busy, Holding
  <1>7. Segments /\ Limits /\ Leaving
    BY <1>4, JobAssumption DEF Init, Segments, Limits, Leaving
  <1>8. FlightCounted
    <2>1. Holders = {}
      BY DEF Init, Holders, Holding
    <2> QED
      BY <2>1, FS_EmptySet DEF Init, FlightCounted
  <1> QED
    BY <1>5, <1>6, <1>7, <1>8 DEF IInv

LEMMA NextIInv == IInv /\ [Next]_vars => IInv'
  <1> SUFFICES ASSUME IInv, [Next]_vars PROVE IInv'
    OBVIOUS
  <1>1. CASE Next
    BY <1>1, TypeStep, PlacesStep, SegmentsStep, LimitsStep, FlightStep, LeavingStep DEF IInv
  <1>2. CASE UNCHANGED vars
    BY <1>2 DEF vars, stats, IInv, TypeOK, Places, Busy, Segments, Limits, FlightCounted,
                Holders, Leaving, Finished
  <1> QED
    BY <1>1, <1>2

\* The inductive invariant holds in every reachable state of the job.
THEOREM Invariance == Spec => []IInv
  BY InitIInv, NextIInv, PTL DEF Spec

\* The types of translate_document's shared state; in particular in_flight never
\* goes below zero and no unit is tried more than MAX_ATTEMPTS times.
THEOREM TypeCorrect == Spec => []TypeOK
  BY Invariance, PTL DEF IInv

\* No unit is lost, duplicated or counted twice, whatever the interleaving of the
\* workers.
THEOREM UnitsAreNeverLost == Spec => []EachUnitInOnePlace
  <1>1. IInv => EachUnitInOnePlace
    <2> SUFFICES ASSUME IInv PROVE EachUnitInOnePlace
      OBVIOUS
    <2>1. Range(pending) \subseteq Unit /\ done \subseteq Unit /\ failed \subseteq Unit
      BY DEF IInv, TypeOK, Range
    <2>2. InHand \subseteq Unit
      BY DEF IInv, Places, InHand
    <2>3. Unit \subseteq Range(pending) \cup InHand \cup done \cup failed
      BY DEF IInv, Places, InHand
    <2>4. InHand \cap (Range(pending) \cup done \cup failed) = {}
      BY DEF IInv, Places, InHand
    <2> QED
      BY <2>1, <2>2, <2>3, <2>4 DEF IInv, Places, EachUnitInOnePlace
  <1> QED
    BY Invariance, <1>1, PTL

\* stats.done says what the document holds.
THEOREM CountsMatchTheDocument == Spec => []CountedAsRecorded
  <1>1. IInv => CountedAsRecorded
    <2> SUFFICES ASSUME IInv PROVE CountedAsRecorded
      OBVIOUS
    <2>1. done \subseteq recorded
      BY DEF IInv, TypeOK, Segments
    <2>2. \A u \in Range(pending) \cup failed : u \in Unit
      BY DEF IInv, TypeOK, Range
    <2>3. recorded \cap (Range(pending) \cup failed) = {}
      BY <2>2 DEF IInv, Segments, Places, Busy, Holding
    <2>4. Over => recorded \subseteq done
      BY DEF Over, IInv, TypeOK, Segments
    <2> QED
      BY <2>1, <2>3, <2>4 DEF CountedAsRecorded
  <1> QED
    BY Invariance, <1>1, PTL

\* A unit is given up after exactly MAX_ATTEMPTS failures.
THEOREM LimitsAreKept == Spec => []GivenUpAfterMaxAttempts
  <1>1. IInv => GivenUpAfterMaxAttempts
    BY JobAssumption DEF IInv, TypeOK, Places, Limits, GivenUpAfterMaxAttempts
  <1> QED
    BY Invariance, <1>1, PTL

\* A worker that leaves because it saw no work leaves none behind: what the
\* in_flight counter is for.
THEOREM NothingIsAbandoned == Spec => []NoUnitAbandoned
  <1>1. IInv => NoUnitAbandoned
    BY DEF IInv, Leaving, Finished, Over, NoUnitAbandoned
  <1> QED
    BY Invariance, <1>1, PTL

-----------------------------------------------------------------------------
(* The job implements WorkList *)

LEMMA PromiseInit == Init => Promise!Init
  <1> SUFFICES ASSUME Init PROVE Promise!Init
    OBVIOUS
  <1>1. Over = FALSE
    BY JobAssumption DEF Init, Over
  <1> QED
    BY <1>1 DEF Init, Promise!Init

\* Only a worker that leaves can end the job, and the last to leave finds no unit
\* open or a reason of its own.
LEMMA LeavingIsEnd ==
  ASSUME IInv, NEW w \in Worker, Loop(w) \/ TakeNothing(w)
  PROVE  PromiseNext \/ UNCHANGED <<done, failed, Over>>
  <1>1. UNCHANGED <<done, failed, stop, failures, pending>>
    BY DEF Loop, TakeNothing, stats
  <1>2. ~Over /\ Over = FALSE
    BY DEF Loop, TakeNothing, Over
  <1>3. CASE ~Over'
    <2>1. Over' = FALSE
      BY <1>3 DEF Over
    <2> QED
      BY <1>1, <1>2, <2>1
  <1>4. CASE Over'
    <2>1. Over' = TRUE
      BY <1>4 DEF Over
    <2>2. Leaving' /\ Places'
      <3>1. Next
        BY DEF Next, Step
      <3> QED
        BY <3>1, LeavingStep, PlacesStep
    <2>3. CASE Finished'
      <3>1. \A u \in Unit : u \in done' \cup failed'
        <4>1. Range(pending') = {}
          BY <2>3, EmptyQueue DEF Finished
        <4>2. \A x \in Worker : ~Busy(x)'
          BY <2>3 DEF Finished, Holders, Busy, Holding
        <4> QED
          BY <2>2, <4>1, <4>2 DEF Places
      <3>2. Promise!Open = {}
        BY <1>1, <3>1 DEF Promise!Open
      <3> QED
        BY <1>1, <1>2, <2>1, <3>2 DEF PromiseNext, Promise!End
    <2>4. CASE ~Finished'
      <3>1. \A x \in Worker : stop \/ failures[x] >= RETIRE_AFTER
        BY <1>1, <1>4, <2>2, <2>4 DEF Leaving, Over
      <3>2. Cut
        BY <3>1 DEF Cut
      <3> QED
        BY <1>1, <1>2, <2>1, <3>2 DEF PromiseNext, Promise!End
    <2> QED
      BY <2>3, <2>4
  <1> QED
    BY <1>3, <1>4

LEMMA PromiseStep ==
  ASSUME IInv, [Next]_vars
  PROVE  [PromiseNext]_<<done, failed, Over>>
  <1> DEFINE Stays == UNCHANGED <<done, failed, Over>>
  <1>1. CASE UNCHANGED vars
    BY <1>1 DEF vars, stats, Over
  <1>2. CASE Stop
    BY <1>2 DEF Stop, stats, Over
  <1>3. ASSUME NEW w \in Worker, Loop(w) \/ TakeNothing(w)
        PROVE  PromiseNext \/ Stays
    BY <1>3, LeavingIsEnd
  <1>4. ASSUME NEW w \in Worker, Step(w), ~Loop(w), ~TakeNothing(w)
        PROVE  Over = FALSE /\ Over' = FALSE
    <2>1. pc[w] # "out" /\ pc'[w] # "out"
      BY <1>4 DEF Step, Take, Wake, Accepted, Rejected, Record, Count, PutBack, Settle,
                  Go, IInv, TypeOK
    <2> QED
      BY <2>1 DEF Over
  <1>5. ASSUME NEW w \in Worker, Count(w) PROVE PromiseNext
    <2>1. Over = FALSE /\ Over' = FALSE
      BY <1>4, <1>5 DEF Step, Count, Loop, TakeNothing
    <2>2. unit[w] \in Unit /\ unit[w] \notin done \cup failed
      BY <1>5 DEF Count, IInv, Places, Busy, Holding
    <2>3. Promise!Translate(unit[w])
      BY <1>5, <2>1, <2>2 DEF Count, Promise!Translate, Promise!Open
    <2> QED
      BY <2>2, <2>3 DEF PromiseNext
  <1>6. ASSUME NEW w \in Worker, PutBack(w) PROVE PromiseNext \/ Stays
    <2>1. Over = FALSE /\ Over' = FALSE
      BY <1>4, <1>6 DEF Step, PutBack, Loop, TakeNothing
    <2>2. unit[w] \in Unit /\ unit[w] \notin done \cup failed
      BY <1>6 DEF PutBack, IInv, Places, Busy, Holding
    <2>3. CASE failed' = failed
      BY <1>6, <2>1, <2>3 DEF PutBack
    <2>4. CASE failed' = failed \cup {unit[w]}
      <3>1. Promise!GiveUp(unit[w])
        BY <1>6, <2>1, <2>2, <2>4 DEF PutBack, Promise!GiveUp, Promise!Open
      <3> QED
        BY <2>2, <3>1 DEF PromiseNext
    <2> QED
      BY <1>6, <2>3, <2>4 DEF PutBack
  <1>7. ASSUME NEW w \in Worker, Step(w), ~Loop(w), ~TakeNothing(w), ~Count(w), ~PutBack(w)
        PROVE  Stays
    <2>1. done' = done /\ failed' = failed
      BY <1>7 DEF Step, Take, Wake, Accepted, Rejected, Record, Settle, stats
    <2> QED
      BY <1>4, <1>7, <2>1
  <1> QED
    BY <1>1, <1>2, <1>3, <1>5, <1>6, <1>7 DEF Next, Step

\* Whatever the agents answer and whoever is stopped when, translate_document does
\* nothing WorkList does not allow.
THEOREM Refinement == Spec => ImplementsWorkList
  <1>1. Init => Promise!Init
    BY PromiseInit
  <1>2. IInv /\ [Next]_vars => [PromiseNext]_<<done, failed, Over>>
    BY PromiseStep
  <1> QED
    BY <1>1, <1>2, Invariance, PTL DEF Spec, ImplementsWorkList
=============================================================================

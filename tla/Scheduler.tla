------------------------------ MODULE Scheduler ------------------------------
(***************************************************************************)
(* The Manager's slot scheduler, src/src/agents/manager/scheduler.py.      *)
(*                                                                         *)
(* Requests queue for one of Concurrency slots.  Everything the class does *)
(* runs under one asyncio lock that is never held across a suspension, so  *)
(* each method is one atomic action: the mutation and the promotion that   *)
(* trails it.  What does interleave is a grant (the event is set while the *)
(* waiter has not resumed) with a cancellation of that very waiter.        *)
(***************************************************************************)
EXTENDS Naturals, FiniteSets

CONSTANTS
  Req,          \* request identities; one is reused after its request ended
  ClassOf,      \* the priority class each identity asks for
  Concurrency,  \* number of in-flight slots
  Aging,        \* TRUE iff aging_seconds > 0
  MaxSteps      \* bound: ageing windows counted per waiter (one is enough, see Floor)

INTERACTIVE == 0
BLOCKING    == 1
STRUCTURAL  == 2
BULK        == 3
Priority    == {INTERACTIVE, BLOCKING, STRUCTURAL, BULK}

ASSUME SchedulerAssumption ==
  /\ IsFiniteSet(Req)
  /\ ClassOf \in [Req -> Priority]
  /\ Concurrency \in Nat \ {0}
  /\ Aging \in BOOLEAN
  /\ MaxSteps \in Nat

VARIABLES
  st,        \* where each request is: see RequestState
  ahead,     \* for a queued request, the queued requests with a smaller seq
  steps,     \* whole ageing windows a queued request has waited
  inFlight   \* the per-class counters _in_flight

vars == <<st, ahead, steps, inFlight>>

(***************************************************************************)
(* "queued": in _waiting.  "granted": taken off the queue with its event   *)
(* set, the coroutine not resumed yet.  "running": acquire has returned.   *)
(***************************************************************************)
RequestState == {"idle", "queued", "granted", "running"}

Queued == {r \in Req : st[r] = "queued"}
Holders == {r \in Req : st[r] \in {"granted", "running"}}
HoldersOf(p) == {r \in Holders : ClassOf[r] = p}

TypeOK ==
  /\ st \in [Req -> RequestState]
  /\ ahead \in [Req -> SUBSET Req]
  /\ steps \in [Req -> 0..MaxSteps]
  /\ inFlight \in [Priority -> Nat]

-----------------------------------------------------------------------------
(* Policy *)

Total(slots) ==
  slots[INTERACTIVE] + slots[BLOCKING] + slots[STRUCTURAL] + slots[BULK]

\* How far ageing may promote a class.
Floor(p) == IF p >= BULK THEN STRUCTURAL ELSE BLOCKING

\* Fault: ageing is not applied.
EffectiveUnaged(r) == ClassOf[r]

\* `max(floor, priority - steps)`: the subtraction may pass below the floor.
Effective(r) ==
  LET p == ClassOf[r]
  IN  IF ~Aging THEN p
      ELSE IF p >= Floor(p) + steps[r] THEN p - steps[r] ELSE Floor(p)

BulkWouldTakeTheLastSlot(p, n) ==
  p >= BULK /\ Concurrency >= 2 /\ n + 1 >= Concurrency

\* May a request of class p start when n slots are taken?
MayStart(p, n) == n < Concurrency /\ ~BulkWouldTakeTheLastSlot(p, n)

\* Fault: the key is the effective class and the newest arrival.
PrecedesNewest(order, v, w) ==
  \/ Effective(v) < Effective(w)
  \/ Effective(v) = Effective(w) /\ w \in order[v]

\* The order of the keys (effective class, seq).
Precedes(order, v, w) ==
  \/ Effective(v) < Effective(w)
  \/ Effective(v) = Effective(w) /\ v \in order[w]

\* Fault: in_flight is read once, before the loop.
AdmittedAtOnce(A, queue, order, slots) ==
  \A w \in queue : w \in A <=> MayStart(ClassOf[w], Total(slots))

(***************************************************************************)
(* The promotion loop takes the best admissible waiter until none is left. *)
(* Slots only fill up while it runs, so it admits the waiters in the order *)
(* of their keys, and one is admitted iff it may start given those of the  *)
(* admitted that precede it.                                               *)
(***************************************************************************)
AdmittedByLoop(A, queue, order, slots) ==
  \A w \in queue :
    w \in A <=> MayStart(ClassOf[w],
                         Total(slots) + Cardinality({v \in A : Precedes(order, v, w)}))

Promote(st0, order, slots) ==
  LET queue == {r \in Req : st0[r] = "queued"}
  IN  \E A \in SUBSET queue :
        /\ AdmittedByLoop(A, queue, order, slots)
        /\ st' = [r \in Req |-> IF r \in A THEN "granted" ELSE st0[r]]
        /\ inFlight' = [p \in Priority |->
                          slots[p] + Cardinality({r \in A : ClassOf[r] = p})]
        /\ ahead' = [r \in Req |-> IF r \in queue \ A THEN order[r] \ A ELSE {}]
        /\ steps' = [r \in Req |-> IF r \in queue \ A THEN steps[r] ELSE 0]

\* `_release_locked`
Released(p) ==
  [inFlight EXCEPT ![p] = IF @ <= 1 THEN 0 ELSE @ - 1]

-----------------------------------------------------------------------------
(***************************************************************************)
(* The loop as the code writes it: pick the best admissible waiter, take   *)
(* it off the queue, count it, repeat.  LoopAgrees compares it with the    *)
(* closed form.                                                            *)
(***************************************************************************)

\* `_pick`: at most one waiter has the least key.
Pick(queue, order, slots) ==
  LET open == {w \in queue : MayStart(ClassOf[w], Total(slots))}
  IN  {w \in open : \A v \in open \ {w} : Precedes(order, w, v)}

\* One turn of `_promote`; the identity once nothing can be picked.
LoopTurn(s, order) ==
  LET best == Pick(s.queue, order, s.slots)
  IN  [queue |-> s.queue \ best,
       slots |-> [p \in Priority |->
                    s.slots[p] + Cardinality({w \in best : ClassOf[w] = p})]]

\* Every turn but the last admits one waiter.
LoopAdmits(queue, order, slots) ==
  LET turn[n \in 0..Cardinality(queue)] ==
        IF n = 0 THEN [queue |-> queue, slots |-> slots]
                 ELSE LoopTurn(turn[n - 1], order)
  IN  queue \ turn[Cardinality(queue)].queue

-----------------------------------------------------------------------------
(* Operations *)

Init ==
  /\ st = [r \in Req |-> "idle"]
  /\ ahead = [r \in Req |-> {}]
  /\ steps = [r \in Req |-> 0]
  /\ inFlight = [p \in Priority |-> 0]

\* acquire, up to its wait for the event.
Acquire(r) ==
  /\ st[r] = "idle"
  /\ Promote([st EXCEPT ![r] = "queued"], [ahead EXCEPT ![r] = Queued], inFlight)

\* The granted coroutine wakes up and acquire returns.
Resume(r) ==
  /\ st[r] = "granted"
  /\ st' = [st EXCEPT ![r] = "running"]
  /\ UNCHANGED <<ahead, steps, inFlight>>

\* Fault: a hang-up after the grant keeps the slot.
CancelKeepsSlot(r) ==
  /\ st[r] \in {"queued", "granted"}
  /\ Promote([st EXCEPT ![r] = "idle"], [u \in Req |-> ahead[u] \ {r}], inFlight)

\* Fault: a hang-up frees the slot and does not promote.
CancelWithoutPromote(r) ==
  /\ st[r] \in {"queued", "granted"}
  /\ st' = [st EXCEPT ![r] = "idle"]
  /\ ahead' = [u \in Req |-> IF u = r THEN {} ELSE ahead[u] \ {r}]
  /\ steps' = [steps EXCEPT ![r] = 0]
  /\ inFlight' = IF st[r] = "queued" THEN inFlight ELSE Released(ClassOf[r])

\* CancelledError while waiting: still queued, or already granted a slot.
Cancel(r) ==
  /\ st[r] \in {"queued", "granted"}
  /\ Promote([st EXCEPT ![r] = "idle"],
             [u \in Req |-> ahead[u] \ {r}],
             IF st[r] = "queued" THEN inFlight ELSE Released(ClassOf[r]))

Release(r) ==
  /\ st[r] = "running"
  /\ Promote([st EXCEPT ![r] = "idle"], ahead, Released(ClassOf[r]))

(***************************************************************************)
(* The clock: another ageing window of r is complete.  Who queued earlier  *)
(* has completed at least as many.                                         *)
(***************************************************************************)
Age(r) ==
  /\ st[r] = "queued"
  /\ steps[r] < MaxSteps
  /\ \A u \in ahead[r] : steps[u] > steps[r]
  /\ steps' = [steps EXCEPT ![r] = @ + 1]
  /\ UNCHANGED <<st, ahead, inFlight>>

Next ==
  \E r \in Req : Acquire(r) \/ Resume(r) \/ Cancel(r) \/ Release(r) \/ Age(r)

Spec == Init /\ [][Next]_vars

(***************************************************************************)
(* A woken coroutine runs, an inference ends (it has a timeout and the     *)
(* slot is released in a finally block), and time passes.  Nobody has to   *)
(* send a request or hang up.                                              *)
(***************************************************************************)
Fairness ==
  \A r \in Req : WF_vars(Resume(r)) /\ WF_vars(Release(r)) /\ WF_vars(Age(r))

FairSpec == Spec /\ Fairness
-----------------------------------------------------------------------------
(* Correctness *)

\* The counters are what `_promote` reads instead of counting requests: they
\* equal the slots really held in every class, whatever grants, releases and
\* hang-ups raced (a hang-up after the grant must give its slot back, once).
SlotsAccounted ==
  \A p \in Priority : inFlight[p] = Cardinality(HoldersOf(p))

\* No more requests hold a slot than there are slots, and with two slots or
\* more bulk work never holds all of them: the reserve against inversion
\* through occupancy.
ReserveKept ==
  /\ Cardinality(Holders) <= Concurrency
  /\ Concurrency >= 2 => Cardinality(HoldersOf(BULK)) < Concurrency

\* Slots are counted exactly and kept within their limits: the reserve is only as
\* good as the counters it is read from.
SlotsKept == SlotsAccounted /\ ReserveKept

\* A waiter that may start is never left queued: every method that frees a slot
\* or shortens the queue promotes before it gives up the lock.
NobodyLeftBehind ==
  \A r \in Queued : ~MayStart(ClassOf[r], Total(inFlight))

\* The loop and the closed form admit the same waiters, from the slots taken now
\* and from any split of taken slots between bulk and blocking work.
LoopAgrees ==
  \A b, k \in 0..Concurrency :
    LET slots == [p \in Priority |-> IF p = BULK THEN b
                                     ELSE IF p = BLOCKING THEN k ELSE 0]
    IN  \A A \in SUBSET Queued :
          AdmittedByLoop(A, Queued, ahead, slots) <=> A = LoopAdmits(Queued, ahead, slots)

\* (An idle request that is granted a slot arrived just now.)
Earlier(u, v) == st[v] = "idle" \/ u \in ahead[v]

\* Whom a waiter u may not be overtaken by: a later arrival of its class, a less
\* urgent waiter that has not aged, and, with ageing on and once u has waited a
\* whole window, a later arrival one class above.  (Bulk may also be passed because
\* of the reserve.)
Outranks(u, v) ==
  \/ ClassOf[u] = ClassOf[v] /\ Earlier(u, v)
  \/ ClassOf[u] < ClassOf[v] /\ steps[v] = 0 /\ ClassOf[u] < BULK
  \/ /\ Aging /\ Earlier(u, v) /\ steps[u] > 0
     /\ ClassOf[u] = STRUCTURAL /\ ClassOf[v] = BLOCKING

\* A grant never overtakes a waiter that outranks the granted one: "two requests
\* of the same effective class are served in the order they were queued, which is
\* what makes a run reproducible".
GrantsFollowTheKeys ==
  [][\A u, v \in Req :
       /\ st[u] = "queued" /\ st[v] \in {"idle", "queued"}
       /\ st'[u] = "queued" /\ st'[v] = "granted"
       => ~Outranks(u, v)]_vars

\* Ageing bounds the wait of everything but bulk: whoever queues with a class
\* below BULK stops waiting, however many newcomers keep arriving.
UrgentIsServed ==
  \A r \in Req : ClassOf[r] < BULK => (st[r] = "queued" ~> st[r] # "queued")
=============================================================================

----------------------------- MODULE TranslateJob -----------------------------
(***************************************************************************)
(* One run of translate_document, src/src/assembler/translator.py: worker  *)
(* threads that share a queue of units, one thread per agent.              *)
(*                                                                         *)
(* Threads interleave between any two accesses of what they share: the     *)
(* queue, in_flight and the counters (under `guard`), the document (under  *)
(* `lock`) and the stop event.                                             *)
(***************************************************************************)
EXTENDS Naturals, Sequences, FiniteSets, Functions

CONSTANTS
  Unit,         \* units not translated yet, `todo`
  Worker,
  Replies,      \* what the agent of a worker may return, see Reply
  MAX_ATTEMPTS,
  RETIRE_AFTER,
  None

Reply == {"translation", "nothing"}

ASSUME JobAssumption ==
  /\ IsFiniteSet(Unit) /\ IsFiniteSet(Worker) /\ Worker # {}
  /\ Replies \in [Worker -> SUBSET Reply \ {{}}]
  /\ MAX_ATTEMPTS \in Nat \ {0} /\ RETIRE_AFTER \in Nat \ {0}
  /\ None \notin Unit

(***************************************************************************)
(* loop: at the head of the while.  take: about to call take().  wait: no  *)
(* unit now, some in flight.  call: the agent is asked.  record, count,    *)
(* back: about to write the segment, to count the unit as done, to put it  *)
(* back or count it as failed.  settle: in the finally block.              *)
(***************************************************************************)
Holding == {"call", "record", "count", "back", "settle"}
Control == {"loop", "take", "wait", "out"} \cup Holding

VARIABLES
  pending,      \* the queue
  inFlight,     \* in_flight[0]
  recorded,     \* units with a segment in the document
  done, failed, \* the units stats.done and stats.failed have counted
  stop,         \* the stop event
  pc, unit,     \* per worker: control point and the unit in its hands
  failures,     \* per worker: failures in a row
  attempts      \* per unit

stats == <<done, failed>>
vars == <<pending, inFlight, recorded, stats, stop, pc, unit, failures, attempts>>

TypeOK ==
  /\ pending \in Seq(Unit)
  /\ inFlight \in Nat
  /\ recorded \in SUBSET Unit
  /\ done \in SUBSET Unit /\ failed \in SUBSET Unit
  /\ stop \in BOOLEAN
  /\ pc \in [Worker -> Control]
  /\ unit \in [Worker -> Unit \cup {None}]
  /\ failures \in [Worker -> 0..RETIRE_AFTER]
  /\ attempts \in [Unit -> 0..MAX_ATTEMPTS]

\* The queue starts with every unit once, in the order of the document.
Init ==
  /\ pending \in Bijection(1..Cardinality(Unit), Unit)
  /\ inFlight = 0
  /\ recorded = {} /\ done = {} /\ failed = {}
  /\ stop \in BOOLEAN
  /\ pc = [w \in Worker |-> "loop"]
  /\ unit = [w \in Worker |-> None]
  /\ failures = [w \in Worker |-> 0]
  /\ attempts = [u \in Unit |-> 0]

-----------------------------------------------------------------------------
Go(w, to) == pc' = [pc EXCEPT ![w] = to]

\* The while condition.
Loop(w) ==
  /\ pc[w] = "loop"
  /\ Go(w, IF stop \/ failures[w] >= RETIRE_AFTER THEN "out" ELSE "take")
  /\ UNCHANGED <<pending, inFlight, recorded, stats, stop, unit, failures, attempts>>

\* take() hands out the next unit and counts it in flight in one step, ...
Take(w) ==
  /\ pc[w] = "take" /\ pending # <<>>
  /\ pending' = Tail(pending)
  /\ unit' = [unit EXCEPT ![w] = Head(pending)]
  /\ inFlight' = inFlight + 1
  /\ Go(w, "call")
  /\ UNCHANGED <<recorded, stats, stop, failures, attempts>>

\* Fault: an empty queue is taken for the end of the job.
TakeNothingHasty(w) ==
  /\ pc[w] = "take" /\ pending = <<>>
  /\ Go(w, "out")
  /\ UNCHANGED <<pending, inFlight, recorded, stats, stop, unit, failures, attempts>>

\* ... or says whether the job is finished.
TakeNothing(w) ==
  /\ pc[w] = "take" /\ pending = <<>>
  /\ Go(w, IF inFlight = 0 THEN "out" ELSE "wait")
  /\ UNCHANGED <<pending, inFlight, recorded, stats, stop, unit, failures, attempts>>

Wake(w) ==
  /\ pc[w] = "wait"
  /\ Go(w, "loop")
  /\ UNCHANGED <<pending, inFlight, recorded, stats, stop, unit, failures, attempts>>

\* The reply passes _rejection.
Accepted(w) ==
  /\ pc[w] = "call" /\ "translation" \in Replies[w]
  /\ Go(w, "record")
  /\ UNCHANGED <<pending, inFlight, recorded, stats, stop, unit, failures, attempts>>

\* No reply, an exception, or a reply that is not a translation.
Rejected(w) ==
  /\ pc[w] = "call" /\ "nothing" \in Replies[w]
  /\ failures' = [failures EXCEPT ![w] = @ + 1]
  /\ attempts' = [attempts EXCEPT ![unit[w]] = @ + 1]
  /\ Go(w, "back")
  /\ UNCHANGED <<pending, inFlight, recorded, stats, stop, unit>>

\* _record_unit under `lock`. It is taken to return: were it to raise, the thread
\* would end with its unit neither done, failed nor queued.
Record(w) ==
  /\ pc[w] = "record"
  /\ recorded' = recorded \cup {unit[w]}
  /\ failures' = [failures EXCEPT ![w] = 0]
  /\ Go(w, "count")
  /\ UNCHANGED <<pending, inFlight, stats, stop, unit, attempts>>

Count(w) ==
  /\ pc[w] = "count"
  /\ done' = done \cup {unit[w]}
  /\ Go(w, "settle")
  /\ UNCHANGED <<pending, inFlight, recorded, failed, stop, unit, failures, attempts>>

\* Fault: a unit given up on is counted and put back as well.
PutBackAnyway(w) ==
  /\ pc[w] = "back"
  /\ pending' = Append(pending, unit[w])
  /\ failed' = IF attempts[unit[w]] < MAX_ATTEMPTS THEN failed ELSE failed \cup {unit[w]}
  /\ Go(w, "settle")
  /\ UNCHANGED <<inFlight, recorded, done, stop, unit, failures, attempts>>

\* Back to the queue, or given up on.
PutBack(w) ==
  /\ pc[w] = "back"
  /\ IF attempts[unit[w]] < MAX_ATTEMPTS
     THEN pending' = Append(pending, unit[w]) /\ UNCHANGED failed
     ELSE failed' = failed \cup {unit[w]} /\ UNCHANGED pending
  /\ Go(w, "settle")
  /\ UNCHANGED <<inFlight, recorded, done, stop, unit, failures, attempts>>

\* Fault: in_flight is lowered on success only.
SettleSuccessOnly(w) ==
  /\ pc[w] = "settle"
  /\ inFlight' = IF failures[w] = 0 THEN inFlight - 1 ELSE inFlight
  /\ unit' = [unit EXCEPT ![w] = None]
  /\ Go(w, "loop")
  /\ UNCHANGED <<pending, recorded, stats, stop, failures, attempts>>

\* The finally block; the progress callback that follows changes nothing here.
Settle(w) ==
  /\ pc[w] = "settle"
  /\ inFlight' = inFlight - 1
  /\ unit' = [unit EXCEPT ![w] = None]
  /\ Go(w, "loop")
  /\ UNCHANGED <<pending, recorded, stats, stop, failures, attempts>>

\* translate/stop sets the event.
Stop ==
  /\ ~stop
  /\ stop' = TRUE
  /\ UNCHANGED <<pending, inFlight, recorded, stats, pc, unit, failures, attempts>>

Step(w) ==
  \/ Loop(w) \/ Take(w) \/ TakeNothing(w) \/ Wake(w)
  \/ Accepted(w) \/ Rejected(w) \/ Record(w) \/ Count(w) \/ PutBack(w) \/ Settle(w)

Next == Stop \/ \E w \in Worker : Step(w)

Spec == Init /\ [][Next]_vars

\* Threads are scheduled, and every call of an agent has a timeout.
FairSpec == Spec /\ \A w \in Worker : WF_vars(Step(w))

-----------------------------------------------------------------------------
(* Correctness *)

\* From taking a unit to disposing of it.
Busy(w) == pc[w] \in Holding \ {"settle"}

InHand == {unit[w] : w \in {x \in Worker : Busy(x)}}

Over == \A w \in Worker : pc[w] = "out"

\* Every unit is in exactly one place: once in the queue, in the hands of one
\* worker, counted as done or counted as failed.  So the job loses none, sends
\* none to two agents at a time, and counts none twice; when it is over, total =
\* cached + done + failed + left, `left` being what is still in the queue.
EachUnitInOnePlace ==
  /\ Range(pending) \cup InHand \cup done \cup failed = Unit
  /\ IsInjective(pending)
  /\ Range(pending) \cap InHand = {}
  /\ (Range(pending) \cup InHand) \cap (done \cup failed) = {}
  /\ done \cap failed = {}
  /\ \A v, w \in Worker : v # w /\ Busy(v) /\ Busy(w) => unit[v] # unit[w]

\* What is counted as done is what the document holds, and a unit with a segment
\* is never given to an agent again nor reported as failed.
CountedAsRecorded ==
  /\ done \subseteq recorded
  /\ recorded \cap (Range(pending) \cup failed) = {}
  /\ Over => done = recorded

\* A unit is given up after MAX_ATTEMPTS failed attempts, neither more nor less.
GivenUpAfterMaxAttempts ==
  \A u \in Unit : u \in failed \cup Range(pending) =>
    (u \in failed <=> attempts[u] >= MAX_ATTEMPTS)

\* The job ends with units in the queue only if it was stopped or every agent
\* failed RETIRE_AFTER units in a row: no worker leaves because it saw an empty
\* queue while a unit was on its way back.
NoUnitAbandoned ==
  Over => \/ pending = <<>>
          \/ stop
          \/ \A w \in Worker : failures[w] >= RETIRE_AFTER

\* The job ends, whatever the agents answer.
JobEnds == <>Over

\* The job seen as a WorkList: it is over when every worker has left.
Promise == INSTANCE WorkList WITH over <- Over

Cut == stop \/ \A w \in Worker : failures[w] >= RETIRE_AFTER

PromiseNext == \/ \E u \in Unit : Promise!Translate(u) \/ Promise!GiveUp(u)
               \/ Promise!End(Cut)

\* Every step of the job is a step of WorkList or changes nothing in it: a unit is
\* done once or failed once, none after the job is over, and the job is over only
\* with every unit disposed of or with a reason to be cut short.
ImplementsWorkList == Promise!Init /\ [][PromiseNext]_<<done, failed, Over>>
=============================================================================

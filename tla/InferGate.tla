------------------------------ MODULE InferGate ------------------------------
(***************************************************************************)
(* POST /infer of the Manager, src/src/agents/manager/app.py: the bulk     *)
(* quota and the queue gate in front of the scheduler, and the settlement  *)
(* behind it.  Between the gate and the wait for a slot nothing suspends,  *)
(* and neither does anything in the finally block, so each is one action.  *)
(* What a request does with its slot (RunnerLifecycle) takes some seconds. *)
(***************************************************************************)
EXTENDS Scheduler

CONSTANTS
  MaxQueue,     \* max_queue
  Budget,       \* bulk_budget_minutes in seconds; 0 means no budget
  MaxSeconds    \* bound: the longest a request holds its slot

ASSUME GateAssumption == MaxQueue \in Nat /\ Budget \in Nat /\ MaxSeconds \in Nat

VARIABLES
  inflight,   \* inflight_state["n"]
  bulkUsed    \* metrics.bulk_seconds_used

gateVars == <<vars, inflight, bulkUsed>>

IsBulk(r) == ClassOf[r] >= BULK

Live == {r \in Req : st[r] # "idle"}

GateTypeOK ==
  /\ TypeOK
  /\ inflight \in Nat
  /\ bulkUsed \in Nat

GateInit == Init /\ inflight = 0 /\ bulkUsed = 0

-----------------------------------------------------------------------------
QuotaAllows(r) == (IsBulk(r) /\ Budget > 0) => bulkUsed < Budget

\* Fault: the gate compares with > instead of >=.
SubmitPastLimit(r) ==
  /\ QuotaAllows(r)
  /\ inflight <= MaxQueue
  /\ inflight' = inflight + 1
  /\ Acquire(r)
  /\ UNCHANGED bulkUsed

\* Fault: the quota is not looked at on arrival.
SubmitUnmetered(r) ==
  /\ inflight < MaxQueue
  /\ inflight' = inflight + 1
  /\ Acquire(r)
  /\ UNCHANGED bulkUsed

\* A request that passes both gates joins the scheduler; any other gets a 429.
Submit(r) ==
  /\ QuotaAllows(r)
  /\ inflight < MaxQueue
  /\ inflight' = inflight + 1
  /\ Acquire(r)
  /\ UNCHANGED bulkUsed

\* acquire returns to the handler.
Enter(r) == Resume(r) /\ UNCHANGED <<inflight, bulkUsed>>

\* The handler is cancelled while it waits in acquire, before its try block:
\* the scheduler forgets it, the gate does not.
HangUp(r) == Cancel(r) /\ UNCHANGED <<inflight, bulkUsed>>

\* Fault: the gate is settled, the slot is not given back.
FinishWithoutRelease(r, seconds) ==
  /\ st[r] = "running"
  /\ st' = [st EXCEPT ![r] = "idle"]
  /\ inflight' = inflight - 1
  /\ bulkUsed' = IF IsBulk(r) THEN bulkUsed + seconds ELSE bulkUsed
  /\ UNCHANGED <<ahead, steps, inFlight>>

\* The finally block, however the request ended.
Finish(r, seconds) ==
  /\ Release(r)
  /\ inflight' = inflight - 1
  /\ bulkUsed' = IF IsBulk(r) THEN bulkUsed + seconds ELSE bulkUsed

Wait(r) == Age(r) /\ UNCHANGED <<inflight, bulkUsed>>

GateNext ==
  \E r \in Req :
    \/ Submit(r) \/ Enter(r) \/ HangUp(r) \/ Wait(r)
    \/ \E seconds \in 0..MaxSeconds : Finish(r, seconds)

GateSpec == GateInit /\ [][GateNext]_gateVars

-----------------------------------------------------------------------------
(* Correctness *)

\* The gate never lets in more than max_queue requests, and it never forgets one
\* that is still queued or running, whoever hung up in between.
GateCoversLive == Cardinality(Live) <= inflight /\ inflight <= MaxQueue

\* The handler drives the scheduler by its protocol: whatever it did is an
\* acquire, a wake-up, one release per acquire that returned, or a hang-up in
\* acquire; so all that is proved of Scheduler holds here.
SchedulerProtocolKept == Spec

\* Exhaustion is noticed late, but boundedly so: bulk work overshoots its budget
\* by no more than the requests the gate had let in before the last second went.
OvershootBounded ==
  Budget > 0 =>
    bulkUsed + MaxSeconds * Cardinality({r \in Live : IsBulk(r)})
      < Budget + MaxSeconds * MaxQueue
=============================================================================

--------------------------- MODULE RunnerLifecycle ---------------------------
(***************************************************************************)
(* How the Manager brings the GPU Runner up, probes it, and gives up on    *)
(* it: ManagerState, Orchestrator and the request path of                  *)
(* src/src/agents/manager, with the Runner process as its environment.     *)
(*                                                                         *)
(* Slots are the requests the scheduler let in (see Scheduler); each runs  *)
(* ensure_ready, then one inference, then the error handling.  Everything  *)
(* shares one event loop, so an action is what runs between two awaits     *)
(* that suspend: a probe, a backend start, an inference, a /shutdown call  *)
(* and the sleeps suspend; the uncontended ManagerState lock does not.     *)
(***************************************************************************)
EXTENDS Naturals

CONSTANTS
  Slots,        \* requests in flight
  Urls,         \* URLs a Runner life may announce; a life that ended may reuse one
  NoUrl,        \* runner_url = None
  Seed,         \* what KAE_RUNNER_URL seeds runner_url with
  Managed,      \* TRUE: a Runner runs only after backend.start(); FALSE: the
                \* operator starts it by hand and backend.start() does nothing
  Interval      \* min_restart_interval, in ticks of the clock

Threshold == 3

ASSUME LifecycleAssumption ==
  /\ NoUrl \notin Urls
  /\ "none" \notin Slots
  /\ Seed \in Urls \cup {NoUrl}
  /\ Managed \in BOOLEAN
  /\ Interval \in Nat

RunnerStatus == {"cold", "starting", "warming", "up", "error", "stopping"}

(***************************************************************************)
(* idle: the slot is free.  fast/probe: awaiting /ready in ensure_ready.   *)
(* lock: queueing for _starting_lock.  starting: awaiting backend.start(). *)
(* poll/asked: in the wait loop, asleep or awaiting /ready.  infer:        *)
(* awaiting the inference.  shutdown: awaiting the /shutdown call.         *)
(* cool: sleeping out the cooldown.                                        *)
(***************************************************************************)
Control == {"idle", "fast", "probe", "lock", "starting", "poll", "asked",
            "infer", "shutdown", "cool"}

VARIABLES
  status, url, errors, metering, sinceStamp,  \* ManagerState; errors saturates at Threshold
  starter,       \* the slot holding _starting_lock, or "none"
  pc, cli,       \* per slot: control point and the URL its client was built with
  probing,       \* URLs whose announce handler awaits its optimistic probe
  run,           \* per URL, the Runner process behind it: "off", "booting" or "ready"
  launched       \* a backend.start() succeeded and its Runner has not booted yet

state == <<status, url, errors, metering, sinceStamp>>
runner == <<run, launched>>
vars == <<state, starter, pc, cli, probing, runner>>

TypeOK ==
  /\ status \in RunnerStatus
  /\ url \in Urls \cup {NoUrl}
  /\ errors \in 0..Threshold
  /\ metering \in BOOLEAN
  /\ sinceStamp \in 0..Interval
  /\ starter \in Slots \cup {"none"}
  /\ pc \in [Slots -> Control]
  /\ cli \in [Slots -> Urls \cup {NoUrl}]
  /\ probing \in SUBSET Urls
  /\ run \in [Urls -> {"off", "booting", "ready"}]
  /\ launched \in BOOLEAN

Init ==
  /\ status = "cold" /\ errors = 0 /\ metering = FALSE
  /\ url = Seed
  /\ sinceStamp = Interval
  /\ starter = "none"
  /\ pc = [s \in Slots |-> "idle"]
  /\ cli = [s \in Slots |-> NoUrl]
  /\ probing = {}
  /\ run = [u \in Urls |-> "off"]
  /\ launched = FALSE

-----------------------------------------------------------------------------
(* ManagerState *)

Plus(n, k) == IF n + k < Threshold THEN n + k ELSE Threshold

\* Fault: the meter is not stopped on the way to "error".
SetStatusKeepsMeter(new, errs) ==
  /\ status' = new
  /\ errors' = IF errs = 0 THEN 0 ELSE Plus(errors, errs)
  /\ metering' = CASE new = "up" -> TRUE
                   [] new \in {"cold", "stopping"} -> FALSE
                   [] OTHER -> metering
  /\ sinceStamp' = IF new = "starting" /\ status # new THEN 0 ELSE sinceStamp

\* set_status, with `errs` of the calls of one step carrying an error; an error
\* of empty text counts as none in the code, and here none is empty.
SetStatus(new, errs) ==
  /\ status' = new
  /\ errors' = IF errs = 0 THEN 0 ELSE Plus(errors, errs)
  /\ metering' = CASE new = "up" -> TRUE
                   [] new \in {"cold", "stopping", "error"} -> FALSE
                   [] OTHER -> metering
  /\ sinceStamp' = IF new = "starting" /\ status # new THEN 0 ELSE sinceStamp

Answers(u) == u \in Urls /\ run[u] = "ready"

Go(s, to) == pc' = [pc EXCEPT ![s] = to]

\* The request is over: the finally block frees the slot.
End(s) == Go(s, "idle") /\ cli' = [cli EXCEPT ![s] = NoUrl]

-----------------------------------------------------------------------------
(* ensure_ready *)

\* _maybe_start under its lock, up to the await of backend.start().
MaybeStart(s) ==
  /\ starter = "none"
  /\ IF sinceStamp < Interval
     THEN Go(s, "poll") /\ UNCHANGED <<state, starter>>
     ELSE /\ SetStatus("starting", 0)
          /\ starter' = s
          /\ Go(s, "starting")
          /\ UNCHANGED url

\* A request that knows a Runner probes it; its client holds the URL known now.
Begin(s) ==
  /\ pc[s] = "idle" /\ url # NoUrl
  /\ cli' = [cli EXCEPT ![s] = url]
  /\ Go(s, IF status = "up" THEN "fast" ELSE "probe")
  /\ UNCHANGED <<state, starter, probing, runner>>

LockIsFree == starter = "none" /\ \A t \in Slots : pc[t] # "lock"

\* A request that knows none starts one, or queues behind the start under way.
BeginUnknown(s) ==
  /\ pc[s] = "idle" /\ url = NoUrl
  /\ IF LockIsFree
     THEN MaybeStart(s)
     ELSE Go(s, "lock") /\ UNCHANGED <<state, starter>>
  /\ UNCHANGED <<cli, probing, runner>>

\* The lock is handed to a waiter, which does not look at runner_url again.
LockHanded(s) ==
  /\ pc[s] = "lock"
  /\ MaybeStart(s)
  /\ UNCHANGED <<cli, probing, runner>>

\* The fast path: /ready answers, or the request probes once more.
Fast(s) ==
  /\ pc[s] = "fast"
  /\ Go(s, IF Answers(cli[s]) THEN "infer" ELSE "probe")
  /\ UNCHANGED <<state, starter, cli, probing, runner>>

\* Fault: a probe that answers does not record it.
ProbeUnrecorded(s) ==
  /\ pc[s] = "probe"
  /\ IF Answers(cli[s])
     THEN UNCHANGED <<status, errors, metering, sinceStamp>> /\ Go(s, "infer")
     ELSE SetStatus("warming", 0) /\ Go(s, "poll")
  /\ UNCHANGED <<url, starter, cli, probing, runner>>

Probe(s) ==
  /\ pc[s] = "probe"
  /\ IF Answers(cli[s])
     THEN SetStatus("up", 0) /\ Go(s, "infer")
     ELSE SetStatus("warming", 0) /\ Go(s, "poll")
  /\ UNCHANGED <<url, starter, cli, probing, runner>>

\* backend.start() returns.  A push may have failed unnoticed, and a backend that
\* has its Runner up hints the URL.
StartReturns(s) ==
  /\ pc[s] = "starting"
  /\ starter' = "none"
  /\ \/ url' = url /\ launched' \in {launched, launched \/ Managed}
     \/ url' \in Urls /\ launched' = (launched \/ Managed)
  /\ Go(s, "poll")
  /\ UNCHANGED <<status, errors, metering, sinceStamp, cli, probing, run>>

\* One turn of the wait loop: ask the Runner known now, if there is one.
Poll(s) ==
  /\ pc[s] = "poll" /\ url # NoUrl
  /\ cli' = [cli EXCEPT ![s] = url]
  /\ Go(s, "asked")
  /\ UNCHANGED <<state, starter, probing, runner>>

Asked(s) ==
  /\ pc[s] = "asked"
  /\ IF Answers(cli[s])
     THEN SetStatus("up", 0) /\ Go(s, "infer") /\ UNCHANGED url
     ELSE Go(s, "poll") /\ UNCHANGED state
  /\ UNCHANGED <<starter, cli, probing, runner>>

-----------------------------------------------------------------------------
(* The inference and note_infer_error *)

InferOk(s) ==
  /\ pc[s] = "infer" /\ Answers(cli[s])
  /\ End(s)
  /\ UNCHANGED <<state, starter, probing, runner>>

\* The last of the `errs` errors of this step is note_infer_error's: the status
\* becomes "error", and at the threshold the Runner is shut down and cooled.
NoteInferError(s, errs) ==
  IF Plus(errors, errs) < Threshold
  THEN SetStatus("error", errs) /\ End(s)
  ELSE IF url # NoUrl
  THEN SetStatus("error", errs) /\ Go(s, "shutdown") /\ cli' = [cli EXCEPT ![s] = url]
  ELSE SetStatus("stopping", 0) /\ Go(s, "cool") /\ UNCHANGED cli

\* The Runner answers 5xx, does not answer, or the call times out.
InferFails(s) ==
  /\ pc[s] = "infer"
  /\ NoteInferError(s, 1)
  /\ UNCHANGED <<url, starter, probing, runner>>

\* The warm-up deadline passes: one error in ensure_ready, one in note_infer_error.
WarmupTimeout(s) ==
  /\ pc[s] = "poll"
  /\ NoteInferError(s, 2)
  /\ UNCHANGED <<url, starter, probing, runner>>

\* Fault: the lock is not released when backend.start() raises.
StartFailsLocked(s) ==
  /\ pc[s] = "starting"
  /\ NoteInferError(s, 2)
  /\ UNCHANGED <<url, starter, probing, runner>>

\* backend.start() raises: an error in _maybe_start and one in note_infer_error.
StartFails(s) ==
  /\ pc[s] = "starting"
  /\ starter' = "none"
  /\ NoteInferError(s, 2)
  /\ UNCHANGED <<url, probing, runner>>

\* /shutdown has been answered or has failed; the Runner exits on its own (Exit).
ShutDown(s) ==
  /\ pc[s] = "shutdown"
  /\ SetStatus("stopping", 0)
  /\ Go(s, "cool")
  /\ UNCHANGED <<url, starter, cli, probing, runner>>

\* The cooldown is over, whatever happened to the Runner meanwhile.
CooledDown(s) ==
  /\ pc[s] = "cool"
  /\ SetStatus("cold", 0)
  /\ End(s)
  /\ UNCHANGED <<url, starter, probing, runner>>

-----------------------------------------------------------------------------
(* POST /runner/announce *)

\* An accepted announce, up to its probe.
Announce(u) ==
  /\ run[u] # "off"
  /\ ~(url = u /\ status \in {"up", "warming"})
  /\ u \notin probing
  /\ url' = u
  /\ probing' = probing \cup {u}
  /\ UNCHANGED <<status, errors, metering, sinceStamp, starter, pc, cli, runner>>

AnnounceProbed(u) ==
  /\ u \in probing
  /\ probing' = probing \ {u}
  /\ SetStatus(IF Answers(u) THEN "up" ELSE "warming", 0)
  /\ UNCHANGED <<url, starter, pc, cli, runner>>

-----------------------------------------------------------------------------
(* The Runner process and the clock *)

Boot(u) ==
  /\ run[u] = "off"
  /\ Managed => launched
  /\ run' = [run EXCEPT ![u] = "booting"]
  /\ launched' = FALSE
  /\ UNCHANGED <<state, starter, pc, cli, probing>>

\* The warm-up set is loaded (or failed to load, which the Runner ignores).
Warm(u) ==
  /\ run[u] = "booting"
  /\ run' = [run EXCEPT ![u] = "ready"]
  /\ UNCHANGED <<state, starter, pc, cli, probing, launched>>

\* Idle watchdog, /shutdown, a crash, or the end of the GPU session.
Exit(u) ==
  /\ run[u] # "off"
  /\ run' = [run EXCEPT ![u] = "off"]
  /\ UNCHANGED <<state, starter, pc, cli, probing, launched>>

Tick ==
  /\ sinceStamp < Interval
  /\ sinceStamp' = sinceStamp + 1
  /\ UNCHANGED <<status, url, errors, metering, starter, pc, cli, probing, runner>>

-----------------------------------------------------------------------------
Arrival(s) == Begin(s) \/ BeginUnknown(s)

\* What a request in a slot does by itself once it has begun.
Progress(s) ==
  \/ Fast(s) \/ Probe(s) \/ LockHanded(s) \/ StartReturns(s) \/ StartFails(s)
  \/ Poll(s) \/ Asked(s) \/ WarmupTimeout(s)
  \/ InferOk(s) \/ InferFails(s) \/ ShutDown(s) \/ CooledDown(s)

Next ==
  \/ \E s \in Slots : Arrival(s) \/ Progress(s)
  \/ \E u \in Urls : Announce(u) \/ AnnounceProbed(u) \/ Boot(u) \/ Warm(u) \/ Exit(u)
  \/ Tick

Spec == Init /\ [][Next]_vars

(***************************************************************************)
(* Every await of a request returns: probes, the inference and /shutdown   *)
(* carry HTTP timeouts, the sleeps end, and backend.start() is assumed to  *)
(* return.  asyncio hands a lock to its waiters in turn, and the wait loop *)
(* has a deadline, hence strong fairness for these two.                    *)
(***************************************************************************)
RequestFairness ==
  \A s \in Slots :
    WF_vars(Progress(s)) /\ SF_vars(LockHanded(s)) /\ SF_vars(WarmupTimeout(s))

ProbeFairness == \A u \in Urls : WF_vars(AnnounceProbed(u))

FairSpec == Spec /\ RequestFairness /\ ProbeFairness

\* Requests keep coming, too.
BusySpec == FairSpec /\ \A s \in Slots : WF_vars(Arrival(s))

\* And the Runner the backend launched boots, loads and announces itself.
WillingSpec ==
  /\ BusySpec
  /\ \A s \in Slots : SF_vars(StartReturns(s) /\ launched')
  /\ WF_vars(Tick)
  /\ \A u \in Urls : WF_vars(Boot(u)) /\ WF_vars(Warm(u)) /\ WF_vars(Announce(u))

-----------------------------------------------------------------------------
(* Properties *)

\* GPU time is metered while the Runner is up and never while the Manager holds
\* it to be cold, stopping or failed, whichever request or announce spoke last.
MeterTracksStatus ==
  /\ status = "up" => metering
  /\ status \in {"cold", "stopping", "error"} => ~metering

\* Whatever the Runner does, a request that begins ends: start, probes, warm-up,
\* inference, shutdown and cooldown cannot keep a scheduler slot for ever.
RequestsEnd == \A s \in Slots : pc[s] # "idle" ~> pc[s] = "idle"

\* If the announced Runner answers from some point on, no other announces itself
\* and requests keep coming, the Manager stops holding it to be starting or
\* warming: no interleaving of announces, probes and the wait loop loses the
\* transition.
HealthyRunnerIsSeen ==
  \A u \in Urls :
    <>[](url = u /\ Answers(u)) => <>[](status \notin {"starting", "warming"})

\* RFC 0022, 5.5, and state.py:17: after the cooldown a new start is tried; with
\* requests coming and a backend that works, a dead Runner is replaced.
DeadRunnerIsReplaced ==
  (\A u \in Urls : run[u] = "off") ~> (\E u \in Urls : run[u] # "off")
=============================================================================

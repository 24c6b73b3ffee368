------------------------ MODULE RunnerLifecycleProofs ------------------------
(***************************************************************************)
(* Proofs about the Runner's lifecycle in the Manager, for every number of *)
(* requests, every set of URLs, both kinds of backend and every interval.  *)
(*                                                                         *)
(* The status is written by set_status alone (StatusOnlySet), so the meter *)
(* is a matter of that method.  The two other invariants are about what is *)
(* held across an await: the start lock, and the client a probe, an        *)
(* inference or a /shutdown call was begun with.                           *)
(***************************************************************************)
EXTENDS RunnerLifecycle, TLAPS

\* The start lock is held from the decision to start until backend.start() is
\* over, by the slot that awaits it and by no other.
LockFollowsStart ==
  \A s \in Slots : pc[s] = "starting" <=> starter = s

\* A call under way has a Runner to go to, whatever became of runner_url since.
Calls == {"fast", "probe", "asked", "infer", "shutdown"}
CallsAddressed ==
  \A s \in Slots : pc[s] \in Calls => cli[s] \in Urls

\* Hence no two slots await it.
StartsApart ==
  \A s, t \in Slots : pc[s] = "starting" /\ pc[t] = "starting" => s = t

\* The inductive invariant.
IInv ==
  /\ TypeOK
  /\ MeterTracksStatus
  /\ LockFollowsStart
  /\ CallsAddressed

\* What the model calls ManagerState, but for runner_url.
manager == <<status, errors, metering, sinceStamp>>

\* The Manager starts cold, with no request in a slot.
LEMMA InitIInv == Init => IInv
  <1> SUFFICES ASSUME Init PROVE IInv
    OBVIOUS
  <1>1. TypeOK
    <2>1. metering \in BOOLEAN /\ launched \in BOOLEAN
      BY DEF Init
    <2>2. pc \in [Slots -> Control] /\ cli \in [Slots -> Urls \cup {NoUrl}]
      BY DEF Init, Control
    <2>3. run \in [Urls -> {"off", "booting", "ready"}] /\ probing \in SUBSET Urls
      BY DEF Init
    <2>4. /\ status \in RunnerStatus /\ url \in Urls \cup {NoUrl}
          /\ errors \in 0..Threshold /\ sinceStamp \in 0..Interval
          /\ starter \in Slots \cup {"none"}
      BY LifecycleAssumption DEF Init, RunnerStatus, Threshold
    <2> QED
      BY <2>1, <2>2, <2>3, <2>4 DEF TypeOK
  <1>2. MeterTracksStatus
    BY DEF Init, MeterTracksStatus
  <1>3. LockFollowsStart
    BY LifecycleAssumption DEF Init, LockFollowsStart
  <1>4. CallsAddressed
    BY DEF Init, CallsAddressed, Calls
  <1> QED
    BY <1>1, <1>2, <1>3, <1>4 DEF IInv

\* set_status keeps the types and leaves the meter as the new status wants it.
LEMMA SetStatusMeters ==
  ASSUME TypeOK, MeterTracksStatus, NEW new \in RunnerStatus, NEW errs \in 0..2,
         SetStatus(new, errs)
  PROVE  /\ status' \in RunnerStatus /\ errors' \in 0..Threshold
         /\ metering' \in BOOLEAN /\ sinceStamp' \in 0..Interval
         /\ MeterTracksStatus'
  <1>1. status' \in RunnerStatus /\ status' = new
    BY DEF SetStatus
  <1>2. errors' \in 0..Threshold
    BY DEF SetStatus, TypeOK, Plus, Threshold
  <1>3. sinceStamp' \in 0..Interval
    BY LifecycleAssumption DEF SetStatus, TypeOK
  <1>4. /\ new = "up" => metering' = TRUE
        /\ new \in {"cold", "stopping", "error"} => metering' = FALSE
        /\ new \in {"starting", "warming"} => metering' = metering
    BY DEF SetStatus
  <1>5. metering' \in BOOLEAN
    BY <1>4 DEF TypeOK, RunnerStatus
  <1> QED
    BY <1>1, <1>2, <1>3, <1>4, <1>5 DEF MeterTracksStatus

-----------------------------------------------------------------------------

\* Every step that writes the status does it by set_status; the others leave the
\* meter alone, and only the clock moves the time since the last start.
LEMMA StatusOnlySet ==
  ASSUME TypeOK, Next
  PROVE  \/ \E new \in RunnerStatus, errs \in 0..2 : SetStatus(new, errs)
         \/ /\ UNCHANGED <<status, errors, metering>>
            /\ sinceStamp' \in 0..Interval
  <1> USE DEF RunnerStatus
  <1>1. TypeOK /\ sinceStamp \in 0..Interval
    BY DEF TypeOK
  <1>2. ASSUME NEW s \in Slots, Arrival(s) \/ LockHanded(s)
        PROVE  UNCHANGED manager \/ SetStatus("starting", 0)
    BY <1>2 DEF Arrival, Begin, BeginUnknown, LockHanded, MaybeStart, state, manager
  <1>3. ASSUME NEW s \in Slots, Probe(s) \/ Asked(s)
        PROVE  \/ UNCHANGED manager
               \/ SetStatus("up", 0) \/ SetStatus("warming", 0)
    BY <1>3 DEF Probe, Asked, state, manager
  <1>4. ASSUME NEW s \in Slots, NEW errs \in 0..2, NoteInferError(s, errs)
        PROVE  SetStatus("error", errs) \/ SetStatus("stopping", 0)
    BY <1>4 DEF NoteInferError
  <1>5. ASSUME NEW s \in Slots, InferFails(s) \/ WarmupTimeout(s) \/ StartFails(s)
        PROVE  NoteInferError(s, 1) \/ NoteInferError(s, 2)
    BY <1>5 DEF InferFails, WarmupTimeout, StartFails
  <1>6. ASSUME NEW s \in Slots, ShutDown(s) \/ CooledDown(s)
        PROVE  SetStatus("stopping", 0) \/ SetStatus("cold", 0)
    BY <1>6 DEF ShutDown, CooledDown
  <1>7. ASSUME NEW s \in Slots, Fast(s) \/ StartReturns(s) \/ Poll(s) \/ InferOk(s)
        PROVE  UNCHANGED manager
    BY <1>7 DEF Fast, StartReturns, Poll, InferOk, state, manager
  <1>8. ASSUME NEW u \in Urls, AnnounceProbed(u)
        PROVE  SetStatus("up", 0) \/ SetStatus("warming", 0)
    BY <1>8 DEF AnnounceProbed
  <1>9. ASSUME NEW u \in Urls, Announce(u) \/ Boot(u) \/ Warm(u) \/ Exit(u)
        PROVE  UNCHANGED manager
    BY <1>9 DEF Announce, Boot, Warm, Exit, state, manager
  <1>10. ASSUME Tick
         PROVE  UNCHANGED <<status, errors, metering>> /\ sinceStamp' \in 0..Interval
    BY <1>1, <1>10, LifecycleAssumption DEF Tick
  <1> QED
    BY <1>1, <1>2, <1>3, <1>4, <1>5, <1>6, <1>7, <1>8, <1>9, <1>10
       DEF Next, Progress, manager

\* GPU time is metered while the Runner is up and never while the Manager holds it
\* to be cold, stopping or failed: a step of any request, announce or Runner keeps
\* it so.
LEMMA NextMeters ==
  ASSUME TypeOK, MeterTracksStatus, Next
  PROVE  /\ status' \in RunnerStatus /\ errors' \in 0..Threshold
         /\ metering' \in BOOLEAN /\ sinceStamp' \in 0..Interval
         /\ MeterTracksStatus'
  <1>1. CASE \E new \in RunnerStatus, errs \in 0..2 : SetStatus(new, errs)
    BY <1>1, SetStatusMeters
  <1>2. CASE UNCHANGED <<status, errors, metering>> /\ sinceStamp' \in 0..Interval
    BY <1>2 DEF TypeOK, MeterTracksStatus
  <1> QED
    BY <1>1, <1>2, StatusOnlySet

\* A Runner that answers has a URL.
LEMMA AnswersHasUrl ==
  ASSUME NEW u, Answers(u)
  PROVE  u \in Urls
  BY DEF Answers

\* What a step does to a slot: it moves it alone, it keeps the lock with the slot
\* that starts, and a call it begins is addressed.
Moves(s) ==
  /\ \E to \in Control :
       /\ pc' = [pc EXCEPT ![s] = to]
       /\ to \in Calls => cli'[s] \in Urls
       /\ to = "starting" => starter = "none" /\ starter' = s
       /\ pc[s] = "starting" => to # "starting" /\ starter' = "none"
       /\ pc[s] # "starting" /\ to # "starting" => starter' = starter
  /\ cli' \in [Slots -> Urls \cup {NoUrl}]
  /\ \A t \in Slots \ {s} : cli'[t] = cli[t]

LEMMA GoMoves ==
  ASSUME TypeOK, CallsAddressed, NEW s \in Slots, Arrival(s) \/ Progress(s)
  PROVE  Moves(s)
  <1> USE DEF Moves, Go, Control, Calls
  <1>0. /\ cli \in [Slots -> Urls \cup {NoUrl}] /\ pc \in [Slots -> Control]
        /\ url # NoUrl => url \in Urls
        /\ pc[s] \in Calls => cli[s] \in Urls
    BY DEF TypeOK, CallsAddressed
  <1>1. ASSUME pc[s] \notin {"starting"}, MaybeStart(s), UNCHANGED cli
        PROVE  Moves(s)
    BY <1>0, <1>1 DEF MaybeStart
  <1>2. CASE Begin(s)
    BY <1>0, <1>2 DEF Begin
  <1>3. CASE BeginUnknown(s)
    BY <1>0, <1>1, <1>3 DEF BeginUnknown
  <1>4. CASE LockHanded(s)
    BY <1>0, <1>1, <1>4 DEF LockHanded
  <1>5. CASE Fast(s)
    BY <1>0, <1>5 DEF Fast
  <1>6. CASE Probe(s)
    BY <1>0, <1>6 DEF Probe
  <1>7. CASE StartReturns(s)
    BY <1>0, <1>7 DEF StartReturns
  <1>8. CASE Poll(s)
    BY <1>0, <1>8 DEF Poll
  <1>9. CASE Asked(s)
    BY <1>0, <1>9 DEF Asked
  <1>10. ASSUME NEW errs, NoteInferError(s, errs),
                starter' = IF pc[s] = "starting" THEN "none" ELSE starter
         PROVE  Moves(s)
    <2>1. \/ Go(s, "idle") /\ cli' = [cli EXCEPT ![s] = NoUrl]
          \/ Go(s, "shutdown") /\ cli' = [cli EXCEPT ![s] = url] /\ url \in Urls
          \/ Go(s, "cool") /\ UNCHANGED cli
      BY <1>0, <1>10 DEF NoteInferError, End
    <2>2. CASE Go(s, "idle") /\ cli' = [cli EXCEPT ![s] = NoUrl]
      BY <1>0, <1>10, <2>2
    <2>3. CASE Go(s, "shutdown") /\ cli' = [cli EXCEPT ![s] = url] /\ url \in Urls
      BY <1>0, <1>10, <2>3
    <2>4. CASE Go(s, "cool") /\ UNCHANGED cli
      BY <1>0, <1>10, <2>4
    <2> QED
      BY <2>1, <2>2, <2>3, <2>4
  <1>11. CASE InferFails(s) \/ WarmupTimeout(s) \/ StartFails(s)
    BY <1>10, <1>11 DEF InferFails, WarmupTimeout, StartFails
  <1>12. CASE InferOk(s)
    BY <1>0, <1>12 DEF InferOk, End
  <1>13. CASE ShutDown(s)
    BY <1>0, <1>13 DEF ShutDown
  <1>14. CASE CooledDown(s)
    BY <1>0, <1>14 DEF CooledDown, End
  <1> QED
    BY <1>2, <1>3, <1>4, <1>5, <1>6, <1>7, <1>8, <1>9, <1>11, <1>12, <1>13, <1>14
       DEF Arrival, Progress

\* A slot that moves keeps the lock with the start and its call addressed.
LEMMA MovesKeep ==
  ASSUME TypeOK, LockFollowsStart, CallsAddressed, NEW s \in Slots, Moves(s)
  PROVE  /\ pc' \in [Slots -> Control] /\ starter' \in Slots \cup {"none"}
         /\ LockFollowsStart' /\ CallsAddressed'
  <1>1. PICK to \in Control :
          /\ pc' = [pc EXCEPT ![s] = to]
          /\ to \in Calls => cli'[s] \in Urls
          /\ to = "starting" => starter = "none" /\ starter' = s
          /\ pc[s] = "starting" => to # "starting" /\ starter' = "none"
          /\ pc[s] # "starting" /\ to # "starting" => starter' = starter
    BY DEF Moves
  <1>2. /\ pc \in [Slots -> Control] /\ starter \in Slots \cup {"none"}
        /\ \A t \in Slots \ {s} : cli'[t] = cli[t]
    BY DEF TypeOK, Moves
  <1>3. pc' \in [Slots -> Control] /\ starter' \in Slots \cup {"none"}
    BY <1>1, <1>2
  <1>4. /\ pc'[s] = to
        /\ \A t \in Slots \ {s} : pc'[t] = pc[t]
    BY <1>1, <1>2
  <1>5. LockFollowsStart'
    BY <1>1, <1>2, <1>4, LifecycleAssumption DEF LockFollowsStart
  <1>6. CallsAddressed'
    BY <1>1, <1>2, <1>4 DEF CallsAddressed
  <1> QED
    BY <1>3, <1>5, <1>6

\* Every step keeps the invariant.
LEMMA NextIInv == IInv /\ [Next]_vars => IInv'
  <1> SUFFICES ASSUME IInv, [Next]_vars PROVE IInv'
    OBVIOUS
  <1>0. TypeOK /\ MeterTracksStatus /\ LockFollowsStart /\ CallsAddressed
    BY DEF IInv
  <1>1. CASE UNCHANGED vars
    BY <1>0, <1>1
       DEF vars, state, runner, IInv, TypeOK, MeterTracksStatus, LockFollowsStart, CallsAddressed
  <1>2. CASE Next
    <2>1. /\ status' \in RunnerStatus /\ errors' \in 0..Threshold
          /\ metering' \in BOOLEAN /\ sinceStamp' \in 0..Interval
          /\ MeterTracksStatus'
      BY <1>0, <1>2, NextMeters
    <2>2. /\ pc' \in [Slots -> Control] /\ starter' \in Slots \cup {"none"}
          /\ cli' \in [Slots -> Urls \cup {NoUrl}]
          /\ LockFollowsStart' /\ CallsAddressed'
      <3>1. CASE \E s \in Slots : Arrival(s) \/ Progress(s)
        BY <1>0, <3>1, GoMoves, MovesKeep DEF Moves
      <3>2. CASE ~ \E s \in Slots : Arrival(s) \/ Progress(s)
        <4>1. UNCHANGED <<starter, pc, cli>>
          BY <1>2, <3>2 DEF Next, Announce, AnnounceProbed, Boot, Warm, Exit, Tick
        <4> QED
          BY <1>0, <4>1 DEF TypeOK, LockFollowsStart, CallsAddressed
      <3> QED
        BY <3>1, <3>2
    <2>3. /\ url' \in Urls \cup {NoUrl} /\ probing' \in SUBSET Urls
          /\ run' \in [Urls -> {"off", "booting", "ready"}] /\ launched' \in BOOLEAN
      <3>1. /\ url \in Urls \cup {NoUrl} /\ probing \in SUBSET Urls
            /\ run \in [Urls -> {"off", "booting", "ready"}] /\ launched \in BOOLEAN
        BY <1>0 DEF TypeOK
      <3>2. CASE \E s \in Slots : StartReturns(s)
        <4>1. UNCHANGED <<probing, run>> /\ url' \in Urls \cup {NoUrl}
          BY <3>1, <3>2 DEF StartReturns
        <4>2. launched' \in BOOLEAN
          BY <3>1, <3>2, LifecycleAssumption, Zenon DEF StartReturns
        <4> QED
          BY <3>1, <4>1, <4>2
      <3>3. CASE \E s \in Slots : (Arrival(s) \/ Progress(s)) /\ ~StartReturns(s)
        <4>1. UNCHANGED <<url, probing, runner>>
          BY <3>3
             DEF Arrival, Progress, Begin, BeginUnknown, MaybeStart, Fast, Probe, LockHanded,
                 StartFails, Poll, Asked, WarmupTimeout, InferOk, InferFails, ShutDown,
                 CooledDown, state
        <4> QED
          BY <3>1, <4>1 DEF runner
      <3>4. CASE \E u \in Urls : Announce(u) \/ AnnounceProbed(u)
        <4>1. UNCHANGED runner /\ url' \in Urls \cup {NoUrl} /\ probing' \in SUBSET Urls
          BY <3>1, <3>4 DEF Announce, AnnounceProbed
        <4> QED
          BY <3>1, <4>1 DEF runner
      <3>5. CASE \E u \in Urls : Boot(u) \/ Warm(u) \/ Exit(u)
        <4>1. UNCHANGED <<url, probing>> /\ (launched' = FALSE \/ launched' = launched)
          BY <3>5 DEF Boot, Warm, Exit, state
        <4>2. run' \in [Urls -> {"off", "booting", "ready"}]
          BY <3>1, <3>5 DEF Boot, Warm, Exit
        <4> QED
          BY <3>1, <4>1, <4>2
      <3>6. CASE Tick
        BY <3>1, <3>6 DEF Tick, runner
      <3> QED
        BY <1>2, <3>2, <3>3, <3>4, <3>5, <3>6 DEF Next
    <2> QED
      BY <2>1, <2>2, <2>3 DEF IInv, TypeOK
  <1> QED
    BY <1>1, <1>2

LEMMA SpecIInv == Spec => []IInv
  BY InitIInv, NextIInv, PTL DEF Spec

-----------------------------------------------------------------------------

\* Every variable keeps its type, whatever requests, announces and Runners do.
THEOREM TypeCorrect == Spec => []TypeOK
  <1>1. IInv => TypeOK
    BY DEF IInv
  <1> QED
    BY <1>1, SpecIInv, PTL

\* The GPU meter runs while the Runner is up and stands still while the Manager
\* holds it to be cold, stopping or failed.
THEOREM MeterIsExact == Spec => []MeterTracksStatus
  <1>1. IInv => MeterTracksStatus
    BY DEF IInv
  <1> QED
    BY <1>1, SpecIInv, PTL

\* No two requests await backend.start(): the lock that its holder gives up only
\* after the call, returned or raised, keeps a second Runner from being launched
\* for the first one's callers.
THEOREM OneStartAtATime == Spec => []StartsApart
  <1>1. IInv => StartsApart
    BY DEF IInv, LockFollowsStart, StartsApart
  <1> QED
    BY <1>1, SpecIInv, PTL

\* A probe, an inference and a /shutdown call go to a URL that was announced,
\* seeded or hinted, however often runner_url changes while they wait.
THEOREM CallsHaveAddress == Spec => []CallsAddressed
  <1>1. IInv => CallsAddressed
    BY DEF IInv
  <1> QED
    BY <1>1, SpecIInv, PTL
=============================================================================

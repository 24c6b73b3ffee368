------------------------------ MODULE ModelPool ------------------------------
(***************************************************************************)
(* The Runner's model pool, src/src/agents/runner/pool.py, and the request *)
(* path of runner/app.py around it: loading under one lock, inference      *)
(* under another, LRU eviction by VRAM.                                    *)
(*                                                                         *)
(* Loading, unloading and generating run in worker threads, so the event   *)
(* loop serves other requests meanwhile.  A thread cannot be cancelled:    *)
(* when wait_for gives up on an inference its thread goes on generating.   *)
(***************************************************************************)
EXTENDS Naturals, Sequences, FiniteSets, FiniteSetsExt, Functions, SequencesExt

CONSTANTS
  Req,       \* requests in flight; an identity is reused
  Loader,    \* registered loaders
  Vram,      \* vram_mb of each
  Budget,    \* vram_budget_mb; 0 turns eviction off
  None

ASSUME PoolAssumption ==
  /\ IsFiniteSet(Loader)
  /\ Vram \in [Loader -> Nat]
  /\ Budget \in Nat
  /\ None \notin Req \cup Loader

(***************************************************************************)
(* lock: at `async with _lock`.  evict/load: awaiting an unload or a load  *)
(* under it.  wait: at `async with _infer_lock`.  turn: asking wanted()    *)
(* under it.  infer: generating.  orphan: the request was answered with a  *)
(* timeout and its thread still generates.                                 *)
(***************************************************************************)
Control == {"idle", "lock", "evict", "load", "wait", "turn", "infer", "orphan"}

VARIABLES
  pc, want,        \* per request: control point and the loader of its task
  loaded,          \* loaders whose `loaded` flag is set
  recent,          \* the keys of _last_used, oldest first
  victim,          \* the loader being unloaded
  lock, inferLock  \* holders

vars == <<pc, want, loaded, recent, victim, lock, inferLock>>

TypeOK ==
  /\ pc \in [Req -> Control]
  /\ want \in [Req -> Loader \cup {None}]
  /\ loaded \in SUBSET Loader
  /\ recent \in Seq(Loader) /\ IsInjective(recent)
  /\ victim \in Loader \cup {None}
  /\ lock \in Req \cup {None} /\ inferLock \in Req \cup {None}

Init ==
  /\ pc = [r \in Req |-> "idle"]
  /\ want = [r \in Req |-> None]
  /\ loaded = {} /\ recent = <<>> /\ victim = None
  /\ lock = None /\ inferLock = None

-----------------------------------------------------------------------------
VramOf(S) == SumFunctionOnSet(Vram, S)

Go(r, to) == pc' = [pc EXCEPT ![r] = to]

Without(l) == RemoveFirst(recent, l)

\* _last_used[l] = now
Touched(l) == Append(Without(l), l)

\* _lru_loaded_excluding: the positions in `recent` of the candidates.
Candidates(incoming) ==
  {i \in DOMAIN recent : recent[i] # incoming /\ recent[i] \in loaded}

\* Fault: one eviction is taken to be enough.
MakeRoomOnce(r, present) ==
  LET C == {i \in Candidates(want[r]) : recent[i] \in present}
      mustEvict == Budget > 0 /\ VramOf(present) + Vram[want[r]] > Budget /\ C # {}
  IN  IF mustEvict /\ pc[r] = "lock"
      THEN Go(r, "evict") /\ victim' = recent[Min(C)]
      ELSE Go(r, "load") /\ victim' = None

\* One turn of _evict_for, with `present` loaded: unload the oldest or load.
MakeRoom(r, present) ==
  LET C == {i \in Candidates(want[r]) : recent[i] \in present}
      mustEvict == Budget > 0 /\ VramOf(present) + Vram[want[r]] > Budget /\ C # {}
  IN  IF mustEvict
      THEN Go(r, "evict") /\ victim' = recent[Min(C)]
      ELSE Go(r, "load") /\ victim' = None

Arrive(r, l) ==
  /\ pc[r] = "idle"
  /\ want' = [want EXCEPT ![r] = l]
  /\ Go(r, "lock")
  /\ UNCHANGED <<loaded, recent, victim, lock, inferLock>>

\* ensure_loaded finds the model loaded, ...
Hit(r) ==
  /\ pc[r] = "lock" /\ lock = None
  /\ want[r] \in loaded
  /\ recent' = Touched(want[r])
  /\ Go(r, "wait")
  /\ UNCHANGED <<want, loaded, victim, lock, inferLock>>

\* ... or makes room for it and loads it.
Miss(r) ==
  /\ pc[r] = "lock" /\ lock = None
  /\ want[r] \notin loaded
  /\ lock' = r
  /\ MakeRoom(r, loaded)
  /\ UNCHANGED <<want, loaded, recent, inferLock>>

\* Fault: unload() leaves the flag set and the stamp in place.
UnloadedInName(r) ==
  /\ pc[r] = "evict"
  /\ MakeRoom(r, loaded)
  /\ UNCHANGED <<loaded, recent, want, lock, inferLock>>

Unloaded(r) ==
  /\ pc[r] = "evict"
  /\ loaded' = loaded \ {victim}
  /\ recent' = Without(victim)
  /\ MakeRoom(r, loaded \ {victim})
  /\ UNCHANGED <<want, lock, inferLock>>

Loaded(r) ==
  /\ pc[r] = "load"
  /\ loaded' = loaded \cup {want[r]}
  /\ recent' = Touched(want[r])
  /\ lock' = None
  /\ Go(r, "wait")
  /\ UNCHANGED <<want, victim, inferLock>>

\* loader.load() raises; the request is answered with the error.
LoadFails(r) ==
  /\ pc[r] = "load"
  /\ lock' = None
  /\ Go(r, "idle")
  /\ want' = [want EXCEPT ![r] = None]
  /\ UNCHANGED <<loaded, recent, victim, inferLock>>

TakeTurn(r) ==
  /\ pc[r] = "wait" /\ inferLock = None
  /\ inferLock' = r
  /\ Go(r, "turn")
  /\ UNCHANGED <<want, loaded, recent, victim, lock>>

\* The caller still listens and the model is there: the thread starts.
Generate(r) ==
  /\ pc[r] = "turn"
  /\ want[r] \in loaded
  /\ Go(r, "infer")
  /\ UNCHANGED <<want, loaded, recent, victim, lock, inferLock>>

\* loader.infer() raises "called before load()".
FindsNoModel(r) ==
  /\ pc[r] = "turn"
  /\ want[r] \notin loaded
  /\ inferLock' = None
  /\ Go(r, "idle")
  /\ want' = [want EXCEPT ![r] = None]
  /\ UNCHANGED <<loaded, recent, victim, lock>>

Abandon(r) ==
  /\ pc[r] = "turn"
  /\ inferLock' = None
  /\ Go(r, "idle")
  /\ want' = [want EXCEPT ![r] = None]
  /\ UNCHANGED <<loaded, recent, victim, lock>>

\* The answer is in; the stamp is set after the lock is released.
Answer(r) ==
  /\ pc[r] = "infer"
  /\ inferLock' = None
  /\ recent' = Touched(want[r])
  /\ Go(r, "idle")
  /\ want' = [want EXCEPT ![r] = None]
  /\ UNCHANGED <<loaded, victim, lock>>

\* The loader raises, be it its own deadline or a model taken away under it.
InferFails(r) ==
  /\ pc[r] = "infer"
  /\ inferLock' = None
  /\ Go(r, "idle")
  /\ want' = [want EXCEPT ![r] = None]
  /\ UNCHANGED <<loaded, recent, victim, lock>>

\* wait_for gives up after timeout + 5: the thread goes on.
TimesOut(r) ==
  /\ pc[r] = "infer"
  /\ inferLock' = None
  /\ Go(r, "orphan")
  /\ UNCHANGED <<want, loaded, recent, victim, lock>>

OrphanEnds(r) ==
  /\ pc[r] = "orphan"
  /\ Go(r, "idle")
  /\ want' = [want EXCEPT ![r] = None]
  /\ UNCHANGED <<loaded, recent, victim, lock, inferLock>>

Proceed(r) ==
  \/ Hit(r) \/ Miss(r) \/ Unloaded(r) \/ Loaded(r) \/ LoadFails(r)
  \/ TakeTurn(r) \/ Generate(r) \/ FindsNoModel(r) \/ Abandon(r)
  \/ Answer(r) \/ InferFails(r) \/ TimesOut(r) \/ OrphanEnds(r)

Next == \E r \in Req : Proceed(r) \/ \E l \in Loader : Arrive(r, l)

Spec == Init /\ [][Next]_vars

\* Loads, unloads and inferences end, and asyncio hands each lock to its waiters
\* in turn.
FairSpec ==
  /\ Spec
  /\ \A r \in Req : /\ WF_vars(Proceed(r))
                    /\ SF_vars(Hit(r) \/ Miss(r))
                    /\ SF_vars(TakeTurn(r))

-----------------------------------------------------------------------------
(* Correctness *)

\* Models the GPU holds on to: the loaded ones, the one being loaded.
Resident == loaded \cup {want[r] : r \in {q \in Req : pc[q] = "load"}}

\* The budget is exceeded by a model that is alone or not at all, although the
\* eviction loop awaits between its turns and the LRU keys it chooses from are
\* written by finishing inferences without the lock.
OverBudgetOnlyAlone ==
  Budget > 0 => VramOf(Resident) <= Budget \/ Cardinality(Resident) = 1

\* A request ends, whatever failed, timed out or was evicted on its way.
RequestsEnd == \A r \in Req : pc[r] # "idle" ~> pc[r] = "idle"
=============================================================================

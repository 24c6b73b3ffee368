---------------------------- MODULE DocumentStore ----------------------------
(***************************************************************************)
(* Documents of the API server, src/src/api: the LRU of resident trees     *)
(* over the JSON files (stores.py), the import of an uploaded file, and    *)
(* the handlers and the translation thread that hold a document across an  *)
(* await and save it (app.py).                                             *)
(*                                                                         *)
(* Of a document's content the model keeps how far it has come: "raw" is   *)
(* the adapter's output, "analyzed" what the pipeline made of it, "error"  *)
(* the stand-in for a failed import.  A reference to a tree is that, or    *)
(* "own": the very tree a running import is working on.                    *)
(*                                                                         *)
(* Handlers share the event loop, so an action is what runs between two    *)
(* awaits, except that _persist_doc is cut in two where the file is open:  *)
(* the translation thread and a crash do not wait for the loop.            *)
(***************************************************************************)
EXTENDS Naturals, Sequences, FiniteSets, SequencesExt

CONSTANTS
  Job,          \* job ids; an id is used for one upload (uuid4)
  Editor,       \* requests that read a document, await, change it and save it
  Translation,  \* requests of translate/start, with the run each may start
  MaxResident,  \* KAE_DOCS_CACHE_SIZE
  None

Kind == {"raw", "analyzed", "error"}
Saved == [kind : Kind, analyzed : BOOLEAN]

\* No file, and a file no JSON can be read from.
Absent == [kind |-> "absent", analyzed |-> FALSE]
Torn == [kind |-> "torn", analyzed |-> FALSE]

(***************************************************************************)
(* parse: the adapter runs.  saveraw, savedone: in _persist_doc.  analyze: *)
(* the pipeline runs in a thread.                                          *)
(***************************************************************************)
Task == {"none", "parse", "saveraw", "analyze", "savedone"}

\* start: awaiting translation_targets.  run: translating.  snap: the tree is
\* serialized.  write: the file is open.
Run == {"idle", "start", "run", "snap", "write"}

Holder == Editor \cup Translation
Ref == Kind \cup {"own"}
Writer == {"text", "import", "skill"} \cup Editor
Writing == [by : Writer, job : Job, what : Saved]

ASSUME StoreAssumption ==
  /\ MaxResident \in Nat \ {0}
  /\ Editor \cap (Translation \cup {"text", "import", "skill"}) = {}
  /\ None \notin Job \cup Ref \cup Writing

VARIABLES
  fresh,              \* ids not used yet
  status,             \* job records; "none": no record
  interrupted,        \* interrupted_imports
  lru, copy,          \* DocStore._resident: its keys, oldest first, and its trees
  file,               \* the JSON file of each job: Absent, Torn or what it says
  task,               \* the import of each job
  held, job,          \* per editor and translation: the tree it holds, and whose it is
  translating,        \* translation_runs: jobs a run is registered for
  run, snapshot,      \* per translation: its thread, and what it has serialized
  loop,               \* the _persist_doc the event loop is in, or None
  mixed,              \* files opened by two writers at a time
  unlinked,           \* threads whose open file has been deleted
  imported, peeked,   \* history: imports that saved their result; jobs whose tree was
                      \* read back from the file while their import was analyzing it;
  disowned            \* imports that failed after they had saved their result

store == <<lru, copy>>
holders == <<held, job>>
threads == <<translating, run, snapshot>>
open == <<mixed, unlinked>>
history == <<imported, peeked, disowned>>
vars == <<fresh, status, interrupted, store, file, task, holders, threads, loop, open, history>>

TypeOK ==
  /\ fresh \in SUBSET Job
  /\ status \in [Job -> {"none", "running", "failed", "completed"}]
  /\ interrupted \in SUBSET Job
  /\ lru \in Seq(Job) /\ IsInjective(lru) /\ Len(lru) <= MaxResident
  /\ copy \in [Job -> Ref \cup {None}]
  /\ \A j \in Job : copy[j] # None <=> j \in ToSet(lru)
  /\ file \in [Job -> {Absent, Torn} \cup Saved]
  /\ task \in [Job -> Task]
  /\ held \in [Holder -> Ref \cup {None}]
  /\ job \in [Holder -> Job \cup {None}]
  /\ translating \in SUBSET Job
  /\ run \in [Translation -> Run]
  /\ snapshot \in [Translation -> Kind \cup {None}]
  /\ loop \in {None} \cup Writing
  /\ mixed \in SUBSET Job
  /\ unlinked \subseteq {t \in Translation : run[t] = "write"}
  /\ imported \in SUBSET Job /\ peeked \in SUBSET Job /\ disowned \in SUBSET imported

Init ==
  /\ fresh = Job
  /\ status = [j \in Job |-> "none"]
  /\ interrupted = {}
  /\ lru = <<>> /\ copy = [j \in Job |-> None]
  /\ file = [j \in Job |-> Absent]
  /\ task = [j \in Job |-> "none"]
  /\ held = [h \in Holder |-> None] /\ job = [h \in Holder |-> None]
  /\ translating = {}
  /\ run = [t \in Translation |-> "idle"] /\ snapshot = [t \in Translation |-> None]
  /\ loop = None /\ mixed = {} /\ unlinked = {}
  /\ imported = {} /\ peeked = {} /\ disowned = {}

-----------------------------------------------------------------------------
(* DocStore *)

Whole(j) == file[j] \in Saved

Resident(j) == copy[j] # None

\* _keep: the tree becomes the newest entry, the oldest ones past the limit go.
Keep(j, tree) ==
  LET order == Append(RemoveFirst(lru, j), j)
      kept == IF Len(order) > MaxResident THEN Tail(order) ELSE order
  IN  /\ lru' = kept
      /\ copy' = [i \in Job |-> IF i = j THEN tree
                                ELSE IF i \in ToSet(kept) THEN copy[i] ELSE None]

\* What get(j) returns: the resident tree or a new one built from the file.
Found(j) == IF Resident(j) THEN copy[j] ELSE file[j].kind

\* get(j), when there is something to get.
Get(j) ==
  /\ Resident(j) \/ Whole(j)
  /\ Keep(j, Found(j))
  /\ peeked' = IF ~Resident(j) /\ task[j] = "analyze" THEN peeked \cup {j} ELSE peeked
  /\ UNCHANGED <<imported, disowned>>

-----------------------------------------------------------------------------
(* _persist_doc *)

LoopFree == loop = None

ThreadWrites(t, j) == run[t] = "write" /\ job[t] = j /\ t \notin unlinked

ThreadInside(j) == \E t \in Translation : ThreadWrites(t, j)

\* `open(path, "w")` empties the file; it is mixed if another writer has it open.
OpenFile(j) ==
  /\ file' = [file EXCEPT ![j] = Torn]
  /\ mixed' = IF \/ loop # None /\ loop.job = j
                 \/ ThreadInside(j)
              THEN mixed \cup {j} ELSE mixed

\* The event loop serializes `tree` and opens the file; nothing else runs on it.
LoopSaves(by, j, tree, analyzed) ==
  /\ LoopFree
  /\ loop' = [by |-> by, job |-> j,
              what |-> [kind |-> IF tree = "own" THEN "raw" ELSE tree, analyzed |-> analyzed]]
  /\ OpenFile(j)
  /\ UNCHANGED unlinked

\* A writer is done; of a file two wrote at a time, either's text or a mixture of
\* both remains.  The last of them closes it.
CloseFile(j, what, others) ==
  /\ \/ file' = [file EXCEPT ![j] = what]
     \/ j \in mixed /\ file' = [file EXCEPT ![j] = Torn]
  /\ mixed' = IF others THEN mixed ELSE mixed \ {j}

\* json.dump raises, on a full disk or at a value it cannot write: the file stays
\* as `open` and the other writer left it.
BreakOff(j, others) ==
  /\ UNCHANGED file \/ (j \in mixed /\ file' = [file EXCEPT ![j] = Torn])
  /\ mixed' = IF others THEN mixed ELSE mixed \ {j}

LoopCloses(by) ==
  /\ loop # None /\ loop.by = by
  /\ loop' = None
  /\ CloseFile(loop.job, loop.what, ThreadInside(loop.job))
  /\ UNCHANGED unlinked

LoopBreaksOff(by) ==
  /\ loop # None /\ loop.by = by
  /\ loop' = None
  /\ BreakOff(loop.job, ThreadInside(loop.job))
  /\ UNCHANGED unlinked

-----------------------------------------------------------------------------
(* Uploads and imports *)

\* A file an adapter takes: the import runs in the background.
Upload(j) ==
  /\ LoopFree /\ j \in fresh
  /\ fresh' = fresh \ {j}
  /\ status' = [status EXCEPT ![j] = "running"]
  /\ task' = [task EXCEPT ![j] = "parse"]
  /\ UNCHANGED <<interrupted, store, file, holders, threads, loop, open, history>>

\* A text is saved first and analyzed afterwards, the loop being blocked throughout.
UploadText(j) ==
  /\ j \in fresh
  /\ fresh' = fresh \ {j}
  /\ Keep(j, "raw")
  /\ LoopSaves("text", j, "raw", TRUE)
  /\ UNCHANGED <<status, interrupted, task, holders, threads, history>>

TextDone ==
  /\ LoopCloses("text")
  /\ copy' = [copy EXCEPT ![loop.job] = "analyzed"]
  /\ status' = [status EXCEPT ![loop.job] = "completed"]
  /\ UNCHANGED <<fresh, interrupted, lru, task, holders, threads, history>>

\* The save or the analysis raises: the request answers an error, the tree stays.
TextFails ==
  /\ LoopCloses("text") \/ LoopBreaksOff("text")
  /\ UNCHANGED <<fresh, status, interrupted, store, task, holders, threads, history>>

\* The adapter is done: the raw tree goes to the store and to the disk.
Parsed(j) ==
  /\ task[j] = "parse"
  /\ task' = [task EXCEPT ![j] = "saveraw"]
  /\ Keep(j, "own")
  /\ LoopSaves("import", j, "own", FALSE)
  /\ UNCHANGED <<fresh, status, interrupted, holders, threads, history>>

RawSaved(j) ==
  /\ task[j] = "saveraw"
  /\ LoopCloses("import")
  /\ task' = [task EXCEPT ![j] = "analyze"]
  /\ UNCHANGED <<fresh, status, interrupted, store, holders, threads, history>>

\* Fault: the job is completed before the analyzed tree is saved.
AnalyzedEarly(j) ==
  /\ task[j] = "analyze" /\ LoopFree
  /\ task' = [task EXCEPT ![j] = "none"]
  /\ copy' = [copy EXCEPT ![j] = IF @ = "own" THEN "analyzed" ELSE @]
  /\ status' = [status EXCEPT ![j] = "completed"]
  /\ imported' = imported \cup {j}
  /\ UNCHANGED <<fresh, interrupted, lru, file, holders, threads, loop, open, peeked, disowned>>

\* The pipeline returns; its tree, resident or not, is saved as analyzed.
Analyzed(j) ==
  /\ task[j] = "analyze"
  /\ task' = [task EXCEPT ![j] = "savedone"]
  /\ LoopSaves("import", j, "analyzed", TRUE)
  /\ copy' = [copy EXCEPT ![j] = IF @ = "own" THEN "analyzed" ELSE @]
  /\ UNCHANGED <<fresh, status, interrupted, lru, holders, threads, history>>

\* It is saved, the audit log has both its records and the job is completed.
Completed(j) ==
  /\ task[j] = "savedone"
  /\ LoopCloses("import")
  /\ task' = [task EXCEPT ![j] = "none"]
  /\ status' = [status EXCEPT ![j] = "completed"]
  /\ imported' = imported \cup {j}
  /\ UNCHANGED <<fresh, interrupted, store, holders, threads, peeked, disowned>>

\* Fault: a failed import leaves its job running.
FailSilently(j) ==
  /\ task' = [task EXCEPT ![j] = "none"]
  /\ Keep(j, "error")
  /\ UNCHANGED status

\* The except branch: an error document takes the place of the tree in the store,
\* not of the file.
Fail(j) ==
  /\ task' = [task EXCEPT ![j] = "none"]
  /\ Keep(j, "error")
  /\ status' = [status EXCEPT ![j] = "failed"]

\* The adapter or the pipeline raises, or the save does before it opens the file.
ImportFails(j) ==
  /\ LoopFree /\ task[j] \in {"parse", "analyze"}
  /\ Fail(j)
  /\ UNCHANGED <<fresh, interrupted, file, holders, threads, loop, open, history>>

\* A save of the import is cut short.
SaveFails(j) ==
  /\ task[j] \in {"saveraw", "savedone"}
  /\ LoopBreaksOff("import")
  /\ Fail(j)
  /\ UNCHANGED <<fresh, interrupted, holders, threads, history>>

\* The result is saved, but the audit log cannot be written: the import fails with
\* its result in the file and the error document in the store.
LogFails(j) ==
  /\ task[j] = "savedone"
  /\ LoopCloses("import")
  /\ Fail(j)
  /\ imported' = imported \cup {j} /\ disowned' = disowned \cup {j}
  /\ UNCHANGED <<fresh, interrupted, holders, threads, peeked>>

\* A file of a SEP provider cannot be fetched: the job fails without a document.
FetchFails(j) ==
  /\ LoopFree /\ task[j] = "parse"
  /\ task' = [task EXCEPT ![j] = "none"]
  /\ status' = [status EXCEPT ![j] = "failed"]
  /\ UNCHANGED <<fresh, interrupted, store, file, holders, threads, loop, open, history>>

-----------------------------------------------------------------------------
(* Requests *)

\* Fault: a running import is not looked at.
SettledAnyway(j) == j \notin interrupted

\* _settled_doc does not answer 409.
Settled(j) == status[j] # "running" /\ j \notin interrupted

Hold(h, j) ==
  /\ LoopFree /\ held[h] = None
  /\ Settled(j) /\ Get(j)
  /\ held' = [held EXCEPT ![h] = Found(j)]
  /\ job' = [job EXCEPT ![h] = j]

Drop(h) ==
  /\ held' = [held EXCEPT ![h] = None]
  /\ job' = [job EXCEPT ![h] = None]

\* A handler that changes a document takes it, ...
Open(e, j) ==
  /\ Hold(e, j)
  /\ UNCHANGED <<fresh, status, interrupted, file, task, threads, loop, open>>

\* ... gives up after an await, ...
GiveUp(e) ==
  /\ LoopFree /\ held[e] # None
  /\ Drop(e)
  /\ UNCHANGED <<fresh, status, interrupted, store, file, task, threads, loop, open, history>>

\* ... or changes the tree it took and saves it.
Commit(e) ==
  /\ held[e] # None
  /\ LoopSaves(e, job[e], held[e], TRUE)
  /\ UNCHANGED <<fresh, status, interrupted, store, task, holders, threads, history>>

\* The save over, or cut short and the answer an error.
Committed(e) ==
  /\ LoopCloses(e) \/ LoopBreaksOff(e)
  /\ Drop(e)
  /\ UNCHANGED <<fresh, status, interrupted, store, task, threads, history>>

\* A reader that does not ask whether the import is over: the list of documents,
\* the search for the node of a correction, a page image.
Peek(j) ==
  /\ LoopFree /\ Get(j)
  /\ UNCHANGED <<fresh, status, interrupted, file, task, holders, threads, loop, open>>

\* Activating a skill does not ask either, and saves what it finds.
ActivateSkill(j) ==
  /\ Get(j)
  /\ LoopSaves("skill", j, Found(j), TRUE)
  /\ UNCHANGED <<fresh, status, interrupted, task, holders, threads>>

SkillSaved ==
  /\ LoopCloses("skill") \/ LoopBreaksOff("skill")
  /\ UNCHANGED <<fresh, status, interrupted, store, task, holders, threads, history>>

\* A thread that has the file open writes on, to a file nobody can open any more.
Delete(j) ==
  /\ LoopFree /\ (Resident(j) \/ file[j] # Absent)
  /\ interrupted' = interrupted \ {j}
  /\ lru' = RemoveFirst(lru, j)
  /\ copy' = [copy EXCEPT ![j] = None]
  /\ file' = [file EXCEPT ![j] = Absent]
  /\ mixed' = mixed \ {j}
  /\ unlinked' = unlinked \cup {t \in Translation : ThreadWrites(t, j)}
  /\ UNCHANGED <<fresh, status, task, holders, threads, loop, history>>

-----------------------------------------------------------------------------
(* Translation runs *)

\* One that awaits its targets is not registered yet, and does not look again.
StartTranslation(t, j) ==
  /\ Hold(t, j)
  /\ j \notin translating
  /\ run' = [run EXCEPT ![t] = "start"]
  /\ UNCHANGED <<fresh, status, interrupted, file, task, translating, snapshot, loop, open>>

\* The targets are known and the thread starts, or there are none.
Launch(t) ==
  /\ LoopFree /\ run[t] = "start"
  /\ \/ /\ run' = [run EXCEPT ![t] = "run"]
        /\ translating' = translating \cup {job[t]}
        /\ UNCHANGED holders
     \/ /\ run' = [run EXCEPT ![t] = "idle"]
        /\ Drop(t)
        /\ UNCHANGED translating
  /\ UNCHANGED <<fresh, status, interrupted, store, file, task, snapshot, loop, open, history>>

\* _save in the thread: serialize, then write, whatever the loop does meanwhile.
Snapshot(t) ==
  /\ run[t] = "run"
  /\ run' = [run EXCEPT ![t] = "snap"]
  /\ snapshot' = [snapshot EXCEPT ![t] = IF held[t] = "own" THEN "raw" ELSE held[t]]
  /\ UNCHANGED <<fresh, status, interrupted, store, file, task, holders, translating, loop, open, history>>

ThreadOpens(t) ==
  /\ run[t] = "snap"
  /\ run' = [run EXCEPT ![t] = "write"]
  /\ OpenFile(job[t])
  /\ UNCHANGED <<fresh, status, interrupted, store, task, holders, translating, snapshot, loop,
                 unlinked, history>>

\* The save is over or cut short; the run goes on, or this was its last one.
ThreadCloses(t) ==
  /\ run[t] = "write"
  /\ IF t \in unlinked THEN UNCHANGED <<file, mixed>>
     ELSE LET others == \/ loop # None /\ loop.job = job[t]
                        \/ \E x \in Translation \ {t} : ThreadWrites(x, job[t])
          IN  \/ CloseFile(job[t], [kind |-> snapshot[t], analyzed |-> TRUE], others)
              \/ BreakOff(job[t], others)
  /\ unlinked' = unlinked \ {t}
  /\ snapshot' = [snapshot EXCEPT ![t] = None]
  /\ \/ run' = [run EXCEPT ![t] = "run"] /\ UNCHANGED <<translating, holders>>
     \/ /\ run' = [run EXCEPT ![t] = "idle"]
        /\ translating' = translating \ {job[t]}
        /\ Drop(t)
  /\ UNCHANGED <<fresh, status, interrupted, store, task, loop, history>>

-----------------------------------------------------------------------------
(* Crash and restart *)

MemoryIsLost ==
  /\ lru' = <<>> /\ copy' = [j \in Job |-> None]
  /\ task' = [j \in Job |-> "none"]
  /\ held' = [h \in Holder |-> None] /\ job' = [h \in Holder |-> None]
  /\ translating' = {}
  /\ run' = [t \in Translation |-> "idle"] /\ snapshot' = [t \in Translation |-> None]
  /\ loop' = None /\ mixed' = {} /\ unlinked' = {}

\* The server stops at any moment; _load_persisted_docs makes the records anew.
Restart ==
  /\ MemoryIsLost
  /\ status' = [j \in Job |-> IF ~Whole(j) THEN "none"
                              ELSE IF file[j].analyzed THEN "completed" ELSE "failed"]
  /\ interrupted' = {j \in Job : Whole(j) /\ ~file[j].analyzed}
  /\ UNCHANGED <<fresh, file, history>>

-----------------------------------------------------------------------------
Import(j) == Parsed(j) \/ RawSaved(j) \/ Analyzed(j) \/ Completed(j)
             \/ ImportFails(j) \/ SaveFails(j) \/ LogFails(j) \/ FetchFails(j)

Edit(e) == (\E j \in Job : Open(e, j)) \/ GiveUp(e) \/ Commit(e) \/ Committed(e)

Translate(t) ==
  \/ \E j \in Job : StartTranslation(t, j)
  \/ Launch(t) \/ Snapshot(t) \/ ThreadOpens(t) \/ ThreadCloses(t)

Next ==
  \/ \E j \in Job : \/ Upload(j) \/ UploadText(j) \/ Import(j)
                    \/ Peek(j) \/ ActivateSkill(j) \/ Delete(j)
  \/ \E e \in Editor : Edit(e)
  \/ \E t \in Translation : Translate(t)
  \/ TextDone \/ TextFails \/ SkillSaved
  \/ Restart

Spec == Init /\ [][Next]_vars

(***************************************************************************)
(* A save ends, and adapter and pipeline return.  What waits for the event *)
(* loop gets it: asyncio runs callbacks in the order they became ready.    *)
(***************************************************************************)
FairSpec ==
  /\ Spec
  /\ WF_vars(TextDone) /\ WF_vars(SkillSaved)
  /\ \A e \in Editor : WF_vars(Committed(e))
  /\ \A j \in Job : SF_vars(Import(j))

-----------------------------------------------------------------------------
(* Correctness *)

\* No handler that asks _settled_doc, and no translation, ever holds the tree an
\* import is working on, through evictions, deletions and restarts.
ImportIsPrivate == \A h \in Holder : held[h] # "own"

\* What an import saved stands in the file until the document is deleted, whatever
\* is saved, evicted or cut short after it.  Two things can undo it, besides a torn
\* write: a tree read back from the file in the middle of the import by a reader
\* that does not ask _settled_doc, and the error document of an import that failed
\* once its result was in the file, when an editor saves it.
OnlyAPeekOrAFailureUndoesAnImport ==
  \A j \in imported \ peeked :
    Whole(j) => /\ file[j].analyzed
                /\ \/ file[j].kind = "analyzed"
                   \/ j \in disowned /\ file[j].kind = "error"

\* app.py:1139, "the restart must not take it for a finished document", and the
\* docstring of _settled_doc, which tells of an editor that took the adapter's
\* output for the finished result: what an import saved is not replaced by the
\* adapter's output.
ImportedStaysAnalyzed ==
  \A j \in imported : Whole(j) => file[j].kind # "raw"

\* Every import ends, and its job with it: no job answers 409 for ever.
ImportsEnd == \A j \in Job : status[j] = "running" ~> status[j] # "running"
=============================================================================

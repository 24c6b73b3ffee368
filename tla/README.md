# A verification of BookAssembler in TLA+

BookAssembler turns scanned books into structured documents. A FastAPI server imports
a file through an adapter, runs some forty analyzers over the resulting tree (the KRM),
keeps the trees in memory and on disk, has pages recognised and translated by models that
run on other machines, and sets the book again with LaTeX. Those machines are *agents*: a
small Manager that is always up, and a GPU Runner that the Manager starts on demand and
that stops itself.

This directory holds a model of the parts where order, interleaving, failure and the
interplay of many passes over one tree decide whether the result is right, TLC
configurations that check the model on small instances, and proofs checked by TLAPS.
Paths below are those of the repository; lines in the text are of the commit the model was
written from.

    tlc -config MCScheduler.cfg MCScheduler      model-check one instance
    tlapm InferGateProofs.tla                    check the proofs of one module

`PROJECT.json` lists components, runs, faults the properties catch ("mutants"), the lines
each definition stands for, hazards and theorems. Definitions whose comment begins with
`Fault:` are plausible bugs kept beside what they break; no run uses them.

## 1. Inventory

| Component | State | Operations | What is hard |
|---|---|---|---|
| Slot scheduler (`agents/manager/scheduler.py`) | waiters, slots held per class | acquire, release, cancel, promote | a hang-up between grant and resumption; reserve, ageing and arrival decide together |
| Runner lifecycle (`agents/manager/orchestrator.py`, `state.py`, request path of `app.py`) | status, URL, error count, meter, start lock | ensure_ready, start, wait loop, announce, shutdown, cooldown | every step awaits; announces and several requests write one status; the Runner dies |
| `/infer` gate (`agents/manager/app.py`) | requests in, bulk seconds used | admit, refuse, wait for a slot, settle | three counters that must agree through hang-ups |
| Model pool (`agents/runner/pool.py`) | loaded models, LRU, two locks | load, evict, infer, time out | what one lock establishes ends before the other is taken; a thread cannot be cancelled |
| Translation job (`assembler/translator.py`) | queue, in_flight, counters, document, stop event | take, call, record, put back, give up, leave | threads interleave at every access; termination is decided from shared counts |
| Document store and imports (`api/stores.py`, `api/app.py`) | LRU of trees, JSON files, job records, interrupted imports | upload, import, hold and save, delete, translate, restart | a tree evicted and re-read is a different tree; two writers of a file; crash between two saves |
| Edits of a finished document (`api/app.py`, `hitl/manager.py`) | trees in hand, the file, the page as it reads | page and table agent, node edit, skill, correction, translation | an agent is awaited with the tree in hand; several edits of one page; half-written corrections |
| Audit log (`audit/logger.py`) | head of a hash chain, a file | append, restart, verify | the head moves before the write; torn lines |
| Source adapters (`adapters/*`) | stack of containers, open item, cell, paragraph, fence | an event of the source: line, paragraph, tag, block | registers shared by elements that nest; what is held back must be flushed |
| Analyzer pipeline (`analyzers/pipeline.py`, `base.py`) | tree, two graphs, snapshot, failures | execute, run, verify, calibrate, record, restore | three structures to bring back at once; permissions are checked after the fact; re-execution |
| Analyzers (`analyzers/*`) | none between runs | split, wrap, merge, move, tombstone, annotate | each takes the tree as the earlier ones, or a failure of one, left it; the same tree is analyzed again |
| KRM and its file (`krm/*`, codec in `api/app.py`) | the tree | identities, walks, save, rebuild | the file keeps less than the tree; identities are derived again |
| Assembler (`assembler/latex_builder.py`, `page_assembler.py`, units in `translator.py`) | none | linear book, pages of four layouts, translated book | a word must come once and somewhere, whatever the tree has become; a unit goes over pages |
| Reading Graph (`graph/reading_graph.py`, `analyzers/reading_order/`) | steps per track | add_step, heads, get_sequence | a cycle built by several analyzers |
| Chunker (`ai_layer/chunker.py`) | none (a function of tree and graph) | build_chunks | graph and tree disagree |
| Runner process (`agents/runner/`) | idle clock, readiness | warm-up, announce, watchdog, shutdown | environment of the lifecycle; own interleavings not modelled yet |
| Agent routing (`agents/router.py`, `tasks.py`) | probe cache | choose, call, retry on timeout | stateless; its results are inputs of the translation job |
| Knowledge Graph (`graph/knowledge_graph.py`) | entities, edges | add_entity, add_edge | sequential; entered as a set that grows |
| Plugins (`plugins/`) | a delta | validate, apply, sandbox, sign | partial application (planned) |
| Jobs and events (`jobs/`) | job records, subscriber queues | publish, subscribe | queues that drop (planned) |
| Artifacts, build lock, provenance, calibration, security | files and tables | sequential helpers | not modelled |
| Drawings, storage providers, connectors, exporter, evaluation, benchmark, skills, front end | | image work, I/O, data formats, user interface | not modelled |

How they interact: the server's handlers call the *translation job* (threads) and the
*pipeline* (an executor thread) over trees from the *document store*; the pipeline gives
what an *adapter* read to the *analyzers* one after the other; a translation worker
calls an agent, that is the *gate*, which waits in the *scheduler* and then runs the
*Runner lifecycle* for its slot; the Runner answers from its *model pool*; *edits* take a
finished tree, save it and write the *audit log*; *assembler* and *chunker* read the tree
(and the Reading Graph) of a finished import, in memory or rebuilt from its *file*.

What makes each component correct:

- **Scheduler**: every slot counted once and given back once; bulk leaves one slot free;
  nobody who may start waits; grants follow class, age, arrival; urgent requests are served.
- **Lifecycle**: the meter follows the status; every request ends; a Runner that answers is
  seen; a dead one is replaced (it is not, see 6).
- **Gate**: the gate's count covers the scheduler's requests; the bulk budget is overshot by
  a bounded amount; the scheduler is used as it expects.
- **Pool**: VRAM over budget only for one model alone; requests end; the model is there when
  the request's turn comes (it is not always, see 6).
- **Translation**: no unit lost, doubled, or abandoned; counts equal what the document holds;
  the job ends; the threads implement a work list.
- **Documents**: nobody is served a tree while an import works on it; what an import saved is
  not undone (but for two paths, see 6); every import ends.
- **Edits and audit**: a page says each word once however it was edited; an edit that was
  answered is in the file unless a named race lost it; every edit in the file has a record, or
  a failure that the log shows explains why not.
- **Adapters**: the words of the source once, in order, in the structure it declares.
- **Pipeline, graphs, chunks**: an analyzer is a transaction; no track cyclic; no block
  calibrated twice; chunks hold the live text once, in order and within limits.
- **Analyzers**: whatever runs, fails or runs again, each word of the source stays, once and
  in order; the tree nests; identities are unique; what one block says of another holds.
- **Assembler**: each word left in the tree is in the book, once, in the source or in the target
  language.

## 2. Modules

    Scheduler <- MCScheduler
        ^ EXTENDS
    InferGate <- MCInferGate                                         InferGateProofs (of both)
    RunnerLifecycle                                                  RunnerLifecycleProofs
    ModelPool <- MCModelPool                                         ModelPoolProofs
    WorkList <-(implements)- TranslateJob <- MCTranslateJob          TranslateJobProofs
    DocumentStore                                                    DocumentStoreProofs
    AuditLog <- DocumentEdits <- MCDocumentEdits                     DocumentEditsProofs
    SourceTree <- TextReaders, DocxReader, PdfReader <- Sources <- MCSources  SourcesProofs
    ReadingGraph <- KrmTree <- Pipeline <- Chunker <- MCPipeline     PipelineProofs
                       ^----- AnalyzerContract <-(implements)- Pipeline
    Blocks <- TextAnalyzers, PageAnalyzers <- Contents, FinalAnalyzers
           <- TableRows <- TableDetector (with FinalAnalyzers), LatexBuilder
           <- DocumentCodec, TranslationUnits            all <- DefaultPipeline <- MCAnalyzers

A module `MC...` gives the constants values that a `.cfg` cannot write down (functions, symmetry);
RunnerLifecycle and DocumentStore need none and have their `.cfg` alone.

**Scheduler** (`scheduler.py`). `st[r]` is where request `r` is: in `_waiting` (queued),
taken off with its event set (granted), or past `acquire` (running). `ahead[r]` replaces the
sequence number: who was queued when `r` came. `steps[r]` counts whole ageing windows.
`inFlight` is the code's counter per class, kept beside `st` so that they can disagree. Each
method runs under one lock that is never held across a suspension, so `Acquire`, `Resume`,
`Release`, `Cancel` (whose three cases are a queued, a granted and a running waiter) and `Age`
are whole actions, the trailing `_promote` included. The set `_promote` admits is written in
closed form; `LoopAdmits` is the loop itself and `LoopAgrees` compares them, from
unreachable slot counts too. INTERACTIVE work ages to class `max(BLOCKING, 0) = 1` in the
code, and does so here.

**RunnerLifecycle** (`orchestrator.py`, `state.py`, `app.py`). An action is what runs
between two awaits that suspend: probe, start, inference, `/shutdown`, the sleeps. `pc[s]`
is the control point of the request in slot `s`, `cli[s]` the URL of its client, `starter`
the holder of `_starting_lock`, `probing` the URLs whose announce handler awaits its
optimistic probe, `run[u]` the process behind a URL, `launched` a start whose process has
not booted. `sinceStamp` is time since `last_start`, cut at the restart interval.

**InferGate** composes the gate with the scheduler (EXTENDS Scheduler; its own specification is
`GateSpec`): a request that passes the gate enters `Acquire` in the same action because
nothing suspends in between; what it does with its slot takes some seconds
(`0..MaxSeconds`). `SchedulerProtocolKept` says that the composition uses the scheduler only by
its own actions.

**ModelPool** (`pool.py` and the request path of `runner/app.py`). `_lock` and `_infer_lock`
have holders; a timeout leaves an `orphan`, a thread that goes on generating. Lock waiters
are taken in any order (asyncio's locks are FIFO: more behaviours than the code has, none
that the properties hold by). `Resident`, the VRAM that counts, leaves out a model that
only an orphan uses, as the code does.

**WorkList**, **TranslateJob** (`translate_document`). A worker is a thread; its control
points lie between any two accesses of what threads share. `stats.done` and `stats.failed` are
sets here, the code's counters being their sizes. `WorkList` is the promise without
threads, and `ImplementsWorkList` the refinement.

**DocumentStore** (`stores.py`, `app.py`). Of a tree the model keeps how far it has come (raw,
analyzed, error) and whether it is the very object an import works on ("own"). `lru`, `copy`
are the `OrderedDict`, `file` the JSON of each job, `_persist_doc` is cut in two where the
file is open, since a crash and the translation thread do not wait for the event loop.
`held` is a tree a handler keeps across an await. An import may fail in its parser or analyzers, in
either save, or in the audit log after the second (`ImportFails`, `SaveFails`, `LogFails`): the except branch puts an
error document into the store and touches no file. `peeked`, `imported` and `disowned` are history.

**AuditLog** (`audit/logger.py`) is the chain and the file as lines, a line being what lies
between two newlines: a write may raise, a crash may tear it, and the next process goes on
behind the torn piece. `ReadableIn` is the set of the lines the next process can read, and it goes
on from the last of them. **DocumentEdits** is who changes a finished document. A request goes
through the handler it is (`kind`) from await to await (`stage`), with the tree it took (`held`)
and the blocks it means to replace; `trees` are the copies in memory, one of them `resident`,
`file` what was last written. Nothing of another handler comes between a save and its record,
but the translation thread and a crash do. `history` keeps what was answered, lost and left
without a record, and why.

**SourceTree** is the stack of containers the adapters share (`_shared.py`), popped from its top. **TextReaders**
(Markdown, plain text, notebooks, HTML), **DocxReader** and **PdfReader** each read
one event of a source; **Sources** lets the environment produce any source event by event,
HTML closed in order, its quotations, figure captions, items and
cells holding whatever a page holds (`Inside`). Words are the numbers of the events
they came from, so that a doubled, lost or displaced word shows.

**ReadingGraph** is the list of steps; the code's adjacency maps are indexes of it.
`HasPath(E, from, to)` is what the breadth-first search decides, stated as "`to` is in every
closed set that holds `from`". **KrmTree** is the tree as the pipeline sees it (class,
tombstone, marks), what a manifest permits, and the steps ReadingOrderAnalyzer derives.
**Pipeline** is `PipelineRunner.execute`: `Begin` takes the snapshot; `Succeeds`, `Fails`,
`Refused`, `Denied` are its ends. An analyzer is any sequence of changes: blocks are inserted,
split, deleted, rebuilt under their id, tombstoned or (illegally) brought back, and graph
calls made as the proxies allow. Whether that was permitted is only found out afterwards, as
in the code. ReadingOrderAnalyzer alone is spelled out, step by step. `Execute` may run again
over an analyzed document, as the graph endpoint does after a restart. **AnalyzerContract** is
RFC 0005 as an abstract specification: start, commit, fail, abort, end. **Chunker** is
`build_chunks` as a function of the state; what a block's containers are to it is the list of their titles
(`container_path`), so that sections of one title are one section. The loops of the graph, the reading order and the chunker are
recursive functions over an index (`At`, `Kept` for those that filter), because the prover sees through
those and not through folds and `SelectSeq`; `FlowAssumption` says of the constants what the code has: a block
stands in the document once, ReadingOrderAnalyzer in a pipeline once, and captions and footnotes do not go to the main flow.

**Blocks** is the document the analyzers work on: a tree of containers with blocks, a block
with lines or parts, metadata as the dictionary it is. A line is its words (a number that is
that word's alone) with what the patterns of the analyzers tell of it: the marker or label it
opens with, the heading it could be, what it reads as, its box, the number and page it names.
So the text heuristics are attributes of a line, and what the analyzers *do* with them is
spelled out. **TextAnalyzers** are those that judge a block by its own text (scan noise, lists,
formulas, theorems, definitions, callouts, footnotes, bibliography, algorithms, index);
**PageAnalyzers** those that need the page, the neighbours or an agent (OCR, printed lines,
order of a page, fonts, running heads, headings); **Contents** reads a list of contents off
the lines of its pages, page after page, folds the blocks that were read whole, and later links
entries to headings and, through the numbers printed on margins, to pages; **TableRows** and
**TableDetector** put lines into rows and cells, find tables of blocks in rows, of one block and
of labels, fold stray rows in, merge adjacent tables and take what stands in one frame;
**FinalAnalyzers** are title and blank pages, the page agent, captions, the two model passes, the
resolver of unknown blocks, and the joining of paragraphs.

**DocumentCodec** is what a file keeps of a document and what is rebuilt from it.
**TranslationUnits** is what is translated together and what is stored in which block;
the translation of word *w* is *-w*. **LatexBuilder** gives the words that the
linear book and the pages (four layouts) contain, in order, in the source or in the target
language.

**DefaultPipeline** runs them: an action is one analyzer's turn (`Analyze`; `AskOcr`,
`ReadTables`, `AskPages`, `AskModel`, `AskVision` where an answer comes from outside), `Raises` a
failure that is rolled back, `Finish`, `Reload` (evicted or restarted, and read back), `Again` (the
graph endpoint) and `Translate`. Each analyzer's change is compared with its manifest, as the
runner does. Module *Pipeline* is the same runner with any analyzer at all, and is the one proved
about.

## 3. What the runs check

| Run | Instance | Shows |
|---|---|---|
| `scheduler` | 3 blocking, 1 structural, 2 bulk requests, 2 slots, 1 ageing window | `SlotsKept`, `NobodyLeftBehind`, `LoopAgrees`, `GrantsFollowTheKeys`, `UrgentIsServed` |
| `runner_lifecycle` | 2 slots, 1 URL, unmanaged Runner | `MeterTracksStatus`, `RequestsEnd`, `HealthyRunnerIsSeen` |
| `infer_gate` | 1 blocking, 3 bulk, 2 slots, queue of 3, budget 2 | `GateCoversLive`, `OvershootBounded`, `SchedulerProtocolKept` |
| `model_pool` | 2 requests, 4 models (two fit together, one alone, one not at all) | `OverBudgetOnlyAlone`, `RequestsEnd` |
| `translate_job` | 3 units, 2 workers that may fail anything | `EachUnitInOnePlace`, `NoUnitAbandoned`, `JobEnds`, `ImplementsWorkList` |
| `documents` | 2 jobs, a cache of 1, an editor, a translation thread | `ImportIsPrivate`, `OnlyAPeekOrAFailureUndoesAnImport`, `ImportsEnd` |
| `edits` | 3 requests of any kind, a page of 2 words, 2 restarts | `PageSaidOnce`, `AnsweredEditsKept`, `EditsAreLogged`, `LogIsEvidence` |
| `sources` | every source of up to 3 to 6 events per format, HTML of 4 elements and 2 words (2 926 480 states) | `WordsKept`, `NestingSound`, `StructureAsDeclared` |
| `pipeline` | 3 blocks, 2 tracks, 3 analyzers, 2 executions | `TracksAcyclic`, `CalibratedOnce`, `ChunksSound`, `ChunksFollowTheDocument`, `ImplementsContract` |
| `analyzers` | pairs of 16 kinds of blocks on a scanned page, of 9 on a printed one and across pages, and 32 longer documents (622 811 states) | `NeverRefused`, `WordsOnce`, `TreeSound`, `LinesIntact`, `OrderKept`, `ReferencesHold`, `EveryWordPrinted`, `PagesSetOnce` |
| `runner_dead`, `import_undone` | as above, smaller | one property each that the code does not have (section 6) |

The properties of `analyzers`, each a conjunction of named parts:

- `WordsOnce`: after every turn each word of the source is in a block that is not tombstoned
  (`WordsLive`), and in one (`NoTextTwice`).
- `TreeSound`: types and markers, unique ids, headings that nest by rank, and no unknown block
  left but inside a list or a callout.
- `LinesIntact`: a scanned paragraph's printed record is that of its own lines; a marker or label that
  was cut off stands in the field that takes it, on the block with that line.
- `OrderKept`: words keep their order, but for scanned pages, title pages and the rows of tables, and
  within a cell the lines stand from top to bottom.
- `ReferencesHold`: a paragraph that goes on names the live one before it; captions and targets name
  each other; an entry of the contents names a heading after the contents with its number or
  title, and a page that agrees with the printed numbers; what was translated counts as translated
  in its units, after a restart as well.
- `EveryWordPrinted`: every word left is in the linear book, on the pages, and, translated or not, in
  the book in the target language.
- `PagesSetOnce`: the pages of a document analyzed once say no word twice, in either language.
- `NeverRefused`: no analyzer ever changes what its manifest does not declare.

The exemptions in them are operators with names, and each is a behaviour of the code that
section 6 lists: `NeverSet` (kinds the linear builder has no way to reach), `NeverPlaced` (headings
with nothing to place under them but a bibliography or nothing at all, kinds the positional page drops), `Framed` and `CanBeBuilt` (tables with a stale row span,
or one that raises in the builder), `Described` (contents rows kept only as metadata), `Unfolded`
(blocks that are not contents alone), `LeftInSource`, `Orphaned` (a unit that crosses to a page set from
the source). The models keep these defects; the exemptions say exactly where they reach.

**Bounds, and why they are enough.** *Scheduler*: one blocking identity more than slots, so
newcomers can keep overtaking a structural waiter; two bulk ones could fill both slots;
one ageing window already lifts every class to its floor but the last. *Lifecycle*: two slots
are two requests in every pair of control points; two URLs (a Runner that moves) hold as well
(252 504 states, over three minutes, so not a run). *Gate*: one more request than the gate
lets in. *Pool*: the four models cover fit, exclude, evict-one, evict-none. *Translation*: three
units, so that the queue can be empty while two are in hand and refilled; `MAX_ATTEMPTS = 2`
below `RETIRE_AFTER = 3` keeps their order in the code (3 and 5). *Documents*: a cache of one is
always at its limit; job ids are not reused, hence two imports per behaviour. *Edits*: two
requests race and a third meets what they left; the second restart finds what the first tore.
*Sources*: enough events for every pair of constructs one in the other, with a text
between and after, an element's own text before and behind the block in it; the grids are those where merges go down, across and begin anew. *Pipeline*:
`MaxOps = 1` change per analyzer and two executions, that is up to four changes and six
outcomes; the third block is one only an analyzer can create. Without re-execution two
changes per analyzer hold as well. The safety part of every run but `sources` and `analyzers` does not
depend on bounds: it is proved (section 5), and so are `WordsKept` and `NestingSound` of `sources`.

*Analyzers*: kinds meet in pairs on a scanned page, where most analyzers read blocks (noise, scraps,
imprints and unread blocks only as the first of the two); on a printed page and over a page break the
kinds that depend on the page do (`TextKinds`, `Goes`); the longer documents are those where three or more blocks have to meet (lists over a break,
runs of headings, two figures and two captions, tables with stray, framed, merged and labelled
rows, six lists of contents). `MaxTrouble = 1` gives each execution one failure of any analyzer,
or one repeated execution, or one translation, each followed by a reload or not; `MaxUnits = 4`: of up
to four units any subset is answered for, of more one, all but one, or all. A document is not analyzed
again after a translation, nor translated twice. `MinRepeat` and `TitlePages` have the code's values (2 and 3); `MaxCalls = 1`
vision call for its 20 lets the limit be met.

The announce handler's guard `u \notin probing` (RunnerLifecycle) bounds announces per URL to
one at a time.

**Deadlock** is checked except in `infer_gate` (a leaked gate refuses for ever: the system
does stop), `translate_job` (a finished job), `edits` (every request answered), `sources` (the source is
read), `pipeline` and `analyzers` (after the last execution).

## 4. Fairness

Only what the code's scheduling gives:

- *Scheduler*: a granted coroutine resumes, a running one releases (every caller has a
  time limit and a `finally`), a clock goes on. Arrivals and hang-ups are not fair.
- *RunnerLifecycle*: `Progress(s)`: an await with a time limit returns. Strong fairness of
  `LockHanded` and `WarmupTimeout`: an asyncio lock serves its queue in order, and the
  deadline of the wait loop is a clock's. `BusySpec` adds that requests keep coming, which
  `HealthyRunnerIsSeen` needs because the Manager probes only on behalf of a request.
  `WillingSpec` (for `runner_dead`) gives the code every help: the backend works, the clock
  ticks, a launched Runner boots, warms and announces itself.
- *ModelPool*: threads return; strong fairness for taking a lock that is free again and again (FIFO
  locks).
- *TranslateJob*: every thread keeps running (`WF` of each worker's step), nothing of replies.
- *DocumentStore*: coroutines and the pipeline thread go on, strong fairness of an import's
  step because the event loop is taken by others in between; none of crash or restart.

The other runs check safety only and state no fairness.

## 5. What is proved

For every value of the constants under their `ASSUME`s, with no bound on steps. The assumptions are
about finiteness and range (requests, loaders and slots are finite or numbers, limits are positive,
permissions are permissions) and that values that stand for "nobody" or "nothing" are none of the
things they are beside (`NoUrl`, `None`, the literal "none"; an editor is not called "import", a word is
not a request). Each module proves one inductive invariant, `IInv`, a conjunction of named parts, one
step per action, and the theorems follow from it. Every `IInv` was model-checked before it was proved;
of the sets in it that TLC cannot enumerate (`Content` in DocumentEdits' `TypeOK`) there is the proof alone.

**InferGateProofs**, first of the scheduler — `TypeCorrect`, `CountersAreExact` (`SlotsAccounted`), `WorkConserving`
(`NobodyLeftBehind`), `SlotsBounded` (`ReserveKept`), `SlotsAreKept` (`SlotsKept`, the two together),
`GrantsInOrder` (`GrantsFollowTheKeys`) and `LoopIsWhatIsSpecified` (`LoopAgrees`), for any number of
requests and slots. The inductive invariant says that the counters are the sizes of the
sets of holders and that no queued request may start. The second half is why it is one invariant:
after a cancellation the freed slot keeps it only because the promotion is part of the same action.
The order of grants needs a second one, `Arrivals`: who was there before is a strict order, and the
earlier has aged at least as much; so keys are transitive, and whoever precedes the one of two waiters
precedes the other. `GrantsInOrder` supposes `NoInteractive`: `clamp_priority` (`tasks.py:52-63`) lets
no request of the Manager be INTERACTIVE, and with ageing on `_effective` ranks one with the class below it.
`LoopIsWhatIsSpecified` shows that every other theorem is about the code's loop: a set of waiters has a first
(`FirstOf`), so the closed form describes at most one set (`AdmittedIsUnique`); `TurnOK` holds after every turn, each
of which admits one waiter or finds the queue closed; and after as many turns as there were waiters, the set
taken is the one described. The recursive function of the loop exists by the least number of turns for which
it would not (`TurnsExist`): the induction theorems of the library are out of reach, its theorem that numbers are
well-founded is not.

Then of the gate — `ProtocolKept` (`SchedulerProtocolKept`: the handler implements the scheduler's
specification, step by step), from which the scheduler's theorems hold of the handler without being
proved again (`SlotsAreKeptBehindTheGate`, `WorkConservingBehindTheGate`); `GateTypeCorrect`, `GateIsSafe`
(`GateCoversLive`) and `OvershootIsBounded` (`OvershootBounded`), for any length of the queue and any budget. A request joins
the gate's counter and the scheduler together and leaves both together, but for one that hangs up in
`acquire`, which leaves the scheduler alone: so the gate counts too many or exactly, and the seconds that
bulk work may still add are those of the places it can hold.

**RunnerLifecycleProofs** — `TypeCorrect`, `MeterIsExact` (`MeterTracksStatus`), and two that no run
states: `OneStartAtATime` (no two requests await `backend.start()`) and `CallsHaveAddress` (a probe, an
inference and a `/shutdown` go to a URL that was announced, seeded or hinted, however often
`runner_url` changes meanwhile), for any number of requests and URLs. The meter needs that `set_status`
alone writes the status, the second that `starter` and the control point "starting" are one fact.

**ModelPoolProofs** — `TypeCorrect`, `BudgetIsKept` (`OverBudgetOnlyAlone`) and `OneLoadAtATime`, for any
requests, models, sizes and budget. The sum over the resident models is the library's recursive function on sets; its
first part proves that it exists, is unique and grows by the model that is added, by least
counterexamples. The eviction loop then keeps the sum, the model about to be loaded included, within the
budget or leaves that model alone, and only the holder of `_lock` is in that loop (`LockHeld`).

**DocumentStoreProofs** — `TypeCorrect` (the cache never exceeds `MaxResident`), `ImportsArePrivate`
(`ImportIsPrivate`) and `ImportsStand` (`OnlyAPeekOrAFailureUndoesAnImport`), for any documents, handlers,
translations and any cache. The tree an import works on is handed out only while its job says
"running", and `_settled_doc` asks the job (`ImportsAlone`, `OwnTree`). What an import saved is
undone only by a copy of something else, so the invariant follows every place such a copy can be in:
the store, a handler, a snapshot, a save on its way, the file (`ImportCopies`, `ResultStands`); of an import that
failed once its result was saved, those places may hold the error document as well (`Leavings`), and nothing else.

**DocumentEditsProofs** — `LogStaysEvidence` (`LogIsEvidence`), `PagesSaidOnce` (`PageSaidOnce`),
`AnswersAreKept` (`AnsweredEditsKept`), `EditsHaveRecords` (`EditsAreLogged`) and `TypeCorrect`, for any
number of requests, words, evictions, failed writes and restarts. Of the log the invariant says that
records are numbered as they were made, that where the chain is broken something shows (`GapsShow`), that
what was written whole is readable or inside an unreadable line (`WrittenStands`), one to a line
(`OneToALine`), and that the head in memory is that of the last record made. Of the document: one
tree is in use unless it was forked (`OneTreeInUse`); the file and the thread's snapshot have what the
tree in use had (`FileFollowed`, `SnapshotFollows`); and of each word which blocks say it, dead or
live, so that an answer for a page replaces all that an earlier answer put there (`WordsStand`,
`PagesInHand`).

**TranslateJobProofs** — `TypeCorrect`, `UnitsAreNeverLost` (`EachUnitInOnePlace`),
`CountsMatchTheDocument` (`CountedAsRecorded`), `LimitsAreKept` (`GivenUpAfterMaxAttempts`),
`NothingIsAbandoned` (`NoUnitAbandoned`) and `Refinement` (`ImplementsWorkList`), for any units,
workers, replies and limits. `Places` says where each unit is, `FlightCounted` that `in_flight`
counts the workers that hold one, `Leaving` why a worker has left. `NoUnitAbandoned` is not
inductive: that a worker saw an empty queue says nothing, unless nobody holds a unit that
may go back to it, which is what `in_flight`, lowered only in `finally`, tells.

**PipelineProofs** — `Invariance`, `TypeCorrect`, `NoCycles` (`TracksAcyclic`), `RescaledOnce`
(`CalibratedOnce`), `Refinement` (`ImplementsContract`), `SoundChunks` (`ChunksSound`) and
`ReadingFollowed` (`ChunksFollowTheDocument`), for any documents, analyzers,
permissions, changes and executions. *Acyclic* is stated as "every set of blocks has one
without a successor in it", which for a finite graph is the absence of cycles; then
`OneMoreEdge`, the heart of `NoCycles`, needs no induction: if the search from the target did
not find the source, the blocks it reached split any set into a closed part and a part that
never sees the new step as an edge into it. The invariant needs the snapshot's graph to be
acyclic too (a rollback returns to it), the marker to agree with the count (so that a marked
block is skipped), and `Since`: what the running analyzer has done to the graphs since its
snapshot is appended, in its name, with its permission, and no block names an analyzer that
nobody named then. `Since` is what turns a success into the contract's commit.

The chunker is a function of the state, so its loops are the proof's steps. `UpTo` is the one induction: a
statement about numbers up to a bound that holds of 0 and goes on holding at each step has no least
number of which it fails (the library's theorem that numbers are well-founded). With it
`RecursionExists` gives every loop over an index its defining equation, the `At...`, `Kept...`,
`Distinct...`, `Flatten...` and `Total...` lemmas say what the helpers return, and `TakeKeeps` carries the loop
invariant `Good` through the chunker's loop: what has been taken so far is in the chunks and the
buffer, once and in order, blocks without text aside, and each of those keeps its limits. Nothing is asked of
the graph: `SoundChunks` holds of every tree and graph.

`ReadingFollowed` needs history: its invariant `ReadingInv` says that the graph holds steps of analyzers
that have had their turn (`Begun`, `MadeBy`) and no others, that ReadingOrderAnalyzer, while it runs, has added
the first so many of the steps it derives and not touched the tree, and that once it came last
and was not rolled back (`ReadLast`) all of them stand behind those of the others, derived from the tree as it
now is. It was model-checked on `MCPipeline` before it was proved. If nobody else put a step on the main
flow, those steps are a `Chain` there: `HeadOfChain` and `SequenceOfChain` read it back, one head, and
from it the whole chain, the side tracks notwithstanding (`OffMain`).

**SourcesProofs** — `SourcesNest` (`NestingSound`), for every format, any numbers for levels and
sources of any length. What NestingSound says of a container, that it stands under the nearest shallower
one before it, is about all that came before; the code looks at the stack alone. So the invariant
(`SoundTree`) says what the stack still knows (`Stacked`): the open containers were opened in order, each
deeper than the one it stands in, and for every container that came there is an open one that is not
before it and not deeper. What a heading pops is no shallower than the heading itself, which then takes its
place in that last part. `ContainerStack.open`, `current` and `add` keep it (`OpenedSound`,
`WithCurrentSound`, `AddedSound`), every reader reads an event by those three (`...Carries`, `...Parses`), and
`NestingStep` goes through the events of the six formats.

`SourcesKeepWords` (`WordsKept`): the same sources, and pages of HTML whose elements nest to any depth. The
words of a source that a document does not say yet are somewhere in its reader: `TellsLines` (the paragraph or
the code being read), `TellsList` (the items of a list of a .docx), `TellsPages` (nothing), and for each event a
lemma says that what is written and what is held back, one after the other, are the words of the source up to
it. The parser of HTML holds them in six registers that its tags share. `Held` puts those in the order in which they
will be said: the tree; list by list the items that are closed and the one that is open (`Content`); the closed rows, the open row,
the text. A tag moves words from one register to the one before it, or drops a register (`Loses`: nothing new,
nothing doubled), which is the first half of `WordsKept` for every page. For the second half, `Clean` says
which registers are empty inside which elements, and that an item that has said words holds an element; with it
no tag of a page without mixed elements drops or reorders any (`StartMarks`, `EndMarks`). *Mixed* is an element with
a text of its own and an element in it (`<blockquote>a<p>b</p></blockquote>`), an item with a heading, a cell with any
element: there the parser loses or moves words (section 6), and only the first half is claimed. What the parser's
flags and counters have to do with the elements that are open (`Marks`, `Standing`, `ItemsIn`) is part of the same
invariant, `Keeps`, which was model-checked on `MCSources` before it was proved. `SourceTree`, the
readers and the events are all used as they are; `FlattenSeq`, the open elements and the words that are spoken are
functions defined by recursion on a length, so their equations (`FlattenAppend`, `OpensFacts`, `InOrderNext`) are
derived with the least number at which they would fail.

**Only model-checked**: everything under fairness (`UrgentIsServed`, `RequestsEnd`, `HealthyRunnerIsSeen`,
`JobEnds`, `ImportsEnd`), which is beyond the prover;
`StructureAsDeclared` of the adapters, whose proof would follow the block of every word, and not only the words, through
the HTML parser's registers; the analyzers and the builders (`analyzers`),
which are functions over nested trees written with folds, `SelectSeq` and recursive operators: what
they compute for every input needs induction over data, which the installed provers cannot do. Where one
number bounds the data, least counterexamples take its place, as for the scheduler's loop, the pool's sum and
the chunker.

## 6. Where the code does not do what it says

With a run (a counterexample and the quoted lines are in `PROJECT.json`, "findings"):

1. `runner_dead` — a Runner that announced itself once and died is never started again
   (`orchestrator.py:51`).
2. `import_undone` — after an eviction and an unguarded read the adapter's output replaces
   the analyzed document (`app.py:1579`).

Without a run; each is behaviour of the model or was read off the lines named.

*Manager and Runner.* An error whose text is empty
counts as a success (`state.py:43`), as `str(e)` is for some timeouts. A client that hangs up in the queue leaves its count at the gate
(`manager/app.py:235`); after `max_queue` of them every request is refused. A model can be evicted
between `ensure_loaded` and the inference (`pool.py:108`). A dead agent can use up a unit's attempts while
a sound one is busy (`translator.py:638`); the repository's own test passes by timing. Bulk work starves beside two overlapping blocking requests despite
ageing, since the reserve rule looks at the class and not the effective class
(`scheduler.py:93` against `:12` and `config.py:56-57`). Three strikes never add up across requests,
because a success-shaped status change forgets the first (`state.py:47`, `orchestrator.py:89`). A
restart stamp is not renewed while the status stays STARTING (`state.py:57`, `orchestrator.py:70`),
and a request that waited for the start lock starts again when `start()` outlasts the
restart interval (`orchestrator.py:71`, `:50`). The meter runs on after the Runner stopped itself idle
(`state.py:53`). The bulk budget is read on arrival and spent later (`manager/app.py:217`); the overshoot
is bounded (`OvershootBounded`). A generation abandoned by a timeout runs beside the next
(`pool.py:115` against `:7-8`). A warm-up that failed sets ready (`runner/app.py:116`). RFC 0022 §5.3
and §5.4 differ from the code: a failed probe leads to WARMING, not COLD, and the warm-up runs
before the Runner listens.

*Documents.* A crash inside `json.dump` leaves a torn file (`app.py:1146`). `activate_skill` marks an
unfinished import analyzed (`:2355`). A failed import and an eviction serve the raw tree
(`:1605`). When the audit log cannot be written after the result is saved (`:1579-1587`), the import fails with its
result in the file and an error document in the store (`:1595-1606`); the next edit saves that over the result. A pasted text is not saved again after its analysis (`:1258`). Two `translate/start` can
both pass the check (`:2140`, `:2147`, `:2154`). A deleted document comes back with the next save
of who holds it (`:1945`). The graph endpoint runs the pipeline over whatever document is resident
(`:1393`). A translation whose last pass failed units publishes COMPLETED (`:2205`).

*Edits and the log.* Two holders of different copies lose edits (`:1935`, `forked` in the model). Two
`refine_page` requests for one page that overlap both replace it, so the page says every word twice and
gets a second contents container, which `app.py:2731-2732` is there to prevent (`crossed`). A correction is
not persisted (`:1351`); one that raises half-way (`hitl/manager.py:174`) is saved by the next save of
anybody, without a record. A torn log line swallows
the next record, whose writer was told that all went well (`audit/logger.py:47`).

*The file of a document* (`DocumentCodec`). `caption_id` of figures and tables, spans, borders and places of table
cells are not kept; lines without a box are dropped where others of the block have one; a block without a
page gets the page before it and a box of the whole page; a paragraph of one line loses the line's box,
so that a later execution never joins it; cell texts come back glued without a space (`app.py:637-672`).

*Adapters.* `html_adapter.py:5-6` and `:110` promise tables with their cells; `<td><p>x</p></td>` puts the
paragraph outside and leaves the cell empty, and a table in a cell loses the outer rows. The text of an `<li>`
in front of a nested list or paragraph is dropped, what follows it is put first; a `blockquote`, `dd`, `dt` or `figcaption`
with a paragraph or a list in it loses its own text in front of that, and what follows a paragraph
(`html_adapter.py:171-173`, `:187-189`, `:295-299`). A heading in an `<li>` opens a
container before the list. A .docx heading with a number (`numPr`) becomes a list item. Plain text is not
split at a line of spaces. PDF boxes that are equal after rounding share an identity.

*Pipeline.* A permission violation is raised again without the rollback other errors get
(`pipeline.py:399` against RFC 0005 §6.1); the contract therefore promises nothing of an aborted
document. `calibration_category` rescales every unmarked block of the document, not "the
confidences this analyzer writes" (`pipeline.py:346`, `base.py:66-67`), even when no page was
recognised. The pieces of a split block copy its confidence but not its calibration marker
(`heading/analyzer.py:219`, `list/analyzer.py:166`), so the next execution, for instance the graph
endpoint's after a restart, rescales a confidence that was rescaled before; `CalibratedOnce`
is about blocks and does not see this. Chunks are cut where the titles of the containers change
(`chunker.py:509-510`), so adjacent sections with the same title, or one without a title and the section around it,
share chunks. The text of a caption reaches no chunk
(`chunker.py`, `_extract_text_from_node`). Blocks that are no leaves (footnotes, algorithms,
bibliography) are chunked after the whole main flow, but in document order after a restart,
when the graph is empty. `GuardedReadingGraph` does not forward `heads` and `validate_invariants`.
A plugin's reading-graph step that closes a cycle raises in the middle of its delta
(`plugins/mutations.py:96` against `:5-6`).

*Analyzers.* Unknown blocks inside lists and callouts are never resolved (`unknown_resolver/analyzer.py:51` visits
children of containers only, against `docs/architecture/0002-krm.md:33-34` and `krm/models.py:205-208`). A callout has
the id of its content (`callout/analyzer.py:88`; RFC 0002 §4.1). The marker of a list of one item is cut off and not
kept (`list/analyzer.py:127`). Blank pages are recognised by paragraphs alone. A second execution appends
`printed_lines` and semantic units again (RFC 0014 asks that it change nothing), leaves a `continues` whose
paragraph an agent's table has replaced, and reads a list over two pages, which came back from the file with
a box of the whole page, at the top of that page. An agent's table replaces all text of its page. OCR ids
collide when two blocks of a page are flagged.

*Contents.* A block that holds entries and other lines stays (`toc/analyzer.py:155-159`), so its entries are said
twice; without a heading every later execution reads it again and inserts a second container with the same ids. The
container's level is set before there are headings and never corrected. Rows that describe an entry go into
`toc_description`, which nothing reads: they are not printed. `PageMap.resolve` is to give "the page index that
carries `label`" (`folios.py:157-158`); where the shift falls (3 on page 4, 5 on page 5), label 4 gets page 5, which
carries 5. A label below the first printed one may get a negative page, one beyond the last a page the file does not
have (`krm/models.py:449` "0-based page index in the file"). Folios of tombstoned blocks count.

*Tables.* Cells have random ids (`krm/models.py:112`, `table/rules.py:837-866`), unlike all other blocks. Merged tables
share their cells with the tombstoned one. A table of one block replaces it without a tombstone. A row that a frame
absorbs comes under cells whose row span was set before (`table/analyzer.py:597-598`), and the builder leaves covered
cells out (`latex_builder.py:3936-3941`); `_clip_row_spans` is called only where leaders were dropped. A cell without a box
beside a header of two or more boxes raises a `TypeError` (`latex_builder.py:1877`), although `_column_bins` says it
returns "None if any cell lacks geometry" (`:1291`). `_merge_adjacent_tables` does not ask whether its base is
tombstoned.

*Assembler.* A heading nothing is placed under is missing on the pages (`page_assembler.py:78`); a bibliography does not count
(`:114-119`), so a chapter whose only content is its references has no title there. Of a bibliography
container only entries are set (`latex_builder.py:290-307`). The positional page drops algorithms, index and bibliography
entries. Printed paragraphs and blocks of several lines of a positional page are set from the source whatever the
language (`page_assembler.py:449-464`): a unit that begins there and ends on another page is missing its end, one that ends
there is said in both languages. `_translated` prints a translation although the text has changed since (`input_hash`
is not compared).

## 7. What is abstracted

- Time: ageing windows, the restart interval and deadlines are steps; durations are not.
- Contents: a unit, a tree, a block's text are reduced to what a property tells apart. In the analyzers a text is
  its words, and what a pattern makes of it an attribute of the line; styles and confidences are left out.
- Module Pipeline's blocks: parents and positions are left out (a moved block is the same
  block; document order is a constant, and an inserted block has its place in it); confidences
  are taken to be ones that rescaling changes; every step of the Reading Graph has the same
  confidence, so the best branch is the first, and the name its caller gives, which is the analyzer's own; a block refers
  to one footnote. Entities of the Knowledge Graph are like its edges.
  The dependency check in the constructor is about a constant.
- Chunk texts, links, breadcrumbs; the log lines of the final validation.
- Translation: `_record_unit` does not raise; if it did, the thread would end with the unit neither done, failed
  nor queued (`translator.py:627-628`).
- Manager: in RunnerLifecycle a client stays until its request ends (Scheduler and InferGate have the hang-ups); no
  error text is empty.
- HTML: attributes, and markup that is not closed in order. Files: how they are opened and decoded.
- Tables: those told by their boxes alone and by a grid of rulings, leaders and marks on them
  (`_drop_leaders`, `_reseat_stacked_lines`, `_regrid_ruled_bands`, `_split_cells_at_rules`, `_marks_on_leaders` in
  `table/rules.py`), print measures of cells, columns from rules in the builder.
- Headings: a second line told from body text by its weight alone, blocks in which OCR ran two columns together
  (`heading/rules.py:267-295`), the length of a run.
- Whitespace (NormalizationAnalyzer).
- Contents: columns side by side, repair of misread numbers, levels of entries, print of scanned entries.
- LaTeX: measures, fonts, rules and drawings; a book is the words in it, in order. The print of a heading's lines
  (`latex_builder.py:308-311`, `:526-529`) counts as its title; pages rebuilt as one picture of their columns (`page_assembler.py:310-311`, `:336-395`) and
  tables hung beside their text (`:322-324`) are set like the others.

Not modelled at all, and why: measurement of print, drawings and registers (pixels); names, entities, citations and block
confidences (nothing the modelled parts look at); cryptography and the plugin sandbox (the operating system's); storage
providers, connectors and exporters (I/O and formatting); front end (a client of the server).

## 8. Plan

Done: the Manager, the Runner's pool, the translation job, the document store, the edits with their audit log, the
adapters, the pipeline with its graphs and chunks, the analyzers, the file format, both builders; proofs of
every safety property of Scheduler, InferGate, RunnerLifecycle, ModelPool, TranslateJob, DocumentStore,
DocumentEdits with AuditLog, Pipeline, and of the words and the nesting of what the adapters read.

Next, most important first:

1. Proofs: `StructureAsDeclared` of the adapters, format by format, over the invariants of `WordsKept`; lemmas about the helpers of Blocks that need no induction (`Bury`,
   `Become`, `Permitted`).
2. **TranslationRuns** over WorkList: several passes, stop and start of runs, saves, progress
   events; composes TranslateJob's promise with DocumentStore's thread. Properties: a stop
   reaches the run it was meant for; COMPLETED only when nothing failed.
3. **PluginDelta**: validate, then apply; abstract specification "all or nothing".
4. **EventStream**: bounded subscriber queues that drop the oldest; what a late subscriber sees.
5. **Announce** and the watchdog of the Runner process, beside requests in flight.
6. Several columns of contents; tables on rulings; retrieval metrics against reference definitions.

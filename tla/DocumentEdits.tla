---------------------------- MODULE DocumentEdits ----------------------------
(***************************************************************************)
(* Who changes a finished document, src/src/api/app.py: refine_page and    *)
(* recognize_table, which wait for an agent with the tree in hand,         *)
(* refine_node and activate_skill, which do not wait, corrections of a     *)
(* reviewer (hitl/manager.py), and the translation thread.  Each changes   *)
(* the tree it took and, a correction excepted, saves it; all but          *)
(* activate_skill then write a record to the audit log.                    *)
(*                                                                         *)
(* One document, whose trees come and go: an evicted tree lives on in the  *)
(* hands of those that hold it, and the next one is built from the file.   *)
(* Handlers share the event loop: nothing of another handler runs between  *)
(* a save and its record, but the thread does and a crash may.             *)
(***************************************************************************)
EXTENDS AuditLog

CONSTANTS
  Request,     \* requests; an id is used for one
  Word,        \* of the page, each on a block of its own
  MaxRestarts, \* bound
  None

\* What a request may be; the agent is asked by the first two.
Kind == {"page", "table", "node", "skill", "correction", "translation"}

\* Answers of refine_page; the blocks are replaced for the first three.
Role == {"title", "toc", "diagram", "text"}

VARIABLES
  trees,     \* every tree built so far
  resident,  \* DocStore: the one in the cache, or None
  file,      \* the content the file has
  kind,      \* of each request, None before it comes
  stage,     \* new, waits for an agent, runs or ends (the thread), done, or
             \* over: refused or lost
  held,      \* the tree a request has taken
  taken,     \* the blocks refine_page found on it
  snapshot,  \* what the thread is about to write
  pending,   \* the request whose record the event loop is about to write
  task,      \* the review task is known to hitl_manager
  restarts,  \* how often the server stopped
  forked,    \* history: a tree was built while another one was held,
  raced,     \*   a handler saved between the thread's snapshot and its write,
  unlogged,  \*   requests whose record was refused by the disk or cut off,
  dropped    \*   corrections no file had when their tree was dropped

document == <<trees, resident, file>>
requests == <<kind, stage, held, taken, snapshot, pending, task>>
history == <<restarts, forked, raced, unlogged, dropped>>
vars == <<document, requests, history, audit>>

\* Word by word, and one block more for each request that replaces some.
Block == Word \cup Request

Content == [block : UNION {[bs -> [says : SUBSET Word, live : BOOLEAN, read : BOOLEAN]] :
                             bs \in SUBSET Block},
            edits : SUBSET Request, crossed : BOOLEAN]

ASSUME EditsAssumption ==
  /\ MaxRestarts \in Nat
  /\ Word \cap Request = {}
  /\ None \notin Nat \cup Kind \cup Request

TypeOK ==
  /\ trees \in Seq(Content)
  /\ resident \in DOMAIN trees \cup {None}
  /\ file \in Content
  /\ kind \in [Request -> Kind \cup {None}]
  /\ stage \in [Request -> {"new", "waits", "runs", "ends", "done", "over"}]
  /\ held \in [Request -> DOMAIN trees \cup {None}]
  /\ taken \in [Request -> SUBSET Block]
  /\ snapshot \in [Request -> Content \cup {None}]
  /\ pending \in Request \cup {None}
  /\ task \in BOOLEAN /\ restarts \in 0..MaxRestarts
  /\ forked \in BOOLEAN /\ raced \in BOOLEAN
  /\ unlogged \subseteq Request /\ dropped \subseteq Request

\* A block says its word; read: _text finds it.
Fresh == [block |-> [w \in Word |-> [says |-> {w}, live |-> TRUE, read |-> TRUE]],
          edits |-> {}, crossed |-> FALSE]

Init ==
  /\ AuditInit
  /\ trees = <<>> /\ resident = None /\ file = Fresh
  /\ kind = [r \in Request |-> None]
  /\ stage = [r \in Request |-> "new"]
  /\ held = [r \in Request |-> None]
  /\ taken = [r \in Request |-> {}]
  /\ snapshot = [r \in Request |-> None]
  /\ pending = None /\ task = TRUE
  /\ restarts = 0 /\ forked = FALSE /\ raced = FALSE
  /\ unlogged = {} /\ dropped = {}

-----------------------------------------------------------------------------
(* Trees *)

LoopFree == pending = None

InHand(t) == \E r \in Request : held[r] = t

\* docs_store.get: the resident tree, or a new one built from the file.
Index == IF resident # None THEN resident ELSE Len(trees) + 1
Found == IF resident # None THEN trees[resident] ELSE file

\* The caller makes `content` of the tree it gets.
Take(content) ==
  /\ trees' = IF resident # None THEN [trees EXCEPT ![resident] = content]
              ELSE Append(trees, content)
  /\ resident' = Index
  /\ forked' = (forked \/ (resident = None /\ \E t \in DOMAIN trees : InHand(t)))

\* Somebody else's documents fill the cache.
Evict ==
  /\ LoopFree /\ resident # None
  /\ resident' = None
  /\ dropped' = dropped \cup {r \in trees[resident].edits \ file.edits : kind[r] = "correction"}
  /\ UNCHANGED <<trees, file, requests, restarts, forked, raced, unlogged, audit>>

-----------------------------------------------------------------------------
(* The page agent: refine_page *)

\* Fault: a block that has been replaced is found again.
FoundDead(content) ==
  {b \in DOMAIN content.block : content.block[b].read}

\* The blocks of the page the agent is asked about.
FoundOn(content) ==
  {b \in DOMAIN content.block : content.block[b].live /\ content.block[b].read}

\* _rebuild_page: one block that says what all of them say takes their place.  The
\* entries of a table of contents and the labels of a drawing are no text lines.
Replaced(content, r, role) ==
  LET wrapped == [says |-> UNION {content.block[b].says : b \in taken[r]},
                  live |-> TRUE, read |-> role = "title"]
  IN  [content EXCEPT !.block = [b \in DOMAIN @ \cup {r} |->
         IF b = r THEN wrapped ELSE IF b \in taken[r] THEN [@[b] EXCEPT !.live = FALSE] ELSE @[b]]]

\* What the answer makes of the tree.
Refined(content, r, role) ==
  LET changed == IF role = "text" THEN content ELSE Replaced(content, r, role)
  IN  [changed EXCEPT !.edits = @ \cup {r}]

Edited(content, r) == [content EXCEPT !.edits = @ \cup {r}]

\* Another request for the page waits with the same tree.
Crossing(r, t) == \E o \in Request \ {r} : kind[o] = "page" /\ stage[o] = "waits" /\ held[o] = t

Comes(r, k) == LoopFree /\ stage[r] = "new" /\ kind' = [kind EXCEPT ![r] = k]

OpenPage(r) ==
  /\ Comes(r, "page")
  /\ Take([Found EXCEPT !.crossed = @ \/ Crossing(r, Index)])
  /\ IF FoundOn(Found) = {}
     THEN /\ stage' = [stage EXCEPT ![r] = "over"]
          /\ UNCHANGED <<held, taken>>
     ELSE /\ stage' = [stage EXCEPT ![r] = "waits"]
          /\ held' = [held EXCEPT ![r] = Index]
          /\ taken' = [taken EXCEPT ![r] = FoundOn(Found)]
  /\ UNCHANGED <<file, snapshot, pending, task, restarts, raced, unlogged, dropped, audit>>

\* recognize_table, with the table it found.
OpenTable(r) ==
  /\ Comes(r, "table")
  /\ Take(Found)
  /\ held' = [held EXCEPT ![r] = Index]
  /\ stage' = [stage EXCEPT ![r] = "waits"]
  /\ UNCHANGED <<file, taken, snapshot, pending, task, restarts, raced, unlogged, dropped, audit>>

\* Fault: the document is saved and nothing recorded.
SaveUnrecorded(r, content) ==
  /\ file' = content
  /\ raced' = (raced \/ \E o \in Request : snapshot[o] # None)
  /\ pending' = None

\* _persist_doc by a handler, which goes on to audit_logger.log.
SaveBy(r, content) ==
  /\ file' = content
  /\ raced' = (raced \/ \E o \in Request : snapshot[o] # None)
  /\ pending' = r

Leave(r) ==
  /\ held' = [held EXCEPT ![r] = None]
  /\ taken' = [taken EXCEPT ![r] = {}]

Answer(r) ==
  /\ LoopFree /\ stage[r] = "waits" /\ kind[r] \in {"page", "table"}
  /\ \E role \in Role :
       LET content == IF kind[r] = "page" THEN Refined(trees[held[r]], r, role)
                      ELSE Edited(trees[held[r]], r)
       IN  /\ trees' = [trees EXCEPT ![held[r]] = content]
           /\ SaveBy(r, content)
  /\ stage' = [stage EXCEPT ![r] = "done"]
  /\ Leave(r)
  /\ UNCHANGED <<resident, kind, snapshot, task, restarts, forked, unlogged, dropped, audit>>

\* No agent answers: 503.
NoAnswer(r) ==
  /\ LoopFree /\ stage[r] = "waits"
  /\ stage' = [stage EXCEPT ![r] = "over"]
  /\ Leave(r)
  /\ UNCHANGED <<document, kind, snapshot, pending, task, history, audit>>

-----------------------------------------------------------------------------
(* Handlers that do not wait *)

\* Fault: the record is written for an edit that is not saved.
RefineNodeUnsaved(r) ==
  /\ Comes(r, "node")
  /\ Take(Edited(Found, r))
  /\ pending' = r
  /\ stage' = [stage EXCEPT ![r] = "done"]
  /\ UNCHANGED <<file, raced, held, taken, snapshot, task, restarts, unlogged, dropped, audit>>

\* refine_node, by hand or by an agent it does not wait for.
RefineNode(r) ==
  /\ Comes(r, "node")
  /\ Take(Edited(Found, r))
  /\ SaveBy(r, Edited(Found, r))
  /\ stage' = [stage EXCEPT ![r] = "done"]
  /\ UNCHANGED <<held, taken, snapshot, task, restarts, unlogged, dropped, audit>>

\* Nothing is recorded.
ActivateSkill(r) ==
  /\ Comes(r, "skill")
  /\ Take(Edited(Found, r))
  /\ file' = Edited(Found, r)
  /\ raced' = (raced \/ \E o \in Request : snapshot[o] # None)
  /\ stage' = [stage EXCEPT ![r] = "done"]
  /\ UNCHANGED <<held, taken, snapshot, pending, task, restarts, unlogged, dropped, audit>>

\* submit_human_correction: recorded, not saved.  apply_human_correction raises at
\* the first value of a wrong type, the ones before it written, and the task stays;
\* nothing asks whether the task has been decided already.
Correct(r) ==
  /\ Comes(r, "correction") /\ task
  /\ Take(Edited(Found, r))
  /\ \/ pending' = r /\ stage' = [stage EXCEPT ![r] = "done"]
     \/ pending' = None /\ stage' = [stage EXCEPT ![r] = "over"]
  /\ UNCHANGED <<file, held, taken, snapshot, task, restarts, raced, unlogged, dropped, audit>>

\* The record of the handler that has just changed the document.
Record ==
  /\ pending # None
  /\ \/ Log(pending) /\ UNCHANGED unlogged
     \/ LogFails(pending) /\ unlogged' = unlogged \cup {pending}
  /\ pending' = None
  /\ UNCHANGED <<document, kind, stage, held, taken, snapshot, task, restarts, forked, raced, dropped>>

-----------------------------------------------------------------------------
(* The translation thread, which takes no turn with the handlers *)

\* A run that is registered refuses another one; one that awaits its targets is not.
StartTranslation(r) ==
  /\ Comes(r, "translation")
  /\ \A o \in Request : kind[o] = "translation" => stage[o] \notin {"runs", "ends"}
  /\ Take(Found)
  /\ held' = [held EXCEPT ![r] = Index]
  /\ stage' = [stage EXCEPT ![r] = "waits"]
  /\ UNCHANGED <<file, taken, snapshot, pending, task, restarts, raced, unlogged, dropped, audit>>

Launch(r) ==
  /\ LoopFree /\ kind[r] = "translation" /\ stage[r] = "waits"
  /\ stage' = [stage EXCEPT ![r] = "runs"]
  /\ UNCHANGED <<document, kind, held, taken, snapshot, pending, task, history, audit>>

\* Translations go into the tree, ...
Translate(r) ==
  /\ stage[r] = "runs" /\ snapshot[r] = None
  /\ r \notin trees[held[r]].edits
  /\ trees' = [trees EXCEPT ![held[r]] = Edited(@, r)]
  /\ UNCHANGED <<resident, file, requests, history, audit>>

\* ... the tree is serialized, now and then and at the end, ...
Serialize(r) ==
  /\ stage[r] = "runs" /\ snapshot[r] = None
  /\ file.edits # trees[held[r]].edits \/ r \in file.edits
  /\ snapshot' = [snapshot EXCEPT ![r] = trees[held[r]]]
  /\ UNCHANGED <<document, kind, stage, held, taken, pending, task, history, audit>>

\* ... and written; after the last save the run is recorded.
Write(r) ==
  /\ snapshot[r] # None
  /\ file' = snapshot[r]
  /\ snapshot' = [snapshot EXCEPT ![r] = None]
  /\ stage' = [stage EXCEPT ![r] = IF r \in snapshot[r].edits THEN "ends" ELSE "runs"]
  /\ raced' = (raced \/ \E o \in Request \ {r} : snapshot[o] # None)
  /\ UNCHANGED <<trees, resident, kind, held, taken, pending, task, restarts, forked, unlogged,
                 dropped, audit>>

RunEnds(r) ==
  /\ stage[r] = "ends"
  /\ \/ Log(r) /\ UNCHANGED unlogged
     \/ LogFails(r) /\ unlogged' = unlogged \cup {r}
  /\ stage' = [stage EXCEPT ![r] = "done"]
  /\ Leave(r)
  /\ UNCHANGED <<document, kind, snapshot, pending, task, restarts, forked, raced, dropped>>

-----------------------------------------------------------------------------
(* The server stops, at any moment, and starts again *)

Recording(r) == r = pending \/ stage[r] = "ends"

Restart ==
  /\ restarts < MaxRestarts
  /\ restarts' = restarts + 1
  /\ \/ LogReopened
     \/ \E r \in Request : Recording(r) /\ LogCutOff(r)
  /\ unlogged' = unlogged \cup {r \in Request : Recording(r)}
  /\ resident' = None
  /\ dropped' = dropped \cup {r \in Request : /\ kind[r] = "correction" /\ resident # None
                                              /\ r \in trees[resident].edits \ file.edits}
  /\ stage' = [r \in Request |-> IF stage[r] \in {"waits", "runs", "ends"} THEN "over" ELSE stage[r]]
  /\ held' = [r \in Request |-> None] /\ taken' = [r \in Request |-> {}]
  /\ snapshot' = [r \in Request |-> None] /\ pending' = None
  /\ task' = FALSE
  /\ UNCHANGED <<trees, file, kind, forked, raced>>

Edit(r) ==
  \/ OpenPage(r) \/ OpenTable(r) \/ Answer(r) \/ NoAnswer(r)
  \/ RefineNode(r) \/ ActivateSkill(r) \/ Correct(r)
  \/ StartTranslation(r) \/ Launch(r) \/ Translate(r) \/ Serialize(r) \/ Write(r) \/ RunEnds(r)

Next == (\E r \in Request : Edit(r)) \/ Record \/ Evict \/ Restart

Spec == Init /\ [][Next]_vars

-----------------------------------------------------------------------------
(* Correctness *)

Saying(content, w) == {b \in DOMAIN content.block : content.block[b].live /\ w \in content.block[b].says}

\* Whatever is rebuilt, and however often, every word of the page stands in one
\* block, in the trees and in the file; only two answers for one page of one tree,
\* each of which waited for its agent while the other did, can say it twice.
PageSaidOnce ==
  \A content \in {file} \cup {trees[t] : t \in DOMAIN trees} : \A w \in Word :
    /\ Saying(content, w) # {}
    /\ Cardinality(Saying(content, w)) = 1 \/ content.crossed

\* The file keeps every edit whose request was answered, unless a tree was built
\* anew while somebody held the one before it, or the thread wrote what it had
\* serialized before the edit.  A correction is in the tree in use, and may be lost
\* with it.
AnsweredEditsKept ==
  ~forked /\ ~raced =>
    \A r \in Request : stage[r] = "done" =>
      \/ r \in file.edits
      \/ kind[r] = "correction" /\ (r \in dropped \cup Found.edits)

\* A record of every edit the file has, and no record of one that was never made:
\* what is missing is an activated skill, an edit whose record the disk refused or
\* a crash cut off or came before, the first half of a correction that raised, and
\* what the thread has not finished.
EditsAreLogged ==
  LET recorded == {r \in Request : \E i \in DOMAIN lines : \E p \in ToSet(lines[i].parts) :
                                     p # Torn /\ p.what = r}
  IN  /\ \A r \in file.edits :
           \/ r \in recorded \cup unlogged \cup {pending}
           \/ kind[r] = "skill"
           \/ kind[r] = "correction" /\ stage[r] = "over"
           \/ kind[r] = "translation" /\ stage[r] # "done"
      /\ \A r \in recorded :
           r \in file.edits \/ kind[r] = "correction" \/ forked \/ raced
=============================================================================

------------------------- MODULE DocumentStoreProofs -------------------------
(***************************************************************************)
(* Proofs about the document store and its imports, for every number of    *)
(* documents, editors and translations and every size of the cache.        *)
(*                                                                         *)
(* Two arguments run through them.  The tree an import works on is handed  *)
(* out only while its job says "running", and _settled_doc asks the job:   *)
(* ImportsAlone and OwnTree.  What an import saved is undone only by a     *)
(* copy of something else that outlives it, so the invariant follows every *)
(* place a copy can be in: the store, a handler, a snapshot, a save on its *)
(* way, the file (ImportCopies until the import ends, ResultStands after), *)
(* and grants an import that failed after its save the error document too. *)
(***************************************************************************)
EXTENDS DocumentStore, TLAPS

\* What a finished import saves.
Result == [kind |-> "analyzed", analyzed |-> TRUE]

\* What TypeOK says, in three parts: the store; the files and who writes them; the
\* rest.
StoreOK ==
  /\ lru \in Seq(Job) /\ IsInjective(lru) /\ Len(lru) <= MaxResident
  /\ copy \in [Job -> Ref \cup {None}]
  /\ \A j \in Job : copy[j] # None <=> j \in ToSet(lru)

FilesOK ==
  /\ file \in [Job -> {Absent, Torn} \cup Saved]
  /\ loop \in {None} \cup Writing
  /\ mixed \in SUBSET Job

ControlOK ==
  /\ fresh \in SUBSET Job
  /\ status \in [Job -> {"none", "running", "failed", "completed"}]
  /\ interrupted \in SUBSET Job
  /\ task \in [Job -> Task]
  /\ held \in [Holder -> Ref \cup {None}]
  /\ job \in [Holder -> Job \cup {None}]
  /\ translating \in SUBSET Job
  /\ run \in [Translation -> Run]
  /\ snapshot \in [Translation -> Kind \cup {None}]
  /\ unlinked \subseteq {t \in Translation : run[t] = "write"}
  /\ imported \in SUBSET Job /\ peeked \in SUBSET Job /\ disowned \in SUBSET imported

\* Nothing is known of a document that was not uploaded yet.
FreshUntouched ==
  \A j \in fresh :
    /\ task[j] = "none" /\ copy[j] = None /\ file[j] = Absent /\ j \notin imported
    /\ loop # None => loop.job # j
    /\ \A h \in Holder : job[h] # j

\* A document is imported once, its job says so, and nobody holds it meanwhile.
ImportsAlone ==
  \A j \in Job : task[j] # "none" =>
    /\ status[j] = "running" /\ j \notin imported
    /\ \A h \in Holder : job[h] # j

\* An import that saves is the one the event loop is in; a text that is being
\* saved has no import, and is resident.
SavesMatchTasks ==
  /\ \A j \in Job : task[j] \in {"saveraw", "savedone"} =>
       loop # None /\ loop.by = "import" /\ loop.job = j
  /\ \A j \in Job : task[j] = "savedone" => loop.what = Result
  /\ loop # None /\ loop.by = "text" => task[loop.job] = "none" /\ copy[loop.job] # None

\* The tree an import works on is in the store until the pipeline returns, no
\* longer.
OwnTree == \A j \in Job : copy[j] = "own" => task[j] \in {"saveraw", "analyze"}

\* Whoever holds a tree knows whose it is; a translation holds one throughout.
HoldersKnow ==
  /\ \A h \in Holder : held[h] # None => job[h] \in Job
  /\ \A t \in Translation : run[t] # "idle" => held[t] # None
  /\ \A t \in Translation : run[t] \in {"snap", "write"} => snapshot[t] # None

\* Unless it was read back meanwhile, a document whose import runs is resident as
\* the tree the import works on or not at all.
ImportCopies ==
  \A j \in Job \ peeked :
    /\ task[j] \in {"saveraw", "analyze"} => copy[j] \in {None, "own"}
    /\ task[j] = "savedone" => copy[j] \in {None, "analyzed"}

\* What there may be of a document whose import has saved its result.
Leavings(j) == IF j \in disowned THEN {"analyzed", "error"} ELSE {"analyzed"}

Stands(j, what) == what.kind \in Leavings(j) /\ what.analyzed

\* After such an import every copy there is of the document, in the store, in a
\* handler's hands, in a thread's snapshot, on its way to the file or in it, is the
\* import's result, or the error document if the import failed after the save.
ResultStands ==
  \A j \in imported \ peeked :
    /\ copy[j] \in {None} \cup Leavings(j)
    /\ file[j] \in {Absent, Torn} \/ Stands(j, file[j])
    /\ loop # None => loop.job # j \/ Stands(j, loop.what)
    /\ \A h \in Holder : job[h] = j => held[h] \in Leavings(j)
    /\ \A t \in Translation :
         job[t] = j /\ run[t] \in {"snap", "write"} => snapshot[t] \in Leavings(j)

\* The inductive invariant.
IInv ==
  /\ StoreOK
  /\ FilesOK
  /\ ControlOK
  /\ FreshUntouched
  /\ ImportsAlone
  /\ SavesMatchTasks
  /\ OwnTree
  /\ ImportIsPrivate
  /\ HoldersKnow
  /\ ImportCopies
  /\ ResultStands

-----------------------------------------------------------------------------
(* The store's helpers *)

\* move_to_end and pop leave the other keys in their order.
LEMMA RemoveFirstKeeps ==
  ASSUME NEW S, NEW s \in Seq(S), IsInjective(s), NEW e
  PROVE  /\ RemoveFirst(s, e) \in Seq(S)
         /\ IsInjective(RemoveFirst(s, e))
         /\ ToSet(RemoveFirst(s, e)) = ToSet(s) \ {e}
         /\ Len(RemoveFirst(s, e)) <= Len(s)
         /\ e \in ToSet(s) => Len(RemoveFirst(s, e)) = Len(s) - 1
  <1>1. CASE e \notin ToSet(s)
    <2>1. RemoveFirst(s, e) = s
      BY <1>1 DEF RemoveFirst, ToSet
    <2> QED
      BY <1>1, <2>1
  <1>2. CASE e \in ToSet(s)
    <2>1. PICK k \in 1 .. Len(s) : s[k] = e
      BY <1>2 DEF ToSet
    <2>2. {i \in 1 .. Len(s) : s[i] = e} = {k}
      BY <2>1 DEF IsInjective
    <2>3. Min({k}) = k
      BY DEF Min
    <2>4. RemoveFirst(s, e) = SubSeq(s, 1, k - 1) \o SubSeq(s, k + 1, Len(s))
      BY <2>1, <2>2, <2>3 DEF RemoveFirst, RemoveAt, SelectInSeq
    <2> DEFINE front == SubSeq(s, 1, k - 1)
               back == SubSeq(s, k + 1, Len(s))
               rest == front \o back
    <2>5. /\ front \in Seq(S) /\ Len(front) = k - 1
          /\ \A i \in 1 .. k - 1 : front[i] = s[i]
      BY <2>1
    <2>6. /\ back \in Seq(S) /\ Len(back) = Len(s) - k
          /\ \A i \in 1 .. Len(s) - k : back[i] = s[i + k]
      BY <2>1
    <2> HIDE DEF front, back
    <2>7. /\ rest \in Seq(S)
          /\ Len(rest) = Len(s) - 1
          /\ \A i \in 1 .. Len(rest) : rest[i] = IF i < k THEN s[i] ELSE s[i + 1]
      <3>1. front \in Seq(S) /\ back \in Seq(S)
        BY <2>5, <2>6
      <3>2. rest \in Seq(S) /\ Len(rest) = Len(front) + Len(back)
        BY <3>1
      <3>3. rest \in Seq(S) /\ Len(rest) = Len(s) - 1
        BY <2>1, <2>5, <2>6, <3>2
      <3>4. ASSUME NEW i \in 1 .. Len(rest) PROVE rest[i] = IF i < k THEN s[i] ELSE s[i + 1]
        <4>1. CASE i < k
          <5>1. rest[i] = front[i]
            BY <2>1, <2>5, <2>6, <3>3, <4>1
          <5> QED
            BY <2>1, <2>5, <4>1, <5>1
        <4>2. CASE i >= k
          <5>1. i - (k - 1) \in 1 .. Len(s) - k
            BY <2>1, <3>3, <4>2
          <5>2. rest[i] = back[i - (k - 1)]
            BY <2>1, <2>5, <2>6, <3>3, <4>2, <5>1
          <5>3. back[i - (k - 1)] = s[(i - (k - 1)) + k]
            BY <2>6, <5>1
          <5> QED
            BY <2>1, <4>2, <5>2, <5>3
        <4> QED
          BY <2>1, <4>1, <4>2
      <3> QED
        BY <3>3, <3>4
    <2>8. RemoveFirst(s, e) = rest
      BY <2>4 DEF front, back
    <2> HIDE DEF rest
    <2>9. IsInjective(rest)
      BY <2>1, <2>7 DEF IsInjective
    <2>10. ToSet(rest) = ToSet(s) \ {e}
      <3>1. ASSUME NEW x \in ToSet(rest) PROVE x \in ToSet(s) \ {e}
        BY <2>1, <2>7, <3>1 DEF IsInjective, ToSet
      <3>2. ASSUME NEW x \in ToSet(s) \ {e} PROVE x \in ToSet(rest)
        <4>1. PICK i \in 1 .. Len(s) : s[i] = x /\ i # k
          BY <2>1, <3>2 DEF ToSet
        <4>2. CASE i < k
          BY <2>1, <2>7, <4>1, <4>2 DEF ToSet
        <4>3. CASE i > k
          <5>1. i - 1 \in 1 .. Len(rest) /\ rest[i - 1] = x
            BY <2>1, <2>7, <4>1, <4>3
          <5> QED
            BY <2>7, <5>1 DEF ToSet
        <4> QED
          BY <4>1, <4>2, <4>3
      <3> QED
        BY <3>1, <3>2
    <2> QED
      BY <2>8, <2>7, <2>9, <2>10, <1>2
  <1> QED
    BY <1>1, <1>2

\* What _keep does to a sound store: the tree is in it, others may have gone.
Kept(j, tree) ==
  /\ StoreOK'
  /\ copy'[j] = tree
  /\ \A i \in Job : i # j => copy'[i] \in {copy[i], None}

\* What get does besides.
Got(j) ==
  /\ Kept(j, Found(j))
  /\ Found(j) \in Ref
  /\ peeked \subseteq peeked' /\ peeked' \subseteq peeked \cup {j}
  /\ copy[j] = None /\ task[j] = "analyze" => j \in peeked'
  /\ imported' = imported /\ disowned' = disowned

\* What get returns: the tree of an import only while the import runs, and the
\* result of an import that stands.
Finds(j) ==
  /\ j \notin fresh
  /\ copy[j] # None => Found(j) = copy[j]
  /\ Found(j) = "own" => task[j] \in {"saveraw", "analyze"}
  /\ j \in imported \ peeked => Found(j) \in Leavings(j)

\* A save on the event loop begins: the file is empty until it ends.
SaveBegun(by, j, what) ==
  /\ FilesOK'
  /\ loop = None /\ loop' # None
  /\ loop'.by = by /\ loop'.job = j /\ loop'.what = what
  /\ file' = [file EXCEPT ![j] = Torn]
  /\ unlinked' = unlinked

\* It ends: the file holds what was saved or a mixture.
SaveEnded(by) ==
  /\ FilesOK'
  /\ loop' = None /\ loop \in Writing /\ loop # None
  /\ loop.by = by /\ loop.job \in Job
  /\ file'[loop.job] \in {loop.what, Torn}
  /\ \A i \in Job : i # loop.job => file'[i] = file[i]
  /\ unlinked' = unlinked

\* It ends or is cut short: the file may also be as another writer left it.
SaveOver(by) ==
  /\ FilesOK'
  /\ loop' = None /\ loop \in Writing /\ loop # None
  /\ loop.by = by /\ loop.job \in Job
  /\ file'[loop.job] \in {loop.what, Torn, file[loop.job]}
  /\ \A i \in Job : i # loop.job => file'[i] = file[i]
  /\ unlinked' = unlinked

\* _keep leaves the store sound: the tree is in it, of the others at most one goes.
LEMMA KeepKeeps ==
  ASSUME StoreOK, NEW j \in Job, NEW tree \in Ref, Keep(j, tree)
  PROVE  Kept(j, tree)
  <1> DEFINE rest == RemoveFirst(lru, j)
             order == Append(rest, j)
             kept == IF Len(order) > MaxResident THEN Tail(order) ELSE order
  <1>1. /\ rest \in Seq(Job) /\ IsInjective(rest)
        /\ ToSet(rest) = ToSet(lru) \ {j}
        /\ Len(rest) <= Len(lru)
    BY RemoveFirstKeeps DEF StoreOK
  <1>2. MaxResident \in Nat \ {0} /\ Len(lru) \in Nat /\ Len(lru) <= MaxResident
    BY StoreAssumption DEF StoreOK
  <1>3. /\ lru' = kept
        /\ copy' = [i \in Job |-> IF i = j THEN tree
                                  ELSE IF i \in ToSet(kept) THEN copy[i] ELSE None]
    BY DEF Keep
  <1> HIDE DEF rest
  <1>4. /\ order \in Seq(Job) /\ Len(order) = Len(rest) + 1
        /\ order[Len(rest) + 1] = j
        /\ \A i \in 1 .. Len(rest) : order[i] = rest[i]
    BY <1>1
  <1>5. j \notin ToSet(rest)
    BY <1>1
  <1> HIDE DEF order
  <1>6. IsInjective(order) /\ ToSet(order) = ToSet(rest) \cup {j}
    BY <1>1, <1>4, <1>5 DEF IsInjective, ToSet
  <1>7. /\ kept \in Seq(Job) /\ IsInjective(kept) /\ Len(kept) <= MaxResident
        /\ j \in ToSet(kept) /\ ToSet(kept) \subseteq ToSet(lru) \cup {j}
    <2>1. CASE Len(order) > MaxResident
      <3>1. /\ kept \in Seq(Job) /\ Len(kept) = Len(order) - 1
            /\ \A i \in 1 .. Len(kept) : kept[i] = order[i + 1]
        BY <1>1, <1>2, <1>4, <2>1
      <3>2. Len(rest) \in 1 .. Len(kept) /\ kept[Len(rest)] = j
        BY <1>1, <1>2, <1>4, <2>1, <3>1
      <3> HIDE DEF kept
      <3>3. j \in ToSet(kept)
        BY <3>1, <3>2 DEF ToSet
      <3>4. Len(order) \in Nat /\ DOMAIN order = 1 .. Len(order)
            /\ DOMAIN kept = 1 .. Len(order) - 1
        BY <1>4, <3>1
      <3>5. \A i \in DOMAIN kept : i + 1 \in DOMAIN order /\ kept[i] = order[i + 1]
        BY <3>1, <3>4
      <3>6. ToSet(kept) \subseteq ToSet(order)
        BY <3>5 DEF ToSet
      <3>7. IsInjective(kept)
        <4>1. ASSUME NEW a \in DOMAIN kept, NEW b \in DOMAIN kept, kept[a] = kept[b]
              PROVE  a = b
          <5>1. a + 1 = b + 1
            BY <1>6, <3>5, <4>1 DEF IsInjective
          <5> QED
            BY <3>4, <5>1
        <4> QED
          BY <4>1 DEF IsInjective
      <3> QED
        BY <1>1, <1>2, <1>4, <1>6, <3>1, <3>3, <3>6, <3>7
    <2>2. CASE ~(Len(order) > MaxResident)
      BY <1>1, <1>2, <1>4, <1>6, <2>2
    <2> QED
      BY <2>1, <2>2
  <1> HIDE DEF kept
  <1>8. /\ copy' \in [Job -> Ref \cup {None}]
        /\ copy'[j] = tree
        /\ \A i \in Job : i # j => copy'[i] \in {copy[i], None}
    BY <1>3 DEF StoreOK
  <1>9. ASSUME NEW i \in Job PROVE copy'[i] # None <=> i \in ToSet(kept)
    <2>1. None \notin Ref
      BY StoreAssumption
    <2>2. CASE i = j
      BY <1>7, <1>8, <2>1, <2>2
    <2>3. CASE i # j
      <3>1. i \in ToSet(kept) => copy[i] # None
        BY <1>7, <2>3 DEF StoreOK
      <3> QED
        BY <1>3, <2>3, <3>1
    <2> QED
      BY <2>2, <2>3
  <1> QED
    BY <1>3, <1>7, <1>8, <1>9 DEF Kept, StoreOK

\* What is got is the resident tree or comes from the file; "own" is never there.
LEMMA GetKeeps ==
  ASSUME StoreOK, FilesOK, NEW j \in Job, Get(j)
  PROVE  /\ Got(j)
         /\ Found(j) = "own" => copy[j] = "own"
         /\ copy[j] # None => Found(j) = copy[j]
         /\ copy[j] = None => Found(j) = file[j].kind /\ file[j] \in Saved
  <1>1. CASE Resident(j)
    <2>1. Found(j) = copy[j] /\ copy[j] \in Ref
      BY <1>1 DEF Found, Resident, StoreOK
    <2> QED
      BY <1>1, <2>1, KeepKeeps DEF Get, Got, Resident
  <1>2. CASE ~Resident(j)
    <2>1. file[j] \in Saved /\ Found(j) = file[j].kind
      BY <1>2 DEF Get, Found, Whole
    <2>2. Found(j) \in Kind
      BY <2>1 DEF Saved
    <2>3. Found(j) \in Ref /\ Found(j) # "own"
      BY <2>2 DEF Kind, Ref
    <2> QED
      BY <1>2, <2>1, <2>3, KeepKeeps DEF Get, Got, Resident
  <1> QED
    BY <1>1, <1>2

\* The event loop opens a file.
LEMMA SaveBegins ==
  ASSUME FilesOK, NEW by \in Writer, NEW j \in Job, NEW tree \in Ref, NEW analyzed \in BOOLEAN,
         LoopSaves(by, j, tree, analyzed)
  PROVE  SaveBegun(by, j, [kind |-> IF tree = "own" THEN "raw" ELSE tree, analyzed |-> analyzed])
  <1>1. [kind |-> IF tree = "own" THEN "raw" ELSE tree, analyzed |-> analyzed] \in Saved
    BY DEF Saved, Ref, Kind
  <1>2. loop' = [by |-> by, job |-> j,
                 what |-> [kind |-> IF tree = "own" THEN "raw" ELSE tree, analyzed |-> analyzed]]
    BY DEF LoopSaves
  <1>3. loop' \in Writing /\ loop' # None
    BY <1>1, <1>2, StoreAssumption DEF Writing
  <1>4. file' \in [Job -> {Absent, Torn} \cup Saved] /\ mixed' \in SUBSET Job
    BY DEF LoopSaves, OpenFile, FilesOK
  <1> QED
    BY <1>2, <1>3, <1>4 DEF SaveBegun, LoopSaves, LoopFree, OpenFile, FilesOK

\* What a writer leaves when it closes the file: what it wrote, or a mixture.
LEMMA FileCloses ==
  ASSUME FilesOK, NEW j \in Job, NEW what \in Saved, NEW others, CloseFile(j, what, others)
  PROVE  /\ file' \in [Job -> {Absent, Torn} \cup Saved]
         /\ mixed' \in SUBSET Job
         /\ file'[j] \in {what, Torn}
         /\ \A i \in Job : i # j => file'[i] = file[i]
  BY DEF CloseFile, FilesOK

\* It closes it.
LEMMA SaveEnds ==
  ASSUME FilesOK, NEW by, LoopCloses(by)
  PROVE  SaveEnded(by)
  <1>1. loop \in Writing /\ loop.by = by /\ loop' = None /\ unlinked' = unlinked
    BY DEF LoopCloses, FilesOK
  <1>2. loop.job \in Job /\ loop.what \in Saved
    BY <1>1 DEF Writing
  <1>3. CloseFile(loop.job, loop.what, ThreadInside(loop.job))
    BY DEF LoopCloses
  <1>4. /\ file' \in [Job -> {Absent, Torn} \cup Saved]
        /\ mixed' \in SUBSET Job
        /\ file'[loop.job] \in {loop.what, Torn}
        /\ \A i \in Job : i # loop.job => file'[i] = file[i]
    BY <1>2, <1>3, FileCloses
  <1> QED
    BY <1>1, <1>2, <1>4 DEF SaveEnded, FilesOK, LoopCloses

\* json.dump raises half-way.
LEMMA FileBreaksOff ==
  ASSUME FilesOK, NEW j \in Job, NEW others, BreakOff(j, others)
  PROVE  /\ file' \in [Job -> {Absent, Torn} \cup Saved]
         /\ mixed' \in SUBSET Job
         /\ file'[j] \in {file[j], Torn}
         /\ \A i \in Job : i # j => file'[i] = file[i]
  BY DEF BreakOff, FilesOK

\* A save is cut short on the event loop.
LEMMA SaveBreaksOff ==
  ASSUME FilesOK, NEW by, LoopBreaksOff(by)
  PROVE  SaveOver(by)
  <1>1. loop \in Writing /\ loop # None /\ loop.by = by /\ loop' = None /\ unlinked' = unlinked
    BY DEF LoopBreaksOff, FilesOK
  <1>2. loop.job \in Job
    BY <1>1 DEF Writing
  <1>3. BreakOff(loop.job, ThreadInside(loop.job))
    BY DEF LoopBreaksOff
  <1>4. /\ file' \in [Job -> {Absent, Torn} \cup Saved]
        /\ mixed' \in SUBSET Job
        /\ file'[loop.job] \in {file[loop.job], Torn}
        /\ \A i \in Job : i # loop.job => file'[i] = file[i]
    BY <1>2, <1>3, FileBreaksOff
  <1> QED
    BY <1>1, <1>2, <1>4 DEF SaveOver, FilesOK

\* It ends one way or the other.
LEMMA SaveIsOver ==
  ASSUME FilesOK, NEW by, LoopCloses(by) \/ LoopBreaksOff(by)
  PROVE  SaveOver(by)
  <1>1. CASE LoopCloses(by)
    BY <1>1, SaveEnds DEF SaveEnded, SaveOver
  <1>2. CASE LoopBreaksOff(by)
    BY <1>2, SaveBreaksOff
  <1> QED
    BY <1>1, <1>2

\* What is got, and what never is.
LEMMA GetFinds ==
  ASSUME IInv, NEW j \in Job, Get(j)
  PROVE  Finds(j)
  <1>1. /\ Found(j) = "own" => copy[j] = "own"
        /\ copy[j] # None => Found(j) = copy[j]
        /\ copy[j] = None => Found(j) = file[j].kind /\ file[j] \in Saved
    BY GetKeeps DEF IInv
  <1>2. Absent \notin Saved /\ Torn \notin Saved
    BY DEF Absent, Torn, Saved, Kind
  <1>3. j \notin fresh
    BY <1>1, <1>2 DEF IInv, FreshUntouched
  <1>4. j \in imported \ peeked => Found(j) \in Leavings(j)
    BY <1>1, <1>2 DEF IInv, ResultStands, Stands, Leavings, Stands
  <1> QED
    BY <1>1, <1>3, <1>4 DEF Finds, IInv, OwnTree

-----------------------------------------------------------------------------
(* Steps *)

\* A new document is imported.
LEMMA UploadKeeps ==
  ASSUME IInv, NEW j \in Job, Upload(j)
  PROVE  IInv'
  <1>1. StoreOK' /\ FilesOK' /\ ImportIsPrivate' /\ HoldersKnow' /\ ResultStands'
    BY DEF IInv, StoreOK, FilesOK, ImportIsPrivate, HoldersKnow, ResultStands, Stands,
           Leavings, Upload,
           store, holders, threads, open, history, LoopFree
  <1>2. ControlOK'
    <2>1. (fresh \in SUBSET Job)'
      BY DEF IInv, ControlOK, Upload
    <2>2. (status \in [Job -> {"none", "running", "failed", "completed"}])'
      BY DEF IInv, ControlOK, Upload
    <2>3. (task \in [Job -> Task])'
      BY DEF IInv, ControlOK, Task, Upload
    <2> QED
      BY <2>1, <2>2, <2>3 DEF IInv, ControlOK, Upload, holders, threads, open, history
  <1>3. FreshUntouched'
    BY DEF IInv, FreshUntouched, ControlOK, Upload, store, holders, history, LoopFree
  <1>4. ImportsAlone'
    BY DEF IInv, ImportsAlone, FreshUntouched, ControlOK, Upload, holders, history
  <1>5. SavesMatchTasks'
    BY DEF IInv, SavesMatchTasks, ControlOK, Upload, store, LoopFree
  <1>6. OwnTree'
    BY DEF IInv, OwnTree, FreshUntouched, ControlOK, Upload, store
  <1>7. ImportCopies'
    BY DEF IInv, ImportCopies, ControlOK, Upload, store, history
  <1> QED
    BY <1>1, <1>2, <1>3, <1>4, <1>5, <1>6, <1>7 DEF IInv

\* A text is kept and saved.
LEMMA UploadTextKeeps ==
  ASSUME IInv, NEW j \in Job, UploadText(j)
  PROVE  IInv'
  <1>1. Kept(j, "raw")
    BY KeepKeeps DEF IInv, UploadText, Ref, Kind
  <1>2. SaveBegun("text", j, [kind |-> "raw", analyzed |-> TRUE])
    BY SaveBegins DEF IInv, UploadText, Writer, Ref, Kind
  <1>3. ImportsAlone' /\ ImportIsPrivate' /\ HoldersKnow'
    BY DEF IInv, ImportsAlone, ImportIsPrivate, HoldersKnow, UploadText, holders,
           threads, history
  <1>4. StoreOK'
    BY <1>1 DEF IInv, StoreOK, UploadText, Kept
  <1>5. FilesOK'
    BY <1>2 DEF IInv, FilesOK, UploadText, SaveBegun
  <1>6. ControlOK'
    <2>1. (fresh \in SUBSET Job)'
      BY DEF IInv, ControlOK, UploadText
    <2> QED
      BY <2>1, <1>2
         DEF IInv, ControlOK, UploadText, SaveBegun, holders, threads, history
  <1>7. FreshUntouched'
    BY <1>1, <1>2
       DEF IInv, FreshUntouched, StoreOK, FilesOK, ControlOK, UploadText, Kept,
           SaveBegun, holders, history
  <1>8. SavesMatchTasks'
    BY <1>1, <1>2, StoreAssumption
       DEF IInv, SavesMatchTasks, FreshUntouched, StoreOK, FilesOK, ControlOK, Holder,
           Kind, Ref, Result, UploadText, Kept, SaveBegun
  <1>9. OwnTree'
    BY <1>1, StoreAssumption
       DEF IInv, OwnTree, StoreOK, ControlOK, Holder, Kind, Ref, Result, UploadText,
           Kept
  <1>10. ImportCopies'
    BY <1>1 DEF IInv, ImportCopies, FreshUntouched, StoreOK, UploadText, Kept, history
  <1>11. ResultStands'
    BY <1>1, <1>2, StoreAssumption
       DEF IInv, ResultStands, Stands, Leavings, FreshUntouched, StoreOK, FilesOK,
           ControlOK, Holder, Kind, Ref, Result, UploadText, Kept, SaveBegun, holders,
           threads, history
  <1> QED
    BY <1>3, <1>4, <1>5, <1>6, <1>7, <1>8, <1>9, <1>10, <1>11 DEF IInv

\* A text is analyzed and saved.
LEMMA TextDoneKeeps ==
  ASSUME IInv, TextDone
  PROVE  IInv'
  <1>1. SaveEnded("text")
    BY SaveEnds DEF IInv, TextDone
  <1>2. ImportIsPrivate' /\ HoldersKnow'
    BY DEF IInv, ImportIsPrivate, HoldersKnow, TextDone, holders, threads
  <1>3. StoreOK'
    BY <1>1, StoreAssumption
       DEF IInv, StoreOK, SavesMatchTasks, FilesOK, ControlOK, Holder, Kind, Ref,
           Result, TextDone, SaveEnded, store, holders, threads, open, history, LoopFree
  <1>4. FilesOK'
    BY <1>1 DEF IInv, FilesOK, TextDone, SaveEnded
  <1>5. ControlOK'
    <2>1. (status \in [Job -> {"none", "running", "failed", "completed"}])'
      BY DEF IInv, ControlOK, TextDone
    <2> QED
      BY <2>1, <1>1 DEF IInv, ControlOK, TextDone, SaveEnded, holders, threads, history
  <1>6. FreshUntouched'
    BY <1>1, StoreAssumption
       DEF IInv, FreshUntouched, StoreOK, FilesOK, ControlOK, Holder, Kind, Ref, Result,
           TextDone, SaveEnded, holders, history
  <1>7. ImportsAlone'
    BY <1>1, StoreAssumption
       DEF IInv, ImportsAlone, SavesMatchTasks, StoreOK, FilesOK, ControlOK, Holder,
           Kind, Ref, Result, TextDone, SaveEnded, store, holders, threads, open,
           history, LoopFree
  <1>8. SavesMatchTasks'
    BY <1>1 DEF IInv, SavesMatchTasks, StoreOK, FilesOK, TextDone, SaveEnded
  <1>9. OwnTree'
    BY DEF IInv, OwnTree, StoreOK, TextDone
  <1>10. ImportCopies'
    BY <1>1, StoreAssumption
       DEF IInv, ImportCopies, SavesMatchTasks, StoreOK, FilesOK, ControlOK, Holder,
           Kind, Ref, Result, TextDone, SaveEnded, store, holders, threads, open,
           history, LoopFree
  <1>11. ResultStands'
    BY <1>1, StoreAssumption
       DEF IInv, ResultStands, Stands, Leavings, StoreOK, FilesOK, ControlOK, Holder,
           Kind, Ref, Result, TextDone, SaveEnded, holders, threads, history
  <1> QED
    BY <1>2, <1>3, <1>4, <1>5, <1>6, <1>7, <1>8, <1>9, <1>10, <1>11 DEF IInv

\* A text is not analyzed, or not saved.
LEMMA TextFailsKeeps ==
  ASSUME IInv, TextFails
  PROVE  IInv'
  <1>1. SaveOver("text")
    BY SaveIsOver DEF IInv, TextFails
  <1>2. /\ StoreOK' /\ ControlOK' /\ ImportsAlone' /\ OwnTree' /\ ImportIsPrivate'
        /\ HoldersKnow' /\ ImportCopies'
    BY <1>1
       DEF IInv, StoreOK, ControlOK, ImportsAlone, OwnTree, ImportIsPrivate,
           HoldersKnow, ImportCopies, TextFails, SaveOver, store, holders, threads,
           history
  <1>3. FilesOK'
    BY <1>1 DEF IInv, FilesOK, TextFails, SaveOver
  <1>4. FreshUntouched'
    BY <1>1, StoreAssumption
       DEF IInv, FreshUntouched, StoreOK, FilesOK, ControlOK, Holder, Kind, Ref, Result,
           TextFails, SaveOver, store, holders, history
  <1>5. SavesMatchTasks'
    BY <1>1 DEF IInv, SavesMatchTasks, FilesOK, TextFails, SaveOver, store
  <1>6. ResultStands'
    BY <1>1, StoreAssumption
       DEF IInv, ResultStands, Stands, Leavings, StoreOK, FilesOK, ControlOK, Holder,
           Kind, Ref, Result, TextFails, SaveOver, store, holders, threads, history
  <1> QED
    BY <1>2, <1>3, <1>4, <1>5, <1>6 DEF IInv

\* The adapter's tree is kept and saved.
LEMMA ParsedKeeps ==
  ASSUME IInv, NEW j \in Job, Parsed(j)
  PROVE  IInv'
  <1>1. Kept(j, "own")
    BY KeepKeeps DEF IInv, Parsed, Ref, Kind
  <1>2. SaveBegun("import", j, [kind |-> "raw", analyzed |-> FALSE])
    BY SaveBegins DEF IInv, Parsed, Writer, Ref, Kind
  <1>3. ImportIsPrivate' /\ HoldersKnow'
    BY DEF IInv, ImportIsPrivate, HoldersKnow, Parsed, holders, threads
  <1>4. StoreOK'
    BY <1>1 DEF IInv, StoreOK, Parsed, Kept
  <1>5. FilesOK'
    BY <1>2 DEF IInv, FilesOK, Parsed, SaveBegun
  <1>6. ControlOK'
    <2>1. (task \in [Job -> Task])'
      BY DEF IInv, ControlOK, Task, Parsed
    <2> QED
      BY <2>1, <1>2 DEF IInv, ControlOK, Parsed, SaveBegun, holders, threads, history
  <1>7. FreshUntouched'
    BY <1>1, <1>2
       DEF IInv, FreshUntouched, StoreOK, FilesOK, ControlOK, Parsed, Kept, SaveBegun,
           holders, history
  <1>8. ImportsAlone'
    BY DEF IInv, ImportsAlone, ControlOK, Parsed, holders, history
  <1>9. SavesMatchTasks'
    BY <1>1, <1>2
       DEF IInv, SavesMatchTasks, StoreOK, FilesOK, ControlOK, Parsed, Kept, SaveBegun
  <1>10. OwnTree'
    BY <1>1, StoreAssumption
       DEF IInv, OwnTree, StoreOK, ControlOK, Holder, Kind, Ref, Result, Parsed, Kept
  <1>11. ImportCopies'
    BY <1>1 DEF IInv, ImportCopies, StoreOK, ControlOK, Parsed, Kept, history
  <1>12. ResultStands'
    BY <1>1, <1>2, StoreAssumption
       DEF IInv, ResultStands, Stands, Leavings, ImportsAlone, StoreOK, FilesOK,
           ControlOK, Holder, Kind, Ref, Result, Parsed, Kept, SaveBegun, holders,
           threads, history
  <1> QED
    BY <1>3, <1>4, <1>5, <1>6, <1>7, <1>8, <1>9, <1>10, <1>11, <1>12 DEF IInv

\* The raw tree is saved.
LEMMA RawSavedKeeps ==
  ASSUME IInv, NEW j \in Job, RawSaved(j)
  PROVE  IInv'
  <1>1. SaveEnded("import")
    BY SaveEnds DEF IInv, RawSaved
  <1>2. StoreOK' /\ ImportIsPrivate' /\ HoldersKnow'
    BY DEF IInv, StoreOK, ImportIsPrivate, HoldersKnow, RawSaved, store, holders,
           threads
  <1>3. FilesOK'
    BY <1>1 DEF IInv, FilesOK, RawSaved, SaveEnded
  <1>4. ControlOK'
    <2>1. (task \in [Job -> Task])'
      BY DEF IInv, ControlOK, Task, RawSaved
    <2> QED
      BY <2>1, <1>1 DEF IInv, ControlOK, RawSaved, SaveEnded, holders, threads, history
  <1>5. FreshUntouched'
    BY <1>1
       DEF IInv, FreshUntouched, FilesOK, ControlOK, RawSaved, SaveEnded, store,
           holders, history
  <1>6. ImportsAlone'
    BY DEF IInv, ImportsAlone, ControlOK, RawSaved, holders, history
  <1>7. SavesMatchTasks'
    BY <1>1 DEF IInv, SavesMatchTasks, FilesOK, ControlOK, RawSaved, SaveEnded, store
  <1>8. OwnTree'
    BY DEF IInv, OwnTree, ControlOK, RawSaved, store
  <1>9. ImportCopies'
    BY DEF IInv, ImportCopies, ControlOK, RawSaved, store, history
  <1>10. ResultStands'
    BY <1>1, StoreAssumption
       DEF IInv, ResultStands, Stands, Leavings, StoreOK, FilesOK, ControlOK, Holder,
           Kind, Ref, Result, RawSaved, SaveEnded, store, holders, threads, history
  <1> QED
    BY <1>2, <1>3, <1>4, <1>5, <1>6, <1>7, <1>8, <1>9, <1>10 DEF IInv

\* The pipeline is done and its tree is saved.
LEMMA AnalyzedKeeps ==
  ASSUME IInv, NEW j \in Job, Analyzed(j)
  PROVE  IInv'
  <1>1. SaveBegun("import", j, Result)
    BY SaveBegins DEF IInv, Analyzed, Writer, Ref, Kind, Result
  <1>2. ImportIsPrivate' /\ HoldersKnow'
    BY DEF IInv, ImportIsPrivate, HoldersKnow, Analyzed, holders, threads
  <1>3. StoreOK'
    BY StoreAssumption DEF IInv, StoreOK, Holder, Kind, Ref, Result, Analyzed
  <1>4. FilesOK'
    BY <1>1 DEF IInv, FilesOK, Analyzed, SaveBegun
  <1>5. ControlOK'
    <2>1. (task \in [Job -> Task])'
      BY DEF IInv, ControlOK, Task, Analyzed
    <2> QED
      BY <2>1, <1>1 DEF IInv, ControlOK, Analyzed, SaveBegun, holders, threads, history
  <1>6. FreshUntouched'
    BY <1>1
       DEF IInv, FreshUntouched, StoreOK, FilesOK, ControlOK, Analyzed, SaveBegun,
           holders, history
  <1>7. ImportsAlone'
    BY DEF IInv, ImportsAlone, ControlOK, Analyzed, holders, history
  <1>8. SavesMatchTasks'
    BY <1>1 DEF IInv, SavesMatchTasks, StoreOK, FilesOK, ControlOK, Analyzed, SaveBegun
  <1>9. OwnTree'
    BY DEF IInv, OwnTree, StoreOK, ControlOK, Analyzed
  <1>10. ImportCopies'
    BY DEF IInv, ImportCopies, StoreOK, ControlOK, Analyzed, history
  <1>11. ResultStands'
    BY <1>1
       DEF IInv, ResultStands, Stands, Leavings, Result, StoreOK, FilesOK, Analyzed,
           SaveBegun, holders, threads, history
  <1> QED
    BY <1>2, <1>3, <1>4, <1>5, <1>6, <1>7, <1>8, <1>9, <1>10, <1>11 DEF IInv

\* The import is over: from here on its result must stand.
LEMMA CompletedKeeps ==
  ASSUME IInv, NEW j \in Job, Completed(j)
  PROVE  IInv'
  <1>1. SaveEnded("import")
    BY SaveEnds DEF IInv, Completed
  <1>2. StoreOK' /\ ImportIsPrivate' /\ HoldersKnow'
    BY DEF IInv, StoreOK, ImportIsPrivate, HoldersKnow, Completed, store, holders,
           threads
  <1>3. FilesOK'
    BY <1>1 DEF IInv, FilesOK, Completed, SaveEnded
  <1>4. ControlOK'
    <2>1. (status \in [Job -> {"none", "running", "failed", "completed"}])'
      BY DEF IInv, ControlOK, Completed
    <2>2. (task \in [Job -> Task])'
      BY DEF IInv, ControlOK, Task, Completed
    <2>3. (imported \in SUBSET Job)'
      BY DEF IInv, ControlOK, Completed
    <2> QED
      BY <2>1, <2>2, <2>3, <1>1
         DEF IInv, ControlOK, Completed, SaveEnded, holders, threads
  <1>5. FreshUntouched'
    BY <1>1
       DEF IInv, FreshUntouched, FilesOK, ControlOK, Completed, SaveEnded, store,
           holders
  <1>6. ImportsAlone'
    BY DEF IInv, ImportsAlone, ControlOK, Completed, holders
  <1>7. SavesMatchTasks'
    BY <1>1 DEF IInv, SavesMatchTasks, FilesOK, ControlOK, Completed, SaveEnded, store
  <1>8. OwnTree'
    BY DEF IInv, OwnTree, ControlOK, Completed, store
  <1>9. ImportCopies'
    BY DEF IInv, ImportCopies, ControlOK, Completed, store
  <1>10. ResultStands'
    BY <1>1, StoreAssumption
       DEF IInv, ResultStands, Stands, Leavings, ImportsAlone, SavesMatchTasks,
           ImportCopies, StoreOK, FilesOK, ControlOK, Holder, Kind, Ref, Result,
           Completed, SaveEnded, store, holders, threads
  <1> QED
    BY <1>2, <1>3, <1>4, <1>5, <1>6, <1>7, <1>8, <1>9, <1>10 DEF IInv

\* An import fails.
LEMMA ImportFailsKeeps ==
  ASSUME IInv, NEW j \in Job, ImportFails(j)
  PROVE  IInv'
  <1>1. Kept(j, "error")
    BY KeepKeeps DEF IInv, ImportFails, Fail, Ref, Kind
  <1>2. FilesOK' /\ ImportIsPrivate' /\ HoldersKnow'
    BY DEF IInv, FilesOK, ImportIsPrivate, HoldersKnow, ImportFails, Fail, holders, threads,
           open, LoopFree
  <1>3. StoreOK'
    BY <1>1 DEF IInv, StoreOK, ImportFails, Fail, Kept
  <1>4. ControlOK'
    <2>1. (status \in [Job -> {"none", "running", "failed", "completed"}])'
      BY DEF IInv, ControlOK, ImportFails, Fail
    <2>2. (task \in [Job -> Task])'
      BY DEF IInv, ControlOK, Task, ImportFails, Fail
    <2> QED
      BY <2>1, <2>2 DEF IInv, ControlOK, ImportFails, Fail, holders, threads, open, history
  <1>5. FreshUntouched'
    BY <1>1
       DEF IInv, FreshUntouched, StoreOK, ControlOK, ImportFails, Fail, Kept, holders,
           history, LoopFree
  <1>6. ImportsAlone'
    BY DEF IInv, ImportsAlone, ControlOK, ImportFails, Fail, holders, history
  <1>7. SavesMatchTasks'
    BY <1>1 DEF IInv, SavesMatchTasks, StoreOK, ControlOK, ImportFails, Fail, Kept, LoopFree
  <1>8. OwnTree'
    BY <1>1, StoreAssumption
       DEF IInv, OwnTree, StoreOK, ControlOK, Holder, Kind, Ref, Result, ImportFails,
           Fail, Kept, LoopFree
  <1>9. ImportCopies'
    BY <1>1 DEF IInv, ImportCopies, StoreOK, ControlOK, ImportFails, Fail, Kept, history
  <1>10. ResultStands'
    BY <1>1, StoreAssumption
       DEF IInv, ResultStands, Stands, Leavings, ImportsAlone, StoreOK, FilesOK,
           ControlOK, Holder, Kind, Ref, Result, ImportFails, Fail, Kept, holders,
           threads, history, LoopFree
  <1> QED
    BY <1>2, <1>3, <1>4, <1>5, <1>6, <1>7, <1>8, <1>9, <1>10 DEF IInv

\* A save of the import is cut short.
LEMMA SaveFailsKeeps ==
  ASSUME IInv, NEW j \in Job, SaveFails(j)
  PROVE  IInv'
  <1>1. Kept(j, "error")
    BY KeepKeeps DEF IInv, SaveFails, Fail, Ref, Kind
  <1>2. SaveOver("import") /\ loop.job = j
    BY SaveBreaksOff DEF IInv, SaveFails, SavesMatchTasks
  <1>3. ImportIsPrivate' /\ HoldersKnow'
    BY DEF IInv, ImportIsPrivate, HoldersKnow, SaveFails, holders, threads
  <1>4. StoreOK'
    BY <1>1 DEF IInv, StoreOK, SaveFails, Kept
  <1>5. FilesOK'
    BY <1>2 DEF SaveOver
  <1>6. ControlOK'
    <2>1. (status \in [Job -> {"none", "running", "failed", "completed"}])'
      BY DEF IInv, ControlOK, SaveFails, Fail
    <2>2. (task \in [Job -> Task])'
      BY DEF IInv, ControlOK, Task, SaveFails, Fail
    <2> QED
      BY <2>1, <2>2, <1>2 DEF IInv, ControlOK, SaveFails, Fail, SaveOver, holders, threads, history
  <1>7. FreshUntouched'
    BY <1>1, <1>2
       DEF IInv, FreshUntouched, StoreOK, FilesOK, ControlOK, SaveFails, Fail, Kept,
           SaveOver, holders, history
  <1>8. ImportsAlone'
    BY DEF IInv, ImportsAlone, ControlOK, SaveFails, Fail, holders, history
  <1>9. SavesMatchTasks'
    BY <1>1, <1>2
       DEF IInv, SavesMatchTasks, StoreOK, ControlOK, SaveFails, Fail, Kept, SaveOver
  <1>10. OwnTree'
    BY <1>1, StoreAssumption
       DEF IInv, OwnTree, StoreOK, ControlOK, Holder, Kind, Ref, SaveFails, Fail, Kept
  <1>11. ImportCopies'
    BY <1>1
       DEF IInv, ImportCopies, StoreOK, ControlOK, SaveFails, Fail, Kept, history
  <1>12. ResultStands'
    BY <1>1, <1>2, StoreAssumption
       DEF IInv, ResultStands, Stands, Leavings, ImportsAlone, StoreOK, FilesOK,
           ControlOK, SaveFails, Fail, Kept, SaveOver, holders, threads, history
  <1> QED
    BY <1>3, <1>4, <1>5, <1>6, <1>7, <1>8, <1>9, <1>10, <1>11, <1>12 DEF IInv

\* The audit log fails after the save: from here on the result must stand, beside
\* the error document.
LEMMA LogFailsKeeps ==
  ASSUME IInv, NEW j \in Job, LogFails(j)
  PROVE  IInv'
  <1>1. Kept(j, "error")
    BY KeepKeeps DEF IInv, LogFails, Fail, Ref, Kind
  <1>2. SaveEnded("import") /\ loop.job = j /\ loop.what = Result
    BY SaveEnds DEF IInv, LogFails, SavesMatchTasks
  <1>3. ImportIsPrivate' /\ HoldersKnow'
    BY DEF IInv, ImportIsPrivate, HoldersKnow, LogFails, holders, threads
  <1>4. StoreOK'
    BY <1>1 DEF IInv, StoreOK, LogFails, Kept
  <1>5. FilesOK'
    BY <1>2 DEF SaveEnded
  <1>6. ControlOK'
    <2>1. (status \in [Job -> {"none", "running", "failed", "completed"}])'
      BY DEF IInv, ControlOK, LogFails, Fail
    <2>2. (task \in [Job -> Task])'
      BY DEF IInv, ControlOK, Task, LogFails, Fail
    <2>3. (imported \in SUBSET Job)' /\ (disowned \in SUBSET imported)'
      BY DEF IInv, ControlOK, LogFails
    <2> QED
      BY <2>1, <2>2, <2>3, <1>2
         DEF IInv, ControlOK, LogFails, Fail, SaveEnded, holders, threads
  <1>7. FreshUntouched'
    BY <1>1, <1>2
       DEF IInv, FreshUntouched, StoreOK, FilesOK, ControlOK, LogFails, Fail, Kept,
           SaveEnded, holders
  <1>8. ImportsAlone'
    BY DEF IInv, ImportsAlone, ControlOK, LogFails, Fail, holders
  <1>9. SavesMatchTasks'
    BY <1>1, <1>2
       DEF IInv, SavesMatchTasks, StoreOK, ControlOK, LogFails, Fail, Kept, SaveEnded
  <1>10. OwnTree'
    BY <1>1, StoreAssumption
       DEF IInv, OwnTree, StoreOK, ControlOK, Holder, Kind, Ref, LogFails, Fail, Kept
  <1>11. ImportCopies'
    BY <1>1
       DEF IInv, ImportCopies, StoreOK, ControlOK, LogFails, Fail, Kept
  <1>12. ResultStands'
    <2>1. ASSUME NEW i \in Job, i # j, i \in imported' \ peeked'
          PROVE  /\ i \in imported \ peeked
                 /\ copy'[i] \in {copy[i], None}
                 /\ file'[i] = file[i]
                 /\ Leavings(i)' = Leavings(i)
      BY <1>1, <1>2, <2>1 DEF LogFails, Kept, SaveEnded, Leavings
    <2>2. /\ copy'[j] = "error" /\ file'[j] \in {Result, Torn}
          /\ Leavings(j)' = {"analyzed", "error"}
          /\ \A h \in Holder : job'[h] # j
      BY <1>1, <1>2 DEF LogFails, Kept, SaveEnded, Leavings, IInv, ImportsAlone, holders
    <2>3. loop' = None
      BY <1>2 DEF SaveEnded
    <2>4. ASSUME NEW i \in Job, i # j, i \in imported' \ peeked'
          PROVE  /\ copy'[i] \in {None} \cup Leavings(i)'
                 /\ file'[i] \in {Absent, Torn} \/ Stands(i, file[i])'
                 /\ \A h \in Holder : job'[h] = i => held'[h] \in Leavings(i)'
                 /\ \A t \in Translation :
                      job'[t] = i /\ run'[t] \in {"snap", "write"} => snapshot'[t] \in Leavings(i)'
      BY <2>1, <2>4 DEF IInv, ResultStands, Stands, LogFails, holders, threads
    <2>5. /\ copy'[j] \in {None} \cup Leavings(j)'
          /\ file'[j] \in {Absent, Torn} \/ Stands(j, file[j])'
          /\ \A h \in Holder : job'[h] = j => held'[h] \in Leavings(j)'
          /\ \A t \in Translation :
               job'[t] = j /\ run'[t] \in {"snap", "write"} => snapshot'[t] \in Leavings(j)'
      BY <2>2 DEF Stands, Result, Holder
    <2>6. imported' \subseteq Job
      BY <1>6 DEF ControlOK
    <2> QED
      BY <2>3, <2>4, <2>5, <2>6 DEF ResultStands
  <1> QED
    BY <1>3, <1>4, <1>5, <1>6, <1>7, <1>8, <1>9, <1>10, <1>11, <1>12 DEF IInv

\* A file cannot be fetched.
LEMMA FetchFailsKeeps ==
  ASSUME IInv, NEW j \in Job, FetchFails(j)
  PROVE  IInv'
  <1>1. StoreOK' /\ FilesOK' /\ ImportIsPrivate' /\ HoldersKnow' /\ ResultStands'
    BY DEF IInv, StoreOK, FilesOK, ImportIsPrivate, HoldersKnow, ResultStands, Stands,
           Leavings, FetchFails, store, holders, threads, open, history, LoopFree
  <1>2. ControlOK'
    <2>1. (status \in [Job -> {"none", "running", "failed", "completed"}])'
      BY DEF IInv, ControlOK, FetchFails
    <2>2. (task \in [Job -> Task])'
      BY DEF IInv, ControlOK, Task, FetchFails
    <2> QED
      BY <2>1, <2>2 DEF IInv, ControlOK, FetchFails, holders, threads, open, history
  <1>3. FreshUntouched'
    BY DEF IInv, FreshUntouched, ControlOK, FetchFails, store, holders, history,
           LoopFree
  <1>4. ImportsAlone'
    BY DEF IInv, ImportsAlone, ControlOK, FetchFails, holders, history
  <1>5. SavesMatchTasks'
    BY DEF IInv, SavesMatchTasks, ControlOK, FetchFails, store, LoopFree
  <1>6. OwnTree'
    BY DEF IInv, OwnTree, ControlOK, FetchFails, store
  <1>7. ImportCopies'
    BY DEF IInv, ImportCopies, ControlOK, FetchFails, store, history
  <1> QED
    BY <1>1, <1>2, <1>3, <1>4, <1>5, <1>6, <1>7 DEF IInv

\* A reader that does not ask may read the raw tree back.
LEMMA PeekKeeps ==
  ASSUME IInv, NEW j \in Job, Peek(j)
  PROVE  IInv'
  <1>1. Got(j) /\ Finds(j)
    BY GetKeeps, GetFinds DEF IInv, Peek
  <1>2. FilesOK' /\ ImportsAlone' /\ ImportIsPrivate' /\ HoldersKnow'
    BY <1>1
       DEF IInv, FilesOK, ImportsAlone, ImportIsPrivate, HoldersKnow, Peek, Got, Finds,
           holders, threads, open, LoopFree
  <1>3. StoreOK'
    BY <1>1 DEF IInv, StoreOK, Peek, Kept, Got, Finds
  <1>4. ControlOK'
    <2>1. (peeked \in SUBSET Job)'
      BY <1>1 DEF IInv, ControlOK, Peek, Got, Finds
    <2> QED
      BY <2>1, <1>1 DEF IInv, ControlOK, Peek, Got, Finds, holders, threads, open
  <1>5. FreshUntouched'
    BY <1>1, StoreAssumption
       DEF IInv, FreshUntouched, StoreOK, FilesOK, ControlOK, Holder, Kind, Ref, Result,
           Peek, Kept, Got, Finds, holders, LoopFree
  <1>6. SavesMatchTasks'
    BY <1>1 DEF IInv, SavesMatchTasks, StoreOK, Peek, Kept, Got, Finds, LoopFree
  <1>7. OwnTree'
    BY <1>1, StoreAssumption
       DEF IInv, OwnTree, StoreOK, ControlOK, Holder, Kind, Ref, Result, Peek, Kept,
           Got, Finds, LoopFree
  <1>8. ImportCopies'
    BY <1>1, StoreAssumption
       DEF IInv, ImportCopies, SavesMatchTasks, StoreOK, ControlOK, Holder, Kind, Ref,
           Result, Peek, Kept, Got, Finds, LoopFree
  <1>9. ResultStands'
    BY <1>1
       DEF IInv, ResultStands, Stands, Leavings, StoreOK, ControlOK, Peek, Kept, Got,
           Finds, holders, threads, LoopFree
  <1> QED
    BY <1>2, <1>3, <1>4, <1>5, <1>6, <1>7, <1>8, <1>9 DEF IInv

\* So may the activation of a skill, which saves it.
LEMMA ActivateSkillKeeps ==
  ASSUME IInv, NEW j \in Job, ActivateSkill(j)
  PROVE  IInv'
  <1>1. Got(j) /\ Finds(j)
    BY GetKeeps, GetFinds DEF IInv, ActivateSkill
  <1>2. SaveBegun("skill", j, [kind |-> IF Found(j) = "own" THEN "raw" ELSE Found(j), analyzed |-> TRUE])
    BY <1>1, SaveBegins DEF Got, IInv, ActivateSkill, Writer
  <1>3. j \in imported \ peeked => Stands(j, loop'.what)
    BY <1>1, <1>2 DEF Finds, SaveBegun, Stands, Leavings
  <1>4. ImportsAlone' /\ ImportIsPrivate' /\ HoldersKnow'
    BY <1>1, <1>3
       DEF IInv, ImportsAlone, ImportIsPrivate, HoldersKnow, ActivateSkill, Got, Finds,
           holders, threads
  <1>5. StoreOK'
    BY <1>1, <1>3 DEF IInv, StoreOK, ActivateSkill, Kept, Got, Finds
  <1>6. FilesOK'
    BY <1>2, <1>3 DEF IInv, FilesOK, ActivateSkill, SaveBegun
  <1>7. ControlOK'
    <2>1. (peeked \in SUBSET Job)'
      BY <1>1, <1>3 DEF IInv, ControlOK, ActivateSkill, Got, Finds
    <2> QED
      BY <2>1, <1>1, <1>2, <1>3
         DEF IInv, ControlOK, ActivateSkill, Got, Finds, SaveBegun, holders, threads
  <1>8. FreshUntouched'
    BY <1>1, <1>2, <1>3, StoreAssumption
       DEF IInv, FreshUntouched, StoreOK, FilesOK, ControlOK, Holder, Kind, Ref, Result,
           ActivateSkill, Kept, Got, Finds, SaveBegun, holders
  <1>9. SavesMatchTasks'
    BY <1>1, <1>2, <1>3
       DEF IInv, SavesMatchTasks, StoreOK, FilesOK, ActivateSkill, Kept, Got, Finds,
           SaveBegun
  <1>10. OwnTree'
    BY <1>1, <1>3, StoreAssumption
       DEF IInv, OwnTree, StoreOK, ControlOK, Holder, Kind, Ref, Result, ActivateSkill,
           Kept, Got, Finds
  <1>11. ImportCopies'
    BY <1>1, <1>2, <1>3, StoreAssumption
       DEF IInv, ImportCopies, SavesMatchTasks, StoreOK, FilesOK, ControlOK, Holder,
           Kind, Ref, Result, ActivateSkill, Kept, Got, Finds, SaveBegun, store,
           holders, threads, open, history, LoopFree
  <1>12. ResultStands'
    BY <1>1, <1>2, <1>3
       DEF IInv, ResultStands, Stands, Leavings, StoreOK, FilesOK, ControlOK,
           ActivateSkill, Kept, Got, Finds, SaveBegun, holders, threads
  <1> QED
    BY <1>4, <1>5, <1>6, <1>7, <1>8, <1>9, <1>10, <1>11, <1>12 DEF IInv

\* That save ends.
LEMMA SkillSavedKeeps ==
  ASSUME IInv, SkillSaved
  PROVE  IInv'
  <1>1. SaveOver("skill")
    BY SaveIsOver DEF IInv, SkillSaved
  <1>2. /\ StoreOK' /\ ControlOK' /\ ImportsAlone' /\ OwnTree' /\ ImportIsPrivate'
        /\ HoldersKnow' /\ ImportCopies'
    BY <1>1
       DEF IInv, StoreOK, ControlOK, ImportsAlone, OwnTree, ImportIsPrivate,
           HoldersKnow, ImportCopies, SkillSaved, SaveOver, store, holders, threads,
           history
  <1>3. FilesOK'
    BY <1>1 DEF IInv, FilesOK, SkillSaved, SaveOver
  <1>4. FreshUntouched'
    BY <1>1, StoreAssumption
       DEF IInv, FreshUntouched, StoreOK, FilesOK, ControlOK, Holder, Kind, Ref, Result,
           SkillSaved, SaveOver, store, holders, history
  <1>5. SavesMatchTasks'
    BY <1>1 DEF IInv, SavesMatchTasks, FilesOK, SkillSaved, SaveOver, store
  <1>6. ResultStands'
    BY <1>1, StoreAssumption
       DEF IInv, ResultStands, Stands, Leavings, StoreOK, FilesOK, ControlOK, Holder,
           Kind, Ref, Result, SkillSaved, SaveOver, store, holders, threads, history
  <1> QED
    BY <1>2, <1>3, <1>4, <1>5, <1>6 DEF IInv

\* A document is deleted.
LEMMA DeleteKeeps ==
  ASSUME IInv, NEW j \in Job, Delete(j)
  PROVE  IInv'
  <1>1. /\ RemoveFirst(lru, j) \in Seq(Job)
        /\ IsInjective(RemoveFirst(lru, j))
        /\ ToSet(RemoveFirst(lru, j)) = ToSet(lru) \ {j}
        /\ Len(RemoveFirst(lru, j)) <= Len(lru)
    BY RemoveFirstKeeps DEF IInv, StoreOK
  <1>2. (Len(lru) \in Nat /\ Len(RemoveFirst(lru, j)) \in Nat /\ MaxResident \in Nat)
    BY <1>1, StoreAssumption DEF IInv, StoreOK
  <1>3. ImportsAlone' /\ ImportIsPrivate' /\ HoldersKnow'
    BY <1>1, <1>2
       DEF IInv, ImportsAlone, ImportIsPrivate, HoldersKnow, Delete, holders, threads,
           history
  <1>4. StoreOK'
    BY <1>1, <1>2 DEF IInv, StoreOK, Delete
  <1>5. FilesOK'
    BY <1>1, <1>2 DEF IInv, FilesOK, Delete, LoopFree
  <1>6. ControlOK'
    <2>1. (interrupted \in SUBSET Job)'
      BY <1>1, <1>2 DEF IInv, ControlOK, Delete
    <2>2. (unlinked \subseteq {x \in Translation : run[x] = "write"})'
      BY <1>1, <1>2 DEF IInv, ControlOK, Delete, threads, ThreadWrites
    <2> QED
      BY <2>1, <2>2, <1>1, <1>2 DEF IInv, ControlOK, Delete, holders, threads, history
  <1>7. FreshUntouched'
    BY <1>1, <1>2
       DEF IInv, FreshUntouched, StoreOK, FilesOK, Delete, holders, history, LoopFree
  <1>8. SavesMatchTasks'
    BY <1>1, <1>2 DEF IInv, SavesMatchTasks, StoreOK, Delete, LoopFree
  <1>9. OwnTree'
    BY <1>1, <1>2, StoreAssumption
       DEF IInv, OwnTree, StoreOK, ControlOK, Holder, Kind, Ref, Result, Delete,
           LoopFree
  <1>10. ImportCopies'
    BY <1>1, <1>2 DEF IInv, ImportCopies, StoreOK, Delete, history
  <1>11. ResultStands'
    BY <1>1, <1>2
       DEF IInv, ResultStands, Stands, Leavings, StoreOK, FilesOK, Delete, holders,
           threads, history, LoopFree
  <1> QED
    BY <1>3, <1>4, <1>5, <1>6, <1>7, <1>8, <1>9, <1>10, <1>11 DEF IInv

\* A handler takes a document.
LEMMA OpenKeeps ==
  ASSUME IInv, NEW e \in Editor, NEW j \in Job, Open(e, j)
  PROVE  IInv'
  <1>1. Got(j) /\ Finds(j)
    BY GetKeeps, GetFinds DEF IInv, Open, Hold
  <1>2. status[j] # "running" /\ task[j] = "none"
    BY DEF IInv, Open, Hold, Settled, ImportsAlone
  <1>3. FilesOK'
    BY <1>2 DEF IInv, FilesOK, Open, Hold, open, LoopFree
  <1>4. StoreOK'
    BY <1>1, <1>2 DEF IInv, StoreOK, Open, Kept, Got, Finds
  <1>5. ControlOK'
    <2>1. (held \in [Holder -> Ref \cup {None}])'
      BY <1>1, <1>2, StoreAssumption
         DEF IInv, ControlOK, StoreOK, FilesOK, Holder, Ref, Task, Run, Kind, Open,
             Hold, Got, Finds, store, holders, threads, open, history, LoopFree
    <2>2. (job \in [Holder -> Job \cup {None}])'
      BY <1>2 DEF IInv, ControlOK, Holder, Open, Hold
    <2>3. (peeked \in SUBSET Job)'
      BY <1>1, <1>2 DEF IInv, ControlOK, Open, Got, Finds
    <2> QED
      BY <2>1, <2>2, <2>3, <1>1, <1>2
         DEF IInv, ControlOK, Open, Hold, Got, Finds, threads, open
  <1>6. FreshUntouched'
    BY <1>1, <1>2
       DEF IInv, FreshUntouched, StoreOK, ControlOK, Holder, Open, Hold, Kept, Got,
           Finds, LoopFree
  <1>7. ImportsAlone'
    BY <1>1, <1>2 DEF IInv, ImportsAlone, ControlOK, Holder, Open, Hold, Got, Finds
  <1>8. SavesMatchTasks'
    BY <1>1, <1>2
       DEF IInv, SavesMatchTasks, StoreOK, Open, Hold, Kept, Got, Finds, LoopFree
  <1>9. OwnTree'
    BY <1>1, <1>2, StoreAssumption
       DEF IInv, OwnTree, StoreOK, ControlOK, Holder, Kind, Ref, Result, Open, Hold,
           Kept, Got, Finds, LoopFree
  <1>10. ImportIsPrivate'
    BY <1>1, <1>2, StoreAssumption
       DEF IInv, ImportIsPrivate, StoreOK, FilesOK, ControlOK, Holder, Kind, Ref,
           Result, Open, Hold, Got, Finds, store, holders, threads, open, history,
           LoopFree
  <1>11. HoldersKnow'
    BY <1>2 DEF IInv, HoldersKnow, ControlOK, Holder, Open, Hold, threads
  <1>12. ImportCopies'
    BY <1>1, <1>2 DEF IInv, ImportCopies, StoreOK, ControlOK, Open, Kept, Got, Finds
  <1>13. ResultStands'
    BY <1>1, <1>2, StoreAssumption
       DEF IInv, ResultStands, Stands, Leavings, StoreOK, FilesOK, ControlOK, Holder,
           Kind, Ref, Result, Open, Hold, Kept, Got, Finds, threads, LoopFree
  <1> QED
    BY <1>3, <1>4, <1>5, <1>6, <1>7, <1>8, <1>9, <1>10, <1>11, <1>12, <1>13 DEF IInv

\* A handler drops it, ...
LEMMA GiveUpKeeps ==
  ASSUME IInv, NEW e \in Editor, GiveUp(e)
  PROVE  IInv'
  <1>1. StoreOK' /\ FilesOK' /\ SavesMatchTasks' /\ OwnTree' /\ ImportCopies'
    BY DEF IInv, StoreOK, FilesOK, SavesMatchTasks, OwnTree, ImportCopies, GiveUp,
           store, open, history, LoopFree
  <1>2. ControlOK'
    <2>1. (held \in [Holder -> Ref \cup {None}])'
      BY DEF IInv, ControlOK, Holder, Ref, GiveUp, Drop
    <2>2. (job \in [Holder -> Job \cup {None}])'
      BY DEF IInv, ControlOK, Holder, GiveUp, Drop
    <2> QED
      BY <2>1, <2>2 DEF IInv, ControlOK, GiveUp, threads, open, history
  <1>3. FreshUntouched'
    BY StoreAssumption
       DEF IInv, FreshUntouched, StoreOK, FilesOK, ControlOK, Holder, Kind, Ref, Result,
           GiveUp, Drop, store, history, LoopFree
  <1>4. ImportsAlone'
    BY StoreAssumption
       DEF IInv, ImportsAlone, ControlOK, Holder, Kind, Ref, Result, GiveUp, Drop,
           history, LoopFree
  <1>5. ImportIsPrivate'
    BY StoreAssumption
       DEF IInv, ImportIsPrivate, ControlOK, Holder, Kind, Ref, Result, GiveUp, Drop,
           LoopFree
  <1>6. HoldersKnow'
    BY StoreAssumption
       DEF IInv, HoldersKnow, ControlOK, Holder, Kind, Ref, Result, GiveUp, Drop,
           threads, LoopFree
  <1>7. ResultStands'
    BY StoreAssumption
       DEF IInv, ResultStands, Stands, Leavings, StoreOK, FilesOK, ControlOK, Holder,
           Kind, Ref, Result, GiveUp, Drop, store, threads, history, LoopFree
  <1> QED
    BY <1>1, <1>2, <1>3, <1>4, <1>5, <1>6, <1>7 DEF IInv

\* ... saves what it holds, ...
LEMMA CommitKeeps ==
  ASSUME IInv, NEW e \in Editor, Commit(e)
  PROVE  IInv'
  <1>1. job[e] \in Job /\ held[e] \in Kind
    BY DEF IInv, Commit, HoldersKnow, ImportIsPrivate, ControlOK, Holder, Ref
  <1>2. SaveBegun(e, job[e], [kind |-> held[e], analyzed |-> TRUE])
    BY <1>1, SaveBegins DEF IInv, Commit, Writer, Ref, Kind
  <1>3. job[e] \in imported \ peeked => Stands(job[e], loop'.what)
    BY <1>1, <1>2 DEF SaveBegun, IInv, ResultStands, Stands, Holder
  <1>4. /\ StoreOK' /\ ControlOK' /\ ImportsAlone' /\ OwnTree' /\ ImportIsPrivate'
        /\ HoldersKnow' /\ ImportCopies'
    BY <1>1, <1>2, <1>3
       DEF IInv, StoreOK, ControlOK, ImportsAlone, OwnTree, ImportIsPrivate,
           HoldersKnow, ImportCopies, Commit, SaveBegun, store, holders, threads,
           history
  <1>5. FilesOK'
    BY <1>1, <1>2, <1>3 DEF IInv, FilesOK, Commit, SaveBegun
  <1>6. FreshUntouched'
    BY <1>1, <1>2, <1>3, StoreAssumption
       DEF IInv, FreshUntouched, StoreOK, FilesOK, ControlOK, Holder, Kind, Ref, Result,
           Commit, SaveBegun, store, holders, history
  <1>7. SavesMatchTasks'
    BY <1>1, <1>2, <1>3, StoreAssumption
       DEF IInv, SavesMatchTasks, StoreOK, FilesOK, ControlOK, Holder, Kind, Ref,
           Result, Commit, SaveBegun, store
  <1>8. ResultStands'
    BY <1>1, <1>2, <1>3
       DEF IInv, ResultStands, Stands, Leavings, FilesOK, Commit, SaveBegun, store,
           holders, threads, history
  <1> QED
    BY <1>4, <1>5, <1>6, <1>7, <1>8 DEF IInv

\* ... and is done.
LEMMA CommittedKeeps ==
  ASSUME IInv, NEW e \in Editor, Committed(e)
  PROVE  IInv'
  <1>1. SaveOver(e)
    BY SaveIsOver DEF IInv, Committed
  <1>2. e \notin {"text", "import", "skill"} \cup Translation
    BY StoreAssumption
  <1>3. StoreOK' /\ OwnTree' /\ ImportCopies'
    BY <1>2 DEF IInv, StoreOK, OwnTree, ImportCopies, Committed, store, history
  <1>4. FilesOK'
    BY <1>1, <1>2 DEF IInv, FilesOK, Committed, SaveOver
  <1>5. ControlOK'
    <2>1. (held \in [Holder -> Ref \cup {None}])'
      BY <1>2 DEF IInv, ControlOK, Holder, Ref, Committed, Drop
    <2>2. (job \in [Holder -> Job \cup {None}])'
      BY <1>2 DEF IInv, ControlOK, Holder, Committed, Drop
    <2> QED
      BY <2>1, <2>2, <1>1, <1>2
         DEF IInv, ControlOK, Committed, SaveOver, threads, history
  <1>6. FreshUntouched'
    BY <1>1, <1>2, StoreAssumption
       DEF IInv, FreshUntouched, StoreOK, FilesOK, ControlOK, Holder, Kind, Ref, Result,
           Committed, Drop, SaveOver, store, history
  <1>7. ImportsAlone'
    BY <1>2, StoreAssumption
       DEF IInv, ImportsAlone, ControlOK, Holder, Kind, Ref, Result, Committed, Drop,
           history
  <1>8. SavesMatchTasks'
    BY <1>1, <1>2 DEF IInv, SavesMatchTasks, FilesOK, Committed, SaveOver, store
  <1>9. ImportIsPrivate'
    BY <1>2, StoreAssumption
       DEF IInv, ImportIsPrivate, ControlOK, Holder, Kind, Ref, Result, Committed, Drop
  <1>10. HoldersKnow'
    BY <1>2 DEF IInv, HoldersKnow, ControlOK, Holder, Committed, Drop, threads
  <1>11. ResultStands'
    BY <1>1, <1>2, StoreAssumption
       DEF IInv, ResultStands, Stands, Leavings, StoreOK, FilesOK, ControlOK, Holder,
           Kind, Ref, Result, Committed, Drop, SaveOver, store, threads, history
  <1> QED
    BY <1>3, <1>4, <1>5, <1>6, <1>7, <1>8, <1>9, <1>10, <1>11 DEF IInv

\* A translation takes a document.
LEMMA StartTranslationKeeps ==
  ASSUME IInv, NEW t \in Translation, NEW j \in Job, StartTranslation(t, j)
  PROVE  IInv'
  <1>1. Got(j) /\ Finds(j)
    BY GetKeeps, GetFinds DEF IInv, StartTranslation, Hold
  <1>2. status[j] # "running" /\ task[j] = "none"
    BY DEF IInv, StartTranslation, Hold, Settled, ImportsAlone
  <1>3. run[t] = "idle"
    BY DEF IInv, StartTranslation, Hold, HoldersKnow
  <1>4. FilesOK'
    BY <1>2, <1>3 DEF IInv, FilesOK, StartTranslation, Hold, open, LoopFree
  <1>5. StoreOK'
    BY <1>1, <1>2, <1>3 DEF IInv, StoreOK, StartTranslation, Kept, Got, Finds
  <1>6. ControlOK'
    <2>1. (held \in [Holder -> Ref \cup {None}])'
      BY <1>1, <1>2, <1>3, StoreAssumption
         DEF IInv, ControlOK, StoreOK, FilesOK, Holder, Ref, Task, Run, Kind,
             StartTranslation, Hold, Got, Finds, store, holders, threads, open, history,
             LoopFree
    <2>2. (job \in [Holder -> Job \cup {None}])'
      BY <1>2, <1>3 DEF IInv, ControlOK, Holder, StartTranslation, Hold
    <2>3. (run \in [Translation -> Run])'
      BY <1>2, <1>3 DEF IInv, ControlOK, Run, StartTranslation
    <2>4. (unlinked \subseteq {x \in Translation : run[x] = "write"})'
      BY <1>2, <1>3 DEF IInv, ControlOK, StartTranslation, open
    <2>5. (peeked \in SUBSET Job)'
      BY <1>1, <1>2, <1>3 DEF IInv, ControlOK, StartTranslation, Got, Finds
    <2> QED
      BY <2>1, <2>2, <2>3, <2>4, <2>5, <1>1, <1>2, <1>3
         DEF IInv, ControlOK, StartTranslation, Hold, Got, Finds, open
  <1>7. FreshUntouched'
    BY <1>1, <1>2, <1>3
       DEF IInv, FreshUntouched, StoreOK, ControlOK, Holder, StartTranslation, Hold,
           Kept, Got, Finds, LoopFree
  <1>8. ImportsAlone'
    BY <1>1, <1>2, <1>3
       DEF IInv, ImportsAlone, ControlOK, Holder, StartTranslation, Hold, Got, Finds
  <1>9. SavesMatchTasks'
    BY <1>1, <1>2, <1>3
       DEF IInv, SavesMatchTasks, StoreOK, StartTranslation, Hold, Kept, Got, Finds,
           LoopFree
  <1>10. OwnTree'
    BY <1>1, <1>2, <1>3, StoreAssumption
       DEF IInv, OwnTree, StoreOK, ControlOK, Holder, Kind, Ref, Result,
           StartTranslation, Hold, Kept, Got, Finds, LoopFree
  <1>11. ImportIsPrivate'
    BY <1>1, <1>2, <1>3, StoreAssumption
       DEF IInv, ImportIsPrivate, StoreOK, FilesOK, ControlOK, Holder, Kind, Ref,
           Result, StartTranslation, Hold, Got, Finds, store, holders, threads, open,
           history, LoopFree
  <1>12. HoldersKnow'
    BY <1>1, <1>2, <1>3, StoreAssumption
       DEF IInv, HoldersKnow, StoreOK, FilesOK, ControlOK, Holder, Kind, Ref, Result,
           StartTranslation, Hold, Got, Finds, store, holders, threads, open, history,
           LoopFree
  <1>13. ImportCopies'
    BY <1>1, <1>2, <1>3
       DEF IInv, ImportCopies, StoreOK, ControlOK, StartTranslation, Kept, Got, Finds
  <1>14. ResultStands'
    BY <1>1, <1>2, <1>3
       DEF IInv, ResultStands, Stands, Leavings, StoreOK, ControlOK, Holder,
           StartTranslation, Hold, Kept, Got, Finds, LoopFree
  <1> QED
    BY <1>4, <1>5, <1>6, <1>7, <1>8, <1>9, <1>10, <1>11, <1>12, <1>13, <1>14 DEF IInv

\* Its thread starts, or there is nothing to do.
LEMMA LaunchKeeps ==
  ASSUME IInv, NEW t \in Translation, Launch(t)
  PROVE  IInv'
  <1>1. job[t] \in Job
    BY DEF IInv, Launch, HoldersKnow, Holder
  <1>2. StoreOK' /\ FilesOK' /\ SavesMatchTasks' /\ OwnTree' /\ ImportCopies'
    BY <1>1
       DEF IInv, StoreOK, FilesOK, SavesMatchTasks, OwnTree, ImportCopies, Launch,
           store, open, history, LoopFree
  <1>3. ControlOK'
    <2>1. (held \in [Holder -> Ref \cup {None}])'
      BY <1>1 DEF IInv, ControlOK, Holder, Ref, Launch, Drop, holders
    <2>2. (job \in [Holder -> Job \cup {None}])'
      BY <1>1 DEF IInv, ControlOK, Holder, Launch, Drop, holders
    <2>3. (translating \in SUBSET Job)'
      BY <1>1 DEF IInv, ControlOK, Launch
    <2>4. (run \in [Translation -> Run])'
      BY <1>1 DEF IInv, ControlOK, Run, Launch
    <2>5. (unlinked \subseteq {x \in Translation : run[x] = "write"})'
      BY <1>1 DEF IInv, ControlOK, Launch, open
    <2> QED
      BY <2>1, <2>2, <2>3, <2>4, <2>5, <1>1 DEF IInv, ControlOK, Launch, open, history
  <1>4. FreshUntouched'
    BY <1>1, StoreAssumption
       DEF IInv, FreshUntouched, StoreOK, FilesOK, ControlOK, Holder, Kind, Ref, Result,
           Launch, Drop, store, holders, history, LoopFree
  <1>5. ImportsAlone'
    BY <1>1, StoreAssumption
       DEF IInv, ImportsAlone, ControlOK, Holder, Kind, Ref, Result, Launch, Drop,
           holders, history, LoopFree
  <1>6. ImportIsPrivate'
    BY <1>1, StoreAssumption
       DEF IInv, ImportIsPrivate, ControlOK, Holder, Kind, Ref, Result, Launch, Drop,
           holders, LoopFree
  <1>7. HoldersKnow'
    BY <1>1 DEF IInv, HoldersKnow, ControlOK, Holder, Launch, Drop, holders
  <1>8. ResultStands'
    BY <1>1, StoreAssumption
       DEF IInv, ResultStands, Stands, Leavings, StoreOK, FilesOK, ControlOK, Holder,
           Kind, Ref, Result, Launch, Drop, store, holders, history, LoopFree
  <1> QED
    BY <1>2, <1>3, <1>4, <1>5, <1>6, <1>7, <1>8 DEF IInv

\* Its thread serializes the document, ...
LEMMA SnapshotKeeps ==
  ASSUME IInv, NEW t \in Translation, Snapshot(t)
  PROVE  IInv'
  <1>1. /\ StoreOK' /\ FilesOK' /\ FreshUntouched' /\ ImportsAlone'
        /\ SavesMatchTasks' /\ OwnTree' /\ ImportIsPrivate' /\ ImportCopies'
    BY DEF IInv, StoreOK, FilesOK, FreshUntouched, ImportsAlone, SavesMatchTasks,
           OwnTree, ImportIsPrivate, ImportCopies, Snapshot, store, holders, open,
           history
  <1>2. ControlOK'
    <2>1. (run \in [Translation -> Run])'
      BY DEF IInv, ControlOK, Run, Snapshot
    <2>2. (snapshot \in [Translation -> Kind \cup {None}])'
      BY StoreAssumption DEF IInv, ControlOK, Kind, Ref, Holder, Task, Run, Snapshot
    <2>3. (unlinked \subseteq {x \in Translation : run[x] = "write"})'
      BY DEF IInv, ControlOK, Snapshot, open
    <2> QED
      BY <2>1, <2>2, <2>3 DEF IInv, ControlOK, Snapshot, holders, open, history
  <1>3. HoldersKnow'
    BY StoreAssumption
       DEF IInv, HoldersKnow, ControlOK, Holder, Kind, Ref, Result, Snapshot, holders
  <1>4. ResultStands'
    BY StoreAssumption
       DEF IInv, ResultStands, Stands, Leavings, StoreOK, FilesOK, ControlOK, Holder,
           Kind, Ref, Result, Snapshot, store, holders, history
  <1> QED
    BY <1>1, <1>2, <1>3, <1>4 DEF IInv

\* ... opens the file ...
LEMMA ThreadOpensKeeps ==
  ASSUME IInv, NEW t \in Translation, ThreadOpens(t)
  PROVE  IInv'
  <1>1. job[t] \in Job
    BY DEF IInv, ThreadOpens, HoldersKnow, Holder
  <1>2. /\ StoreOK' /\ ImportsAlone' /\ SavesMatchTasks' /\ OwnTree'
        /\ ImportIsPrivate' /\ ImportCopies'
    BY <1>1
       DEF IInv, StoreOK, ImportsAlone, SavesMatchTasks, OwnTree, ImportIsPrivate,
           ImportCopies, ThreadOpens, store, holders, history
  <1>3. FilesOK'
    BY <1>1 DEF IInv, FilesOK, ThreadOpens, OpenFile
  <1>4. ControlOK'
    <2>1. (run \in [Translation -> Run])'
      BY <1>1 DEF IInv, ControlOK, Run, ThreadOpens
    <2>2. (unlinked \subseteq {x \in Translation : run[x] = "write"})'
      BY <1>1 DEF IInv, ControlOK, ThreadOpens
    <2> QED
      BY <2>1, <2>2, <1>1 DEF IInv, ControlOK, ThreadOpens, holders, history
  <1>5. FreshUntouched'
    BY <1>1, StoreAssumption
       DEF IInv, FreshUntouched, StoreOK, FilesOK, ControlOK, Holder, Kind, Ref, Result,
           ThreadOpens, OpenFile, store, holders, history
  <1>6. HoldersKnow'
    BY <1>1 DEF IInv, HoldersKnow, ControlOK, ThreadOpens, holders
  <1>7. ResultStands'
    BY <1>1
       DEF IInv, ResultStands, Stands, Leavings, FilesOK, ControlOK, ThreadOpens,
           OpenFile, store, holders, history
  <1> QED
    BY <1>2, <1>3, <1>4, <1>5, <1>6, <1>7 DEF IInv

\* ... and closes it.
LEMMA ThreadClosesKeeps ==
  ASSUME IInv, NEW t \in Translation, ThreadCloses(t)
  PROVE  IInv'
  <1>1. job[t] \in Job
    BY DEF IInv, ThreadCloses, HoldersKnow, Holder
  <1>2. [kind |-> snapshot[t], analyzed |-> TRUE] \in Saved
    BY DEF IInv, ThreadCloses, HoldersKnow, ControlOK, Saved
  <1>3. /\ FilesOK'
        /\ file'[job[t]] \in {file[job[t]], [kind |-> snapshot[t], analyzed |-> TRUE], Torn}
        /\ \A i \in Job : i # job[t] => file'[i] = file[i]
    BY <1>1, <1>2, FileCloses, FileBreaksOff DEF IInv, FilesOK, ThreadCloses
  <1>4. StoreOK' /\ SavesMatchTasks' /\ OwnTree' /\ ImportCopies'
    BY <1>1, <1>2, <1>3
       DEF IInv, StoreOK, SavesMatchTasks, OwnTree, ImportCopies, ThreadCloses, store,
           history
  <1>5. FilesOK'
    BY <1>1, <1>2, <1>3 DEF IInv, FilesOK, ThreadCloses
  <1>6. ControlOK'
    <2>1. (held \in [Holder -> Ref \cup {None}])'
      BY <1>1, <1>2, <1>3 DEF IInv, ControlOK, Holder, Ref, ThreadCloses, Drop, holders
    <2>2. (job \in [Holder -> Job \cup {None}])'
      BY <1>1, <1>2, <1>3 DEF IInv, ControlOK, Holder, ThreadCloses, Drop, holders
    <2>3. (translating \in SUBSET Job)'
      BY <1>1, <1>2, <1>3 DEF IInv, ControlOK, ThreadCloses
    <2>4. (run \in [Translation -> Run])'
      BY <1>1, <1>2, <1>3 DEF IInv, ControlOK, Run, ThreadCloses
    <2>5. (snapshot \in [Translation -> Kind \cup {None}])'
      BY <1>1, <1>2, <1>3 DEF IInv, ControlOK, Kind, Ref, ThreadCloses
    <2>6. (unlinked \subseteq {x \in Translation : run[x] = "write"})'
      BY <1>1, <1>2, <1>3 DEF IInv, ControlOK, ThreadCloses
    <2> QED
      BY <2>1, <2>2, <2>3, <2>4, <2>5, <2>6, <1>1, <1>2, <1>3
         DEF IInv, ControlOK, ThreadCloses, history
  <1>7. FreshUntouched'
    BY <1>1, <1>2, <1>3, StoreAssumption
       DEF IInv, FreshUntouched, StoreOK, FilesOK, ControlOK, Holder, Kind, Ref, Result,
           ThreadCloses, Drop, store, holders, history
  <1>8. ImportsAlone'
    BY <1>1, <1>2, <1>3, StoreAssumption
       DEF IInv, ImportsAlone, ControlOK, Holder, Kind, Ref, Result, ThreadCloses, Drop,
           holders, history
  <1>9. ImportIsPrivate'
    BY <1>1, <1>2, <1>3, StoreAssumption
       DEF IInv, ImportIsPrivate, ControlOK, Holder, Kind, Ref, Result, ThreadCloses,
           Drop, holders
  <1>10. HoldersKnow'
    BY <1>1, <1>2, <1>3
       DEF IInv, HoldersKnow, ControlOK, Holder, ThreadCloses, Drop, holders
  <1>11. ResultStands'
    BY <1>1, <1>2, <1>3, StoreAssumption
       DEF IInv, ResultStands, Stands, Leavings, StoreOK, FilesOK, ControlOK, Holder,
           Kind, Ref, Result, ThreadCloses, Drop, store, holders, history
  <1> QED
    BY <1>4, <1>5, <1>6, <1>7, <1>8, <1>9, <1>10, <1>11 DEF IInv

\* The server stops and starts again.
LEMMA RestartKeeps ==
  ASSUME IInv, Restart
  PROVE  IInv'
  <1>1. StoreOK'
    BY StoreAssumption
       DEF IInv, StoreOK, IsInjective, ToSet, Holder, Kind, Ref, Result, Restart,
           MemoryIsLost
  <1>2. FilesOK'
    BY DEF IInv, FilesOK, Restart, MemoryIsLost
  <1>3. ControlOK'
    <2>1. (status \in [Job -> {"none", "running", "failed", "completed"}])'
      BY DEF IInv, ControlOK, Restart, MemoryIsLost
    <2>2. (interrupted \in SUBSET Job)'
      BY DEF IInv, ControlOK, Restart, MemoryIsLost
    <2>3. (task \in [Job -> Task])'
      BY DEF IInv, ControlOK, Task, Restart, MemoryIsLost
    <2>4. (held \in [Holder -> Ref \cup {None}])'
      BY DEF IInv, ControlOK, Holder, Ref, Restart, MemoryIsLost
    <2>5. (job \in [Holder -> Job \cup {None}])'
      BY DEF IInv, ControlOK, Holder, Restart, MemoryIsLost
    <2>6. (translating \in SUBSET Job)'
      BY DEF IInv, ControlOK, Restart, MemoryIsLost
    <2>7. (run \in [Translation -> Run])'
      BY DEF IInv, ControlOK, Run, Restart, MemoryIsLost
    <2>8. (snapshot \in [Translation -> Kind \cup {None}])'
      BY DEF IInv, ControlOK, Kind, Ref, Restart, MemoryIsLost
    <2>9. (unlinked \subseteq {x \in Translation : run[x] = "write"})'
      BY DEF IInv, ControlOK, Restart, MemoryIsLost
    <2> QED
      BY <2>1, <2>2, <2>3, <2>4, <2>5, <2>6, <2>7, <2>8, <2>9
         DEF IInv, ControlOK, Restart, MemoryIsLost, history
  <1>4. FreshUntouched'
    BY StoreAssumption
       DEF IInv, FreshUntouched, StoreOK, FilesOK, ControlOK, Holder, Kind, Ref, Result,
           Restart, MemoryIsLost, history
  <1>5. ImportsAlone'
    BY DEF IInv, ImportsAlone, ControlOK, Holder, Restart, MemoryIsLost, history
  <1>6. SavesMatchTasks'
    BY DEF IInv, SavesMatchTasks, StoreOK, FilesOK, ControlOK, Restart, MemoryIsLost
  <1>7. OwnTree'
    BY StoreAssumption
       DEF IInv, OwnTree, StoreOK, ControlOK, Holder, Kind, Ref, Result, Restart,
           MemoryIsLost
  <1>8. ImportIsPrivate'
    BY StoreAssumption
       DEF IInv, ImportIsPrivate, ControlOK, Holder, Kind, Ref, Result, Restart,
           MemoryIsLost
  <1>9. HoldersKnow'
    BY DEF IInv, HoldersKnow, ControlOK, Holder, Restart, MemoryIsLost
  <1>10. ImportCopies'
    BY DEF IInv, ImportCopies, StoreOK, ControlOK, Restart, MemoryIsLost, history
  <1>11. ResultStands'
    BY StoreAssumption
       DEF IInv, ResultStands, Stands, Leavings, StoreOK, FilesOK, ControlOK, Holder,
           Kind, Ref, Result, Restart, MemoryIsLost, history
  <1> QED
    BY <1>1, <1>2, <1>3, <1>4, <1>5, <1>6, <1>7, <1>8, <1>9, <1>10, <1>11 DEF IInv
-----------------------------------------------------------------------------
(* Theorems *)

\* Nothing is uploaded yet.
LEMMA InitKeeps == Init => IInv
  <1> SUFFICES ASSUME Init PROVE IInv
    OBVIOUS
  <1>1. StoreOK
    BY StoreAssumption DEF Init, StoreOK, IsInjective, ToSet
  <1>2. FilesOK
    BY DEF Init, FilesOK
  <1>3. ControlOK
    BY DEF Init, ControlOK, Task, Run
  <1>4. FreshUntouched
    BY StoreAssumption DEF Init, FreshUntouched
  <1>5. ImportsAlone /\ SavesMatchTasks /\ HoldersKnow /\ ImportCopies /\ ResultStands
    BY DEF Init, ImportsAlone, SavesMatchTasks, HoldersKnow, ImportCopies, ResultStands
  <1>6. OwnTree /\ ImportIsPrivate
    BY StoreAssumption DEF Init, OwnTree, ImportIsPrivate, Ref
  <1> QED
    BY <1>1, <1>2, <1>3, <1>4, <1>5, <1>6 DEF IInv

\* Every step keeps the invariant.
LEMMA NextKeeps ==
  ASSUME IInv, [Next]_vars
  PROVE  IInv'
  <1>1. ASSUME NEW j \in Job, Import(j) PROVE IInv'
    BY <1>1, ParsedKeeps, RawSavedKeeps, AnalyzedKeeps, CompletedKeeps, ImportFailsKeeps,
       SaveFailsKeeps, LogFailsKeeps, FetchFailsKeeps DEF Import
  <1>2. ASSUME NEW j \in Job,
               Upload(j) \/ UploadText(j) \/ Peek(j) \/ ActivateSkill(j) \/ Delete(j)
        PROVE  IInv'
    BY <1>2, UploadKeeps, UploadTextKeeps, PeekKeeps, ActivateSkillKeeps, DeleteKeeps
  <1>3. ASSUME NEW e \in Editor, Edit(e) PROVE IInv'
    BY <1>3, OpenKeeps, GiveUpKeeps, CommitKeeps, CommittedKeeps DEF Edit
  <1>4. ASSUME NEW t \in Translation, Translate(t) PROVE IInv'
    BY <1>4, StartTranslationKeeps, LaunchKeeps, SnapshotKeeps, ThreadOpensKeeps,
       ThreadClosesKeeps DEF Translate
  <1>5. CASE TextDone \/ TextFails \/ SkillSaved \/ Restart
    BY <1>5, TextDoneKeeps, TextFailsKeeps, SkillSavedKeeps, RestartKeeps
  <1>6. CASE UNCHANGED vars
    <2>1. StoreOK' /\ FilesOK' /\ ControlOK'
      BY <1>6 DEF IInv, StoreOK, FilesOK, ControlOK, vars, store, holders, threads, open, history
    <2>2. /\ FreshUntouched' /\ ImportsAlone' /\ SavesMatchTasks' /\ OwnTree'
          /\ ImportIsPrivate' /\ HoldersKnow' /\ ImportCopies' /\ ResultStands'
      BY <1>6 DEF IInv, FreshUntouched, ImportsAlone, SavesMatchTasks, OwnTree,
         ImportIsPrivate, HoldersKnow, ImportCopies, ResultStands, Stands, Leavings,
         vars, store, holders, threads, open, history
    <2> QED
      BY <2>1, <2>2 DEF IInv
  <1> QED
    BY <1>1, <1>2, <1>3, <1>4, <1>5, <1>6 DEF Next

\* The invariant holds throughout.
LEMMA InvariantHolds == Spec => []IInv
  BY InitKeeps, NextKeeps, PTL DEF Spec

\* Types; the cache never holds more than MaxResident trees, each once, and its
\* keys are those of the resident trees.
THEOREM TypeCorrect == Spec => []TypeOK
  <1>1. IInv => TypeOK
    BY DEF IInv, StoreOK, FilesOK, ControlOK, TypeOK
  <1> QED
    BY <1>1, InvariantHolds, PTL

\* However evictions, deletions, crashes and requests interleave with an import,
\* no handler that asks _settled_doc and no translation ever holds the tree the
\* pipeline is working on (app.py, _settled_doc and _run_pipeline_background).
THEOREM ImportsArePrivate == Spec => []ImportIsPrivate
  <1>1. IInv => ImportIsPrivate
    BY DEF IInv
  <1> QED
    BY <1>1, InvariantHolds, PTL

\* What an import saved stands in the file until the document is deleted, whatever
\* is saved after it or cut short, unless a reader that does not ask _settled_doc
\* read the adapter's tree back during the import; beside it, only the error document
\* of an import that failed after its save gets there (app.py, _persist_doc and
\* _run_pipeline_background).
THEOREM ImportsStand == Spec => []OnlyAPeekOrAFailureUndoesAnImport
  <1>1. Absent \notin Saved /\ Torn \notin Saved
    BY DEF Absent, Torn, Saved, Kind
  <1>2. IInv => OnlyAPeekOrAFailureUndoesAnImport
    BY <1>1 DEF IInv, ResultStands, Stands, Leavings, OnlyAPeekOrAFailureUndoesAnImport, Whole
  <1> QED
    BY <1>2, InvariantHolds, PTL
=============================================================================

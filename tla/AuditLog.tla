------------------------------- MODULE AuditLog -------------------------------
(***************************************************************************)
(* The hash-chained audit log (audit/logger.py): records are appended to a *)
(* file, each with the number and the hash of the one before. Writers in   *)
(* one process take a lock, so that a call of log is one step; the process *)
(* may stop in the middle of a write, and the write may raise.             *)
(*                                                                         *)
(* A record stands for its line, and `id` for the hash of it: every record *)
(* has its own. A line is what lies between two newlines, which may be     *)
(* more than one write when the first of them was torn.                    *)
(***************************************************************************)
EXTENDS Naturals, SequencesExt

VARIABLES lines,     \* of the file: [parts, ended]
          seq, prev, \* _seq, _prev_hash
          made,      \* records made so far, in any process
          written    \* records whose call of log returned

audit == <<lines, seq, prev, made, written>>

\* What is left of a record that was cut off, and the hash before the first.
Torn == [torn |-> TRUE]
Zero == 0

AuditInit ==
  /\ lines = <<>> /\ seq = 0 /\ prev = Zero
  /\ made = 0 /\ written = {}

-----------------------------------------------------------------------------

NextRecord(what) == [id |-> made + 1, seq |-> seq + 1, prev |-> prev, what |-> what]

\* Fault: the newline is forgotten.
AppendedOpen(part, ended) ==
  IF lines # <<>> /\ ~Last(lines).ended
  THEN [lines EXCEPT ![Len(lines)] = [parts |-> Append(@.parts, part), ended |-> FALSE]]
  ELSE Append(lines, [parts |-> <<part>>, ended |-> FALSE])

\* open(path, "a") goes on where the file ends, be it the middle of a line.
Appended(part, ended) ==
  IF lines # <<>> /\ ~Last(lines).ended
  THEN [lines EXCEPT ![Len(lines)] = [parts |-> Append(@.parts, part), ended |-> ended]]
  ELSE Append(lines, [parts |-> <<part>>, ended |-> ended])

\* The head of the chain moves before the line is written.
Advance(record) ==
  /\ seq' = record.seq /\ prev' = record.id
  /\ made' = made + 1

Log(what) ==
  LET record == NextRecord(what)
  IN  /\ Advance(record)
      /\ lines' = Appended(record, TRUE)
      /\ written' = written \cup {record}

\* The write raises: no space, no permission.
LogFails(what) ==
  /\ Advance(NextRecord(what))
  /\ UNCHANGED <<lines, written>>

\* json.loads takes one record with nothing before or after it.
Readable(line) == Len(line.parts) = 1 /\ line.parts[1] # Torn

ReadableIn(file) == {i \in DOMAIN file : Readable(file[i])}

\* __init__ of the next process: the last line that can be read is the head.
Reopen(file) ==
  LET head == file[Max(ReadableIn(file))].parts[1]
  IN  /\ lines' = file
      /\ seq' = IF ReadableIn(file) = {} THEN 0 ELSE head.seq
      /\ prev' = IF ReadableIn(file) = {} THEN Zero ELSE head.id

LogReopened == Reopen(lines) /\ UNCHANGED <<made, written>>

\* The process stops inside write: nothing of the record is in the file, a part
\* of it, or all of it but the newline.
LogCutOff(what) ==
  /\ Reopen(lines) \/ Reopen(Appended(Torn, FALSE)) \/ Reopen(Appended(NextRecord(what), FALSE))
  /\ made' = made + 1
  /\ UNCHANGED written

-----------------------------------------------------------------------------
(* What the log is good for *)

Records == {lines[i].parts[1] : i \in ReadableIn(lines)}

Unreadable == DOMAIN lines \ ReadableIn(lines)

\* The records that can be read are numbered upwards, and a record names as its
\* predecessor the one before it, unless what is missing shows: a line between
\* them that cannot be read, or a number left out.
BreaksShow ==
  \A i, j \in DOMAIN lines :
    /\ i < j /\ Readable(lines[i]) /\ Readable(lines[j])
    /\ \A k \in (i + 1)..(j - 1) : ~Readable(lines[k])
    => LET a == lines[i].parts[1]
           b == lines[j].parts[1]
       IN  /\ a.seq < b.seq
           /\ b.prev = a.id \/ j > i + 1 \/ b.seq > a.seq + 1

\* No record whose write returned is lost without an unreadable line in its
\* place, and such a line costs one of them: the one written next to the torn one.
LossShows ==
  LET lost == written \ Records
  IN  /\ \A r \in lost : \E i \in Unreadable : r \in Range(lines[i].parts)
      /\ \A i \in Unreadable : Cardinality(Range(lines[i].parts) \cap written) <= 1

\* The chain is evidence (RFC 0020 4, "append-only, SHA-256 chained"): through
\* failed writes, torn lines and restarts what is missing leaves a trace.
LogIsEvidence == BreaksShow /\ LossShows
=============================================================================

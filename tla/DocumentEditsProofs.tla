------------------------- MODULE DocumentEditsProofs -------------------------
(***************************************************************************)
(* Proofs about the edits of a finished document and the audit log, for    *)
(* every number of requests, words and restarts.                           *)
(*                                                                         *)
(* The first part is about the log alone: whatever is appended, cut off or *)
(* read again, the file stays a chain whose gaps show.  The second part is *)
(* about the trees and the file: which edits they have, what was recorded  *)
(* of them, and in which blocks their words stand.                         *)
(***************************************************************************)
EXTENDS DocumentEdits, WellFoundedInduction, FiniteSetTheorems, TLAPS

-----------------------------------------------------------------------------
(* The log *)

\* A record of a request, a line of the file, and what the line is made of.
RecordOf == [id : Nat \ {0}, seq : Nat, prev : Nat, what : Request]
Line == [parts : Seq(RecordOf \cup {Torn}) \ {<<>>}, ended : BOOLEAN]
Parts(f, i) == ToSet(f[i].parts)

\* The chain in a file f, w the records written to it whole, m the last id given.
FileTyped(f, w) == f \in Seq(Line) /\ w \in SUBSET RecordOf

NoneAhead(f, w, m) ==
  /\ \A r \in w : r.id <= m
  /\ \A i \in DOMAIN f : \A p \in Parts(f, i) : p # Torn => p.id <= m

Numbered(f) ==
  \A i, j \in ReadableIn(f) : i < j => f[i].parts[1].seq < f[j].parts[1].seq

GapsShow(f) ==
  \A i, j \in ReadableIn(f) :
    (i < j /\ \A k \in (i + 1)..(j - 1) : ~Readable(f[k])) =>
      \/ f[j].parts[1].prev = f[i].parts[1].id
      \/ j > i + 1
      \/ f[j].parts[1].seq > f[i].parts[1].seq + 1

WrittenStands(f, w) == \A r \in w : \E i \in DOMAIN f : r \in Parts(f, i)

OneToALine(f, w) ==
  \A i \in DOMAIN f :
    /\ \A p, q \in Parts(f, i) \cap w : p = q
    /\ f[i].ended \/ Parts(f, i) \cap w = {}

FileOK(f, w, m) ==
  /\ FileTyped(f, w) /\ NoneAhead(f, w, m) /\ Numbered(f) /\ GapsShow(f)
  /\ WrittenStands(f, w) /\ OneToALine(f, w)

\* The head of the chain, number s and hash p, is not behind the file.
HeadFollows(f, s, p) ==
  \A i \in ReadableIn(f) :
    /\ f[i].parts[1].seq <= s
    /\ f[i].parts[1].seq = s => f[i].parts[1].id = p

\* The inductive invariant of the log.
LogOK ==
  /\ seq \in Nat /\ prev \in Nat /\ made \in Nat
  /\ FileOK(lines, written, made) /\ HeadFollows(lines, seq, prev)

\* A line of f tells of request r.
TellsOf(f, r) == \E i \in DOMAIN f : \E p \in Parts(f, i) : p # Torn /\ p.what = r

\* What is left of a record is no record.
LEMMA TornIsNoRecord == \A p \in RecordOf : p # Torn
  BY DEF RecordOf, Torn

\* The parts of a line are those it had and the one appended.
LEMMA AppendedParts ==
  ASSUME NEW S, NEW s \in Seq(S), NEW x \in S
  PROVE  ToSet(Append(s, x)) = ToSet(s) \cup {x}
  <1>1. /\ DOMAIN Append(s, x) = 1..(Len(s) + 1) /\ Len(s) \in Nat
        /\ \A i \in 1..Len(s) : Append(s, x)[i] = s[i]
        /\ Append(s, x)[Len(s) + 1] = x
        /\ DOMAIN s = 1..Len(s)
    OBVIOUS
  <1>2. 1..(Len(s) + 1) = 1..Len(s) \cup {Len(s) + 1}
    BY <1>1
  <1> QED
    BY <1>1, <1>2 DEF ToSet

\* A part goes to the last line while that is open, or to a line of its own.
LEMMA AppendedFacts ==
  ASSUME lines \in Seq(Line), NEW part \in RecordOf \cup {Torn}, NEW ended \in BOOLEAN
  PROVE  LET f == Appended(part, ended)
             n == Len(f)
         IN  /\ f \in Seq(Line) /\ n \in DOMAIN f /\ n \in Nat
             /\ DOMAIN f = DOMAIN lines \cup {n}
             /\ \A i \in DOMAIN f : i <= n
             /\ \A i \in DOMAIN f \ {n} : f[i] = lines[i]
             /\ f[n].ended = ended
             /\ \/ /\ n \notin DOMAIN lines
                   /\ f[n].parts = <<part>> /\ Parts(f, n) = {part}
                \/ /\ n \in DOMAIN lines /\ ~lines[n].ended
                   /\ Parts(f, n) = Parts(lines, n) \cup {part}
                   /\ ~Readable(f[n])
  <1> DEFINE f == Appended(part, ended)
             n == Len(f)
  <1>1. CASE lines # <<>> /\ ~Last(lines).ended
    <2> DEFINE m == Len(lines)
               g == [parts |-> Append(lines[m].parts, part), ended |-> ended]
    <2>1. m \in Nat /\ m \in DOMAIN lines /\ DOMAIN lines = 1..m
      BY <1>1
    <2>2. /\ lines[m] \in Line /\ lines[m].parts \in Seq(RecordOf \cup {Torn})
          /\ lines[m].parts # <<>> /\ ~lines[m].ended
      <3>1. lines[m] \in Line
        BY <2>1
      <3>2. ~lines[m].ended
        BY <1>1 DEF Last
      <3> QED
        BY <3>1, <3>2 DEF Line
    <2>3. f = [lines EXCEPT ![m] = g]
      BY <1>1 DEF Appended
    <2>4. /\ g.parts \in Seq(RecordOf \cup {Torn}) /\ Len(g.parts) = Len(lines[m].parts) + 1
          /\ Len(lines[m].parts) \in Nat \ {0}
      BY <2>2
    <2>5. g \in Line
      BY <2>4 DEF Line
    <2>6. /\ f \in Seq(Line) /\ n = m /\ f[m] = g
          /\ \A i \in DOMAIN f \ {m} : f[i] = lines[i]
          /\ DOMAIN f = DOMAIN lines
      BY <2>1, <2>3, <2>5
    <2>7. ToSet(g.parts) = ToSet(lines[m].parts) \cup {part}
      BY <2>2, AppendedParts
    <2>8. ~Readable(g)
      <3>1. Len(g.parts) # 1
        BY <2>4
      <3> HIDE DEF g
      <3> QED
        BY <3>1 DEF Readable
    <2> HIDE DEF f, g
    <2>9. Parts(f, n) = Parts(lines, n) \cup {part}
      BY <2>6, <2>7 DEF Parts
    <2>10. g.ended = ended
      BY DEF g
    <2>11. \A i \in DOMAIN f : i <= n
      BY <2>1, <2>6
    <2> QED
      BY <2>1, <2>2, <2>6, <2>8, <2>9, <2>10, <2>11 DEF f
  <1>2. CASE ~(lines # <<>> /\ ~Last(lines).ended)
    <2> DEFINE g == [parts |-> <<part>>, ended |-> ended]
    <2>1. f = Append(lines, g)
      BY <1>2 DEF Appended
    <2>2. <<part>> \in Seq(RecordOf \cup {Torn}) /\ <<part>> # <<>> /\ ToSet(<<part>>) = {part}
      BY DEF ToSet
    <2>3. g \in Line
      BY <2>2 DEF Line
    <2>4. /\ Len(lines) \in Nat /\ DOMAIN lines = 1..Len(lines)
          /\ f \in Seq(Line) /\ n = Len(lines) + 1
          /\ DOMAIN f = 1..(Len(lines) + 1)
          /\ f[n] = g
          /\ \A i \in 1..Len(lines) : f[i] = lines[i]
      BY <2>1, <2>3
    <2> HIDE DEF f
    <2>5. DOMAIN f = DOMAIN lines \cup {n} /\ n \notin DOMAIN lines
      BY <2>4
    <2>6. Parts(f, n) = {part}
      BY <2>2, <2>4 DEF Parts
    <2>7. \A i \in DOMAIN f : i <= n
      BY <2>4
    <2> QED
      BY <2>4, <2>5, <2>6, <2>7 DEF f
  <1> QED
    BY <1>1, <1>2

\* What can be read after a part was appended: what could be read, without the
\* line it went to, or with it when the part is a record and has a line to itself.
LEMMA AppendedReadable ==
  ASSUME lines \in Seq(Line), NEW part \in RecordOf \cup {Torn}, NEW ended \in BOOLEAN
  PROVE  LET f == Appended(part, ended)
             n == Len(f)
         IN  /\ \A i \in ReadableIn(f) \ {n} : i \in ReadableIn(lines) /\ f[i] = lines[i]
             /\ n \in ReadableIn(f) => /\ n \notin DOMAIN lines /\ part \in RecordOf
                                       /\ f[n].parts[1] = part
             /\ \A i \in DOMAIN lines \ {n} : Readable(f[i]) <=> Readable(lines[i])
  <1> DEFINE f == Appended(part, ended)
             n == Len(f)
  <1>1. /\ DOMAIN f = DOMAIN lines \cup {n}
        /\ \A i \in DOMAIN f \ {n} : f[i] = lines[i]
    BY AppendedFacts
  <1>2. \/ n \notin DOMAIN lines /\ f[n].parts = <<part>>
        \/ ~Readable(f[n])
    BY AppendedFacts
  <1> HIDE DEF f, n
  <1>3. \A i \in DOMAIN lines \ {n} : f[i] = lines[i]
    BY <1>1
  <1>4. \A i \in ReadableIn(f) \ {n} : i \in ReadableIn(lines) /\ f[i] = lines[i]
    BY <1>1 DEF ReadableIn
  <1>5. ASSUME n \in ReadableIn(f)
        PROVE  n \notin DOMAIN lines /\ part \in RecordOf /\ f[n].parts[1] = part
    <2>1. Readable(f[n])
      BY <1>5 DEF ReadableIn
    <2>2. n \notin DOMAIN lines /\ f[n].parts = <<part>>
      BY <1>2, <2>1
    <2>3. f[n].parts[1] = part
      BY <2>2
    <2>4. part # Torn
      BY <2>1, <2>3 DEF Readable
    <2> QED
      BY <2>2, <2>3, <2>4
  <1> QED
    BY <1>3, <1>4, <1>5 DEF f, n

\* A record that can be read is a record.
LEMMA ReadableTyped ==
  ASSUME NEW f \in Seq(Line), NEW i \in ReadableIn(f)
  PROVE  /\ f[i].parts[1] \in RecordOf /\ f[i].parts[1] \in Parts(f, i)
         /\ i \in DOMAIN f /\ i \in Nat
         /\ \A p \in Parts(f, i) : p = f[i].parts[1]
  <1>1. i \in DOMAIN f /\ i \in Nat /\ f[i] \in Line /\ Readable(f[i])
    BY DEF ReadableIn
  <1>2. /\ f[i].parts \in Seq(RecordOf \cup {Torn}) /\ Len(f[i].parts) = 1
        /\ f[i].parts[1] # Torn
    BY <1>1 DEF Line, Readable
  <1>3. DOMAIN f[i].parts = {1}
    BY <1>2
  <1>4. f[i].parts[1] \in RecordOf
    BY <1>2, <1>3
  <1>5. ToSet(f[i].parts) = {f[i].parts[1]}
    BY <1>3 DEF ToSet
  <1> QED
    BY <1>1, <1>4, <1>5 DEF Parts

\* A line is made of records and torn ones.
LEMMA PartsTyped ==
  ASSUME NEW f \in Seq(Line), NEW i \in DOMAIN f
  PROVE  Parts(f, i) \subseteq RecordOf \cup {Torn}
  <1>1. f[i] \in Line
    OBVIOUS
  <1>2. f[i].parts \in Seq(RecordOf \cup {Torn})
    BY <1>1 DEF Line
  <1>3. \A k \in DOMAIN f[i].parts : f[i].parts[k] \in RecordOf \cup {Torn}
    BY <1>2
  <1> QED
    BY <1>3 DEF Parts, ToSet

\* A part appended to the file, torn or the next record, whole or without its
\* newline, leaves the file a chain; w is what is known to be written after it.
LEMMA AppendKeeps ==
  ASSUME LogOK, NEW part \in RecordOf \cup {Torn}, NEW ended \in BOOLEAN, NEW w,
         part # Torn => part.id = made + 1 /\ part.seq = seq + 1 /\ part.prev = prev,
         w = written \/ (part # Torn /\ ended /\ w = written \cup {part})
  PROVE  FileOK(Appended(part, ended), w, made + 1)
  <1> DEFINE f == Appended(part, ended)
             n == Len(f)
  <1>1. /\ lines \in Seq(Line) /\ written \in SUBSET RecordOf
        /\ seq \in Nat /\ prev \in Nat /\ made \in Nat
        /\ NoneAhead(lines, written, made) /\ Numbered(lines) /\ GapsShow(lines)
        /\ WrittenStands(lines, written) /\ OneToALine(lines, written)
        /\ HeadFollows(lines, seq, prev)
    BY DEF LogOK, FileOK, FileTyped
  <1>2. /\ f \in Seq(Line) /\ n \in DOMAIN f /\ n \in Nat
        /\ DOMAIN f = DOMAIN lines \cup {n}
        /\ \A i \in DOMAIN f : i <= n
        /\ \A i \in DOMAIN f \ {n} : f[i] = lines[i]
        /\ f[n].ended = ended
    BY <1>1, AppendedFacts
  <1>3. \/ n \notin DOMAIN lines /\ Parts(f, n) = {part}
        \/ /\ n \in DOMAIN lines /\ ~lines[n].ended
           /\ Parts(f, n) = Parts(lines, n) \cup {part}
    BY <1>1, AppendedFacts
  <1>4. /\ \A i \in ReadableIn(f) \ {n} : i \in ReadableIn(lines) /\ f[i] = lines[i]
        /\ n \in ReadableIn(f) => /\ n \notin DOMAIN lines /\ part \in RecordOf
                                  /\ f[n].parts[1] = part
        /\ \A i \in DOMAIN lines \ {n} : Readable(f[i]) <=> Readable(lines[i])
    BY <1>1, AppendedReadable
  <1> HIDE DEF f, n
  <1>5. \A i \in DOMAIN f \ {n} : Parts(f, i) = Parts(lines, i)
    BY <1>2 DEF Parts
  <1>6. part \in RecordOf => part # Torn
    BY TornIsNoRecord
  <1>7. part \notin written
    BY <1>1, TornIsNoRecord DEF NoneAhead
  <1>8. FileTyped(f, w)
    BY <1>1, <1>2 DEF FileTyped
  <1>9. NoneAhead(f, w, made + 1)
    <2>1. ASSUME NEW r \in w PROVE r.id <= made + 1
      <3>1. CASE r \in written
        BY <1>1, <3>1 DEF NoneAhead, RecordOf
      <3>2. CASE r \notin written
        BY <1>1, <2>1, <3>2
      <3> QED
        BY <3>1, <3>2
    <2>2. ASSUME NEW i \in DOMAIN lines, NEW p \in Parts(lines, i), p # Torn
          PROVE  p.id <= made + 1
      <3>1. p.id <= made
        BY <1>1, <2>2 DEF NoneAhead
      <3>2. p \in RecordOf
        BY <1>1, <2>2, PartsTyped
      <3> QED
        BY <1>1, <3>1, <3>2 DEF RecordOf
    <2>3. ASSUME NEW i \in DOMAIN f, NEW p \in Parts(f, i), p # Torn PROVE p.id <= made + 1
      <3>1. CASE i # n
        BY <1>2, <1>5, <2>2, <2>3, <3>1
      <3>2. CASE i = n /\ p = part
        BY <1>1, <2>3, <3>2
      <3>3. CASE i = n /\ p # part
        BY <1>3, <2>2, <2>3, <3>3
      <3> QED
        BY <3>1, <3>2, <3>3
    <2> QED
      BY <2>1, <2>3 DEF NoneAhead
  <1>10. Numbered(f)
    <2>1. ASSUME NEW i \in ReadableIn(f), NEW j \in ReadableIn(f), i < j
          PROVE  f[i].parts[1].seq < f[j].parts[1].seq
      <3>1. i \in DOMAIN f /\ j \in DOMAIN f /\ i \in Nat /\ j \in Nat
        BY <1>2, ReadableTyped
      <3>2. i # n
        BY <1>2, <2>1, <3>1
      <3>3. i \in ReadableIn(lines) /\ f[i] = lines[i]
        BY <1>4, <3>2
      <3>4. CASE j # n
        BY <1>1, <1>4, <2>1, <3>3, <3>4 DEF Numbered
      <3>5. CASE j = n
        <4>1. f[j].parts[1].seq = seq + 1
          BY <1>4, <1>6, <3>5
        <4>2. f[i].parts[1].seq <= seq
          BY <1>1, <3>3 DEF HeadFollows
        <4>3. f[i].parts[1] \in RecordOf
          BY <1>2, ReadableTyped
        <4>4. f[i].parts[1].seq \in Nat
          BY <4>3 DEF RecordOf
        <4> QED
          BY <1>1, <4>1, <4>2, <4>4
      <3> QED
        BY <3>4, <3>5
    <2> QED
      BY <2>1 DEF Numbered
  <1>11. GapsShow(f)
    <2>1. ASSUME NEW i \in ReadableIn(f), NEW j \in ReadableIn(f),
                 i < j, \A k \in (i + 1)..(j - 1) : ~Readable(f[k])
          PROVE  \/ f[j].parts[1].prev = f[i].parts[1].id
                 \/ j > i + 1
                 \/ f[j].parts[1].seq > f[i].parts[1].seq + 1
      <3>1. i \in DOMAIN f /\ j \in DOMAIN f /\ i \in Nat /\ j \in Nat
        BY <1>2, ReadableTyped
      <3>2. i # n
        BY <1>2, <2>1, <3>1
      <3>3. i \in ReadableIn(lines) /\ f[i] = lines[i]
        BY <1>4, <3>2
      <3>4. CASE j # n
        <4>1. j \in ReadableIn(lines) /\ f[j] = lines[j]
          BY <1>4, <3>4
        <4>2. CASE j > i + 1
          BY <4>2
        <4>3. CASE ~(j > i + 1)
          <5>1. \A k \in (i + 1)..(j - 1) : ~Readable(lines[k])
            BY <3>1, <4>3
          <5> QED
            BY <1>1, <2>1, <3>3, <4>1, <5>1 DEF GapsShow
        <4> QED
          BY <4>2, <4>3
      <3>5. CASE j = n
        <4>1. f[j].parts[1].seq = seq + 1 /\ f[j].parts[1].prev = prev
          BY <1>4, <1>6, <3>5
        <4>2. /\ f[i].parts[1].seq <= seq
              /\ f[i].parts[1].seq = seq => f[i].parts[1].id = prev
          BY <1>1, <3>3 DEF HeadFollows
        <4>3. f[i].parts[1] \in RecordOf
          BY <1>2, ReadableTyped
        <4>4. f[i].parts[1].seq \in Nat
          BY <4>3 DEF RecordOf
        <4> QED
          BY <1>1, <4>1, <4>2, <4>4
      <3> QED
        BY <3>4, <3>5
    <2> QED
      BY <2>1 DEF GapsShow
  <1>12. WrittenStands(f, w)
    <2>1. ASSUME NEW r \in w PROVE \E i \in DOMAIN f : r \in Parts(f, i)
      <3>1. CASE r \in written
        <4>1. PICK i \in DOMAIN lines : r \in Parts(lines, i)
          BY <1>1, <3>1 DEF WrittenStands
        <4>2. i \in DOMAIN f /\ r \in Parts(f, i)
          BY <1>2, <1>3, <1>5, <4>1
        <4> QED
          BY <4>2
      <3>2. CASE r \notin written
        BY <1>2, <1>3, <2>1, <3>2
      <3> QED
        BY <3>1, <3>2
    <2> QED
      BY <2>1 DEF WrittenStands
  <1>13. OneToALine(f, w)
    <2>1. ASSUME NEW i \in DOMAIN lines PROVE part \notin Parts(lines, i) \/ part = Torn
      BY <1>1, TornIsNoRecord DEF NoneAhead
    <2>2. ASSUME NEW i \in DOMAIN f \ {n}
          PROVE  /\ \A p, q \in Parts(f, i) \cap w : p = q
                 /\ f[i].ended \/ Parts(f, i) \cap w = {}
      <3>1. i \in DOMAIN lines /\ f[i] = lines[i] /\ Parts(f, i) = Parts(lines, i)
        BY <1>2, <1>5
      <3>2. Parts(f, i) \cap w = Parts(lines, i) \cap written
        BY <2>1, <3>1
      <3> QED
        BY <1>1, <3>1, <3>2 DEF OneToALine
    <2>3. Parts(f, n) \cap written = {}
      <3>1. CASE n \notin DOMAIN lines
        BY <1>3, <1>7, <3>1
      <3>2. CASE n \in DOMAIN lines
        <4>1. Parts(lines, n) \cap written = {}
          BY <1>1, <1>3, <3>2 DEF OneToALine
        <4> QED
          BY <1>3, <1>7, <3>2, <4>1
      <3> QED
        BY <3>1, <3>2
    <2>4. /\ \A p, q \in Parts(f, n) \cap w : p = q
          /\ f[n].ended \/ Parts(f, n) \cap w = {}
      BY <1>2, <2>3
    <2> QED
      BY <2>2, <2>4 DEF OneToALine
  <1> QED
    BY <1>8, <1>9, <1>10, <1>11, <1>12, <1>13 DEF FileOK, f

\* A set of numbers has a least element.
LEMMA LeastOf ==
  ASSUME NEW N \in SUBSET Nat, N # {}
  PROVE  \E n \in N : \A m \in N : n <= m
  <1>1. PICK n \in N : \A m \in N : ~(<<m, n>> \in OpToRel(<, Nat))
    BY WFMin, NatLessThanWellFounded
  <1>2. ASSUME NEW m \in N PROVE n <= m
    <2>1. ~(m < n)
      BY <1>1 DEF OpToRel
    <2> QED
      BY <2>1
  <1> QED
    BY <1>2

\* The last line that can be read is one that can be read, and no other is after it.
LEMMA LastReadable ==
  ASSUME NEW f \in Seq(Line), ReadableIn(f) # {}
  PROVE  /\ Max(ReadableIn(f)) \in ReadableIn(f)
         /\ \A i \in ReadableIn(f) : i <= Max(ReadableIn(f))
  <1> DEFINE S == ReadableIn(f)
             N == {n \in Nat : \A i \in S : i <= n}
  <1>1. S \subseteq Nat /\ \A i \in S : i <= Len(f) /\ i > 0
    BY DEF ReadableIn
  <1> HIDE DEF S
  <1>2. N # {}
    <2>1. Len(f) \in N
      BY <1>1
    <2> QED
      BY <2>1
  <1>3. PICK n \in N : \A m \in N : n <= m
    BY <1>2, LeastOf
  <1>4. n \in S
    <2>1. SUFFICES ASSUME n \notin S PROVE FALSE
      OBVIOUS
    <2>2. n # 0
      BY <1>1, <1>3 DEF S
    <2>3. \A i \in S : i <= n - 1
      BY <1>1, <1>3, <2>1
    <2>4. n - 1 \in N
      BY <1>3, <2>2, <2>3
    <2> QED
      BY <1>3, <2>4
  <1>5. \A i \in S : n >= i
    BY <1>1, <1>3
  <1>6. Max(S) \in S /\ \A i \in S : Max(S) >= i
    BY <1>4, <1>5 DEF Max
  <1> QED
    BY <1>1, <1>6 DEF S

\* Whatever the file is, the head the next process takes from it is not behind it.
LEMMA ReopenedHead ==
  ASSUME NEW f, NEW w, NEW m, FileOK(f, w, m), Reopen(f)
  PROVE  seq' \in Nat /\ prev' \in Nat /\ HeadFollows(f, seq', prev')
  <1>1. f \in Seq(Line) /\ Numbered(f)
    BY DEF FileOK, FileTyped
  <1>2. CASE ReadableIn(f) = {}
    BY <1>2 DEF Reopen, Zero, HeadFollows
  <1>3. CASE ReadableIn(f) # {}
    <2> DEFINE k == Max(ReadableIn(f))
    <2>1. k \in ReadableIn(f) /\ \A i \in ReadableIn(f) : i <= k
      BY <1>1, <1>3, LastReadable
    <2>2. seq' = f[k].parts[1].seq /\ prev' = f[k].parts[1].id
      BY <1>3 DEF Reopen
    <2> HIDE DEF k
    <2>3. f[k].parts[1] \in RecordOf /\ k \in Nat
      BY <1>1, <2>1, ReadableTyped
    <2>4. ASSUME NEW i \in ReadableIn(f)
          PROVE  /\ f[i].parts[1].seq <= seq'
                 /\ f[i].parts[1].seq = seq' => f[i].parts[1].id = prev'
      <3>1. f[i].parts[1] \in RecordOf /\ i \in Nat
        BY <1>1, ReadableTyped
      <3>2. CASE i = k
        BY <2>2, <2>3, <3>2 DEF RecordOf
      <3>3. CASE i # k
        <4>1. i < k
          BY <2>1, <2>3, <3>1, <3>3
        <4>2. f[i].parts[1].seq < f[k].parts[1].seq
          BY <1>1, <2>1, <4>1 DEF Numbered
        <4> QED
          BY <2>2, <2>3, <3>1, <4>2 DEF RecordOf
      <3> QED
        BY <3>2, <3>3
    <2>5. seq' \in Nat /\ prev' \in Nat
      BY <2>2, <2>3 DEF RecordOf
    <2> QED
      BY <2>4, <2>5 DEF HeadFollows
  <1> QED
    BY <1>2, <1>3

\* The record that log makes next.
LEMMA NextRecordTyped ==
  ASSUME LogOK, NEW what \in Request
  PROVE  /\ NextRecord(what) \in RecordOf /\ NextRecord(what) # Torn
         /\ NextRecord(what).id = made + 1 /\ NextRecord(what).seq = seq + 1
         /\ NextRecord(what).prev = prev /\ NextRecord(what).what = what
  <1>1. NextRecord(what) \in RecordOf
    BY DEF LogOK, NextRecord, RecordOf
  <1> QED
    BY <1>1, TornIsNoRecord DEF NextRecord

\* A file that is a chain is one whatever ids are given later.
LEMMA LaterIds ==
  ASSUME LogOK
  PROVE  FileOK(lines, written, made + 1)
  <1>1. FileOK(lines, written, made) /\ made \in Nat
    BY DEF LogOK
  <1>2. lines \in Seq(Line) /\ written \in SUBSET RecordOf /\ NoneAhead(lines, written, made)
    BY <1>1 DEF FileOK, FileTyped
  <1>3. \A r \in written : r.id <= made + 1
    BY <1>1, <1>2 DEF NoneAhead, RecordOf
  <1>4. ASSUME NEW i \in DOMAIN lines, NEW p \in Parts(lines, i), p # Torn
        PROVE  p.id <= made + 1
    <2>1. p \in RecordOf /\ p.id <= made
      BY <1>2, <1>4, PartsTyped DEF NoneAhead
    <2> QED
      BY <1>1, <2>1 DEF RecordOf
  <1>5. NoneAhead(lines, written, made + 1)
    BY <1>3, <1>4 DEF NoneAhead
  <1> QED
    BY <1>1, <1>5 DEF FileOK

\* The log stays a chain whose head is not behind it: log, ...
LEMMA LogKeeps ==
  ASSUME LogOK, NEW what \in Request, Log(what)
  PROVE  LogOK'
  <1> DEFINE record == NextRecord(what)
             f == Appended(record, TRUE)
             n == Len(f)
  <1>1. /\ record \in RecordOf /\ record # Torn /\ record.id = made + 1
        /\ record.seq = seq + 1 /\ record.prev = prev
    BY NextRecordTyped
  <1>2. /\ seq' = record.seq /\ prev' = record.id /\ made' = made + 1
        /\ lines' = f /\ written' = written \cup {record}
    BY DEF Log, Advance
  <1>3. FileOK(f, written \cup {record}, made + 1)
    BY <1>1, AppendKeeps
  <1>4. /\ lines \in Seq(Line) /\ seq \in Nat /\ made \in Nat
        /\ HeadFollows(lines, seq, prev)
    BY DEF LogOK, FileOK, FileTyped
  <1>5. /\ \A i \in ReadableIn(f) \ {n} : i \in ReadableIn(lines) /\ f[i] = lines[i]
        /\ n \in ReadableIn(f) => f[n].parts[1] = record
    BY <1>1, <1>4, AppendedReadable
  <1> HIDE DEF record, f, n
  <1>6. ASSUME NEW i \in ReadableIn(f)
        PROVE  /\ f[i].parts[1].seq <= seq + 1
               /\ f[i].parts[1].seq = seq + 1 => f[i].parts[1].id = made + 1
    <2>1. CASE i = n
      BY <1>1, <1>4, <1>5, <2>1
    <2>2. CASE i # n
      <3>1. i \in ReadableIn(lines) /\ f[i] = lines[i]
        BY <1>5, <2>2
      <3>2. f[i].parts[1].seq <= seq
        BY <1>4, <3>1 DEF HeadFollows
      <3>3. f[i].parts[1] \in RecordOf
        BY <1>4, <3>1, ReadableTyped
      <3>4. f[i].parts[1].seq \in Nat
        BY <3>3 DEF RecordOf
      <3> QED
        BY <1>4, <3>2, <3>4
    <2> QED
      BY <2>1, <2>2
  <1>7. HeadFollows(f, seq + 1, made + 1)
    BY <1>6 DEF HeadFollows
  <1>8. seq' = seq + 1 /\ prev' = made + 1
    BY <1>1, <1>2
  <1> QED
    BY <1>2, <1>3, <1>4, <1>7, <1>8 DEF LogOK

\* ... a write that raises, ...
LEMMA LogFailsKeeps ==
  ASSUME LogOK, NEW what \in Request, LogFails(what)
  PROVE  LogOK'
  <1>1. /\ seq' = seq + 1 /\ prev' = made + 1 /\ made' = made + 1
        /\ lines' = lines /\ written' = written
    BY NextRecordTyped DEF LogFails, Advance
  <1>2. /\ lines \in Seq(Line) /\ seq \in Nat /\ made \in Nat
        /\ HeadFollows(lines, seq, prev)
    BY DEF LogOK, FileOK, FileTyped
  <1>3. ASSUME NEW i \in ReadableIn(lines)
        PROVE  lines[i].parts[1].seq <= seq + 1 /\ lines[i].parts[1].seq # seq + 1
    <2>1. lines[i].parts[1].seq <= seq
      BY <1>2 DEF HeadFollows
    <2>2. lines[i].parts[1] \in RecordOf
      BY <1>2, ReadableTyped
    <2>3. lines[i].parts[1].seq \in Nat
      BY <2>2 DEF RecordOf
    <2> QED
      BY <1>2, <2>1, <2>3
  <1>4. HeadFollows(lines, seq + 1, made + 1)
    BY <1>3 DEF HeadFollows
  <1> QED
    BY <1>1, <1>2, <1>4, LaterIds DEF LogOK

\* ... a process that starts after the last one, ...
LEMMA LogReopenedKeeps ==
  ASSUME LogOK, LogReopened
  PROVE  LogOK'
  <1>1. Reopen(lines) /\ made' = made /\ written' = written /\ lines' = lines
    BY DEF LogReopened, Reopen
  <1>2. FileOK(lines, written, made) /\ made \in Nat
    BY DEF LogOK
  <1>3. seq' \in Nat /\ prev' \in Nat /\ HeadFollows(lines, seq', prev')
    BY <1>1, <1>2, ReopenedHead
  <1> QED
    BY <1>1, <1>2, <1>3 DEF LogOK

\* ... or one that starts after the last was cut off in a write.
LEMMA LogCutOffKeeps ==
  ASSUME LogOK, NEW what \in Request, LogCutOff(what)
  PROVE  LogOK'
  <1>1. PICK f \in {lines, Appended(Torn, FALSE), Appended(NextRecord(what), FALSE)} :
          Reopen(f)
    BY DEF LogCutOff
  <1>2. made' = made + 1 /\ written' = written /\ lines' = f /\ made \in Nat
    BY <1>1 DEF LogCutOff, Reopen, LogOK
  <1>3. FileOK(f, written, made + 1)
    <2>1. CASE f = lines
      BY <2>1, LaterIds
    <2>2. CASE f = Appended(Torn, FALSE)
      BY <2>2, AppendKeeps
    <2>3. CASE f = Appended(NextRecord(what), FALSE)
      BY <2>3, AppendKeeps, NextRecordTyped
    <2> QED
      BY <1>1, <2>1, <2>2, <2>3
  <1>4. seq' \in Nat /\ prev' \in Nat /\ HeadFollows(f, seq', prev')
    BY <1>1, <1>3, ReopenedHead
  <1> QED
    BY <1>2, <1>3, <1>4 DEF LogOK

\* What the file tells of after a part was appended.
LEMMA AppendedTells ==
  ASSUME LogOK, NEW part \in RecordOf \cup {Torn}, NEW ended \in BOOLEAN, NEW r
  PROVE  TellsOf(Appended(part, ended), r) <=>
           TellsOf(lines, r) \/ (part # Torn /\ part.what = r)
  <1> DEFINE f == Appended(part, ended)
             n == Len(f)
  <1>1. lines \in Seq(Line)
    BY DEF LogOK, FileOK, FileTyped
  <1>2. /\ n \in DOMAIN f /\ DOMAIN f = DOMAIN lines \cup {n}
        /\ \A i \in DOMAIN f \ {n} : f[i] = lines[i]
    BY <1>1, AppendedFacts
  <1>3. \/ n \notin DOMAIN lines /\ Parts(f, n) = {part}
        \/ n \in DOMAIN lines /\ Parts(f, n) = Parts(lines, n) \cup {part}
    BY <1>1, AppendedFacts
  <1> HIDE DEF f, n
  <1>4. \A i \in DOMAIN f \ {n} : Parts(f, i) = Parts(lines, i)
    BY <1>2 DEF Parts
  <1>5. ASSUME TellsOf(f, r) PROVE TellsOf(lines, r) \/ (part # Torn /\ part.what = r)
    <2>1. PICK i \in DOMAIN f : \E p \in Parts(f, i) : p # Torn /\ p.what = r
      BY <1>5 DEF TellsOf
    <2>2. PICK p \in Parts(f, i) : p # Torn /\ p.what = r
      BY <2>1
    <2>3. CASE p = part
      BY <2>2, <2>3
    <2>4. CASE p # part
      <3>1. i \in DOMAIN lines /\ p \in Parts(lines, i)
        BY <1>2, <1>3, <1>4, <2>2, <2>4
      <3> QED
        BY <2>2, <3>1 DEF TellsOf
    <2> QED
      BY <2>3, <2>4
  <1>6. ASSUME TellsOf(lines, r) PROVE TellsOf(f, r)
    <2>1. PICK i \in DOMAIN lines : \E p \in Parts(lines, i) : p # Torn /\ p.what = r
      BY <1>6 DEF TellsOf
    <2>2. i \in DOMAIN f /\ Parts(lines, i) \subseteq Parts(f, i)
      BY <1>2, <1>3, <1>4
    <2> QED
      BY <2>1, <2>2 DEF TellsOf
  <1>7. ASSUME part # Torn, part.what = r PROVE TellsOf(f, r)
    <2>1. part \in Parts(f, n)
      BY <1>3
    <2> QED
      BY <1>2, <1>7, <2>1 DEF TellsOf
  <1> QED
    BY <1>5, <1>6, <1>7 DEF f

\* A record whose write returns is told of, and nothing else is new; ...
LEMMA LogTells ==
  ASSUME LogOK, NEW what \in Request, Log(what)
  PROVE  \A r : TellsOf(lines', r) <=> TellsOf(lines, r) \/ r = what
  <1>1. lines' = Appended(NextRecord(what), TRUE)
    BY DEF Log
  <1> QED
    BY <1>1, AppendedTells, NextRecordTyped

\* ... one that is cut off may be told of.
LEMMA LogCutOffTells ==
  ASSUME LogOK, NEW what \in Request, LogCutOff(what)
  PROVE  \A r : /\ TellsOf(lines, r) => TellsOf(lines', r)
                /\ TellsOf(lines', r) => TellsOf(lines, r) \/ r = what
  <1>1. \/ lines' = lines \/ lines' = Appended(Torn, FALSE)
        \/ lines' = Appended(NextRecord(what), FALSE)
    BY DEF LogCutOff, Reopen
  <1> QED
    BY <1>1, AppendedTells, NextRecordTyped

\* The file of a log that was never written is a chain.
LEMMA LogStarts ==
  ASSUME AuditInit
  PROVE  LogOK /\ \A r : ~TellsOf(lines, r)
  <1>1. lines = <<>> /\ seq = 0 /\ prev = 0 /\ made = 0 /\ written = {}
    BY DEF AuditInit, Zero
  <1>2. DOMAIN lines = {} /\ lines \in Seq(Line)
    BY <1>1
  <1>3. ReadableIn(lines) = {}
    BY <1>2 DEF ReadableIn
  <1>4. FileOK(lines, written, made)
    BY <1>1, <1>2, <1>3
       DEF FileOK, FileTyped, NoneAhead, Numbered, GapsShow, WrittenStands, OneToALine
  <1>5. HeadFollows(lines, seq, prev)
    BY <1>3 DEF HeadFollows
  <1>6. \A r : ~TellsOf(lines, r)
    BY <1>2 DEF TellsOf
  <1> QED
    BY <1>1, <1>4, <1>5, <1>6 DEF LogOK

\* A set of which no two elements differ has one at most.
LEMMA AtMostOne ==
  ASSUME NEW S, \A p, q \in S : p = q
  PROVE  Cardinality(S) <= 1
  <1>1. CASE S = {}
    BY <1>1, FS_EmptySet
  <1>2. CASE S # {}
    <2>1. PICK p \in S : TRUE
      BY <1>2
    <2>2. S = {p}
      BY <2>1
    <2>3. Cardinality({p}) = 1
      BY FS_Singleton
    <2> QED
      BY <2>2, <2>3
  <1> QED
    BY <1>1, <1>2

\* What makes the log evidence, from its invariant.
LEMMA LogShows == LogOK => LogIsEvidence
  <1> SUFFICES ASSUME LogOK PROVE BreaksShow /\ LossShows
    BY DEF LogIsEvidence
  <1>1. /\ lines \in Seq(Line) /\ Numbered(lines) /\ GapsShow(lines)
        /\ WrittenStands(lines, written) /\ OneToALine(lines, written)
    BY DEF LogOK, FileOK, FileTyped
  <1>2. \A i \in DOMAIN lines : Readable(lines[i]) <=> i \in ReadableIn(lines)
    BY DEF ReadableIn
  <1>3. BreaksShow
    BY <1>1, <1>2 DEF BreaksShow, Numbered, GapsShow
  <1>4. \A i \in DOMAIN lines : Range(lines[i].parts) = Parts(lines, i)
    BY DEF Range, Parts, ToSet
  <1>5. ASSUME NEW r \in written, r \notin Records
        PROVE  \E i \in Unreadable : r \in Range(lines[i].parts)
    <2>1. PICK i \in DOMAIN lines : r \in Parts(lines, i)
      BY <1>1 DEF WrittenStands
    <2>2. i \notin ReadableIn(lines)
      BY <1>1, <1>5, <2>1, ReadableTyped DEF Records
    <2> QED
      BY <1>4, <2>1, <2>2 DEF Unreadable
  <1>6. ASSUME NEW i \in Unreadable
        PROVE  Cardinality(Range(lines[i].parts) \cap written) <= 1
    <2>1. i \in DOMAIN lines
      BY DEF Unreadable
    <2>2. \A p, q \in Parts(lines, i) \cap written : p = q
      BY <1>1, <2>1 DEF OneToALine
    <2> QED
      BY <1>4, <2>1, <2>2, AtMostOne
  <1> QED
    BY <1>3, <1>5, <1>6 DEF LossShows

-----------------------------------------------------------------------------
(* The inductive invariant of the document *)

Recorded(r) == TellsOf(lines, r)

\* Every tree and every text of it there is.
Everywhere ==
  {file} \cup {trees[t] : t \in DOMAIN trees}
         \cup {snapshot[r] : r \in {o \in Request : snapshot[o] # None}}

\* What a request holds, and what it is, at each stage of it.
Stages ==
  /\ \A r \in Request :
       /\ stage[r] = "new" <=> kind[r] = None
       /\ held[r] # None => stage[r] \in {"waits", "runs", "ends"}
       /\ stage[r] \in {"waits", "runs", "ends"} => held[r] \in DOMAIN trees
       /\ stage[r] = "waits" => kind[r] \in {"page", "table", "translation"}
       /\ stage[r] \in {"runs", "ends"} => kind[r] = "translation"
       /\ snapshot[r] # None => stage[r] = "runs"
       /\ Recorded(r) => stage[r] # "new"
  /\ pending # None => stage[pending] = "done" /\ kind[pending] # "translation"

\* There is a record of the request, or a reason why there is none.
Accounted(r) ==
  \/ Recorded(r) \/ r \in unlogged \/ r = pending
  \/ kind[r] = "skill"
  \/ kind[r] = "correction" /\ stage[r] = "over"
  \/ kind[r] = "translation" /\ stage[r] # "done"

\* A text has the edits of requests that came, and blocks of those that are done.
Known(content) ==
  /\ \A r \in content.edits : stage[r] # "new" /\ Accounted(r)
  /\ \A r \in Request \cap DOMAIN content.block : stage[r] = "done"

EditsAccounted == \A content \in Everywhere : Known(content)

\* While no tree is forked off, those that hold one hold the one in the cache.
OneTreeInUse ==
  ~forked =>
    \A r \in Request : held[r] # None =>
      /\ resident \in {None, held[r]}
      /\ \A o \in Request : held[o] \in {None, held[r]}

\* What is about to be written is in the tree it was taken from.
SnapshotFollows ==
  \A r \in Request : snapshot[r] # None => snapshot[r].edits \subseteq trees[held[r]].edits

\* The trees in use have what the file has.
FileFollowed ==
  ~forked /\ ~raced =>
    /\ resident # None => file.edits \subseteq trees[resident].edits
    /\ \A r \in Request :
         /\ held[r] # None => file.edits \subseteq trees[held[r]].edits
         /\ snapshot[r] # None => file.edits \subseteq snapshot[r].edits

\* And the file has what was done, but for corrections.
DoneIsKept ==
  ~forked /\ ~raced =>
    \A r \in Request :
      /\ stage[r] = "ends" => r \in file.edits
      /\ stage[r] = "done" /\ kind[r] # "correction" => r \in file.edits
      /\ stage[r] = "done" /\ kind[r] = "correction" =>
           r \in file.edits \/ r \in dropped \/ r \in Found.edits
      /\ Recorded(r) => r \in file.edits \/ kind[r] = "correction"

\* Every word in one block, but for a text two answers crossed on.
SaidOnce(content) ==
  \A w \in Word :
    /\ Saying(content, w) # {}
    /\ content.crossed \/ \E b \in Saying(content, w) : Saying(content, w) = {b}

WordsStand == \A content \in Everywhere : SaidOnce(content)

\* The blocks a request for the page has taken are on its tree, and live unless
\* another one waits there.
WaitsForPage(r) == kind[r] = "page" /\ stage[r] = "waits"

PagesInHand ==
  \A r \in Request : WaitsForPage(r) =>
    /\ taken[r] \subseteq DOMAIN trees[held[r]].block
    /\ trees[held[r]].crossed \/ /\ \A b \in taken[r] : trees[held[r]].block[b].live
                                 /\ ~Crossing(r, held[r])

IInv ==
  /\ TypeOK /\ LogOK /\ Stages /\ EditsAccounted /\ OneTreeInUse /\ SnapshotFollows
  /\ FileFollowed /\ DoneIsKept /\ WordsStand /\ PagesInHand

-----------------------------------------------------------------------------
(* Texts *)

BlockState == [says : SUBSET Word, live : BOOLEAN, read : BOOLEAN]

\* What a text is made of.
LEMMA ContentTyped ==
  ASSUME NEW c
  PROVE  c \in Content <=>
           /\ c = [block |-> c.block, edits |-> c.edits, crossed |-> c.crossed]
           /\ DOMAIN c.block \subseteq Block
           /\ c.block \in [DOMAIN c.block -> BlockState]
           /\ c.edits \subseteq Request /\ c.crossed \in BOOLEAN
  <1> DEFINE U == UNION {[bs -> BlockState] : bs \in SUBSET Block}
  <1>1. \A f : f \in U <=> DOMAIN f \subseteq Block /\ f \in [DOMAIN f -> BlockState]
    OBVIOUS
  <1>2. Content = [block : U, edits : SUBSET Request, crossed : BOOLEAN]
    BY DEF Content, BlockState
  <1> HIDE DEF U
  <1> QED
    BY <1>1, <1>2

\* The text made out of others.
LEMMA MadeContent ==
  ASSUME NEW bl, DOMAIN bl \subseteq Block, bl \in [DOMAIN bl -> BlockState],
         NEW ed \in SUBSET Request, NEW cr \in BOOLEAN
  PROVE  [block |-> bl, edits |-> ed, crossed |-> cr] \in Content
  <1> DEFINE c == [block |-> bl, edits |-> ed, crossed |-> cr]
  <1>1. c.block = bl /\ c.edits = ed /\ c.crossed = cr
    OBVIOUS
  <1>2. c = [block |-> c.block, edits |-> c.edits, crossed |-> c.crossed]
    OBVIOUS
  <1> HIDE DEF c
  <1>3. c \in Content
    BY <1>1, <1>2, ContentTyped
  <1> QED
    BY <1>3 DEF c

\* An edit leaves the blocks alone.
LEMMA EditedFacts ==
  ASSUME NEW c \in Content, NEW r \in Request
  PROVE  /\ Edited(c, r) \in Content
         /\ Edited(c, r).edits = c.edits \cup {r}
         /\ Edited(c, r).block = c.block /\ Edited(c, r).crossed = c.crossed
  <1>1. /\ c = [block |-> c.block, edits |-> c.edits, crossed |-> c.crossed]
        /\ DOMAIN c.block \subseteq Block /\ c.block \in [DOMAIN c.block -> BlockState]
        /\ c.edits \subseteq Request /\ c.crossed \in BOOLEAN
    BY ContentTyped
  <1>2. Edited(c, r) = [block |-> c.block, edits |-> c.edits \cup {r}, crossed |-> c.crossed]
    BY <1>1 DEF Edited
  <1>3. Edited(c, r) \in Content
    BY <1>1, <1>2, MadeContent
  <1> QED
    BY <1>2, <1>3

\* So does the mark that two answers may cross.
LEMMA CrossedFacts ==
  ASSUME NEW c \in Content, NEW x \in BOOLEAN
  PROVE  LET d == [c EXCEPT !.crossed = @ \/ x]
         IN  /\ d \in Content /\ d.edits = c.edits /\ d.block = c.block
             /\ d.crossed = (c.crossed \/ x)
  <1> DEFINE d == [c EXCEPT !.crossed = @ \/ x]
  <1>1. /\ c = [block |-> c.block, edits |-> c.edits, crossed |-> c.crossed]
        /\ DOMAIN c.block \subseteq Block /\ c.block \in [DOMAIN c.block -> BlockState]
        /\ c.edits \subseteq Request /\ c.crossed \in BOOLEAN
    BY ContentTyped
  <1>2. d = [block |-> c.block, edits |-> c.edits, crossed |-> (c.crossed \/ x)]
    BY <1>1
  <1>3. (c.crossed \/ x) \in BOOLEAN
    BY <1>1
  <1> HIDE DEF d
  <1>4. d \in Content
    BY <1>1, <1>2, <1>3, MadeContent
  <1>5. d.edits = c.edits /\ d.block = c.block /\ d.crossed = (c.crossed \/ x)
    BY <1>2
  <1> QED
    BY <1>4, <1>5 DEF d

\* Texts with the same blocks say the same.
LEMMA SameBlocks ==
  ASSUME NEW c, NEW d, d.block = c.block, c.crossed => d.crossed, SaidOnce(c)
  PROVE  SaidOnce(d)
  <1>1. \A w : Saying(d, w) = Saying(c, w)
    BY DEF Saying
  <1> QED
    BY <1>1 DEF SaidOnce

\* The rebuilt page: the blocks that were there, those taken no longer live, and one
\* that says what they say.
LEMMA ReplacedFacts ==
  ASSUME NEW c \in Content, NEW r \in Request, NEW role, taken[r] \subseteq DOMAIN c.block
  PROVE  LET d == Replaced(c, r, role)
         IN  /\ d \in Content /\ d.edits = c.edits /\ d.crossed = c.crossed
             /\ DOMAIN d.block = DOMAIN c.block \cup {r}
             /\ d.block[r].live /\ d.block[r].says = UNION {c.block[b].says : b \in taken[r]}
             /\ \A b \in DOMAIN c.block \ {r} :
                  /\ d.block[b].says = c.block[b].says
                  /\ d.block[b].live <=> c.block[b].live /\ b \notin taken[r]
  <1> DEFINE wrapped == [says |-> UNION {c.block[b].says : b \in taken[r]},
                         live |-> TRUE, read |-> role = "title"]
             bl == [b \in DOMAIN c.block \cup {r} |->
                      IF b = r THEN wrapped
                      ELSE IF b \in taken[r] THEN [c.block[b] EXCEPT !.live = FALSE]
                      ELSE c.block[b]]
             d == Replaced(c, r, role)
  <1>1. /\ c = [block |-> c.block, edits |-> c.edits, crossed |-> c.crossed]
        /\ DOMAIN c.block \subseteq Block /\ c.block \in [DOMAIN c.block -> BlockState]
        /\ c.edits \subseteq Request /\ c.crossed \in BOOLEAN
    BY ContentTyped
  <1>2. d = [block |-> bl, edits |-> c.edits, crossed |-> c.crossed]
    <2>1. d = [c EXCEPT !.block = bl]
      BY DEF Replaced
    <2> HIDE DEF d, bl
    <2> QED
      BY <1>1, <2>1
  <1>3. \A b \in DOMAIN c.block : c.block[b] \in BlockState
    BY <1>1
  <1>4. wrapped \in BlockState
    <2>1. \A b \in taken[r] : c.block[b].says \subseteq Word
      BY <1>3 DEF BlockState
    <2>2. UNION {c.block[b].says : b \in taken[r]} \in SUBSET Word
      BY <2>1
    <2> QED
      BY <2>2 DEF BlockState
  <1>5. ASSUME NEW b \in DOMAIN c.block
        PROVE  /\ [c.block[b] EXCEPT !.live = FALSE] \in BlockState
               /\ [c.block[b] EXCEPT !.live = FALSE].live = FALSE
               /\ [c.block[b] EXCEPT !.live = FALSE].says = c.block[b].says
    BY <1>3 DEF BlockState
  <1>6. DOMAIN bl = DOMAIN c.block \cup {r} /\ bl[r] = wrapped
    OBVIOUS
  <1>7. \A b \in DOMAIN c.block \ {r} :
           bl[b] = IF b \in taken[r] THEN [c.block[b] EXCEPT !.live = FALSE] ELSE c.block[b]
    OBVIOUS
  <1>8. wrapped.live /\ wrapped.says = UNION {c.block[b].says : b \in taken[r]}
    OBVIOUS
  <1>9. DOMAIN bl \subseteq Block
    BY <1>1, <1>6 DEF Block
  <1>10. bl \in [DOMAIN bl -> BlockState]
    <2>1. \A b \in DOMAIN bl : bl[b] \in BlockState
      BY <1>3, <1>4, <1>5, <1>6, <1>7
    <2>2. bl = [b \in DOMAIN bl |-> bl[b]]
      OBVIOUS
    <2> QED
      BY <2>1, <2>2
  <1> HIDE DEF bl, wrapped, d
  <1>11. d \in Content
    BY <1>1, <1>2, <1>9, <1>10, MadeContent
  <1>12. d.block = bl /\ d.edits = c.edits /\ d.crossed = c.crossed
    BY <1>2
  <1>13. ASSUME NEW b \in DOMAIN c.block \ {r}
         PROVE  /\ bl[b].says = c.block[b].says
                /\ bl[b].live <=> c.block[b].live /\ b \notin taken[r]
    BY <1>5, <1>7
  <1> QED
    BY <1>6, <1>8, <1>11, <1>12, <1>13 DEF d

\* Nobody's word is lost or doubled by it.
LEMMA ReplacedSaysOnce ==
  ASSUME NEW c \in Content, NEW r \in Request, NEW role,
         taken[r] \subseteq DOMAIN c.block, r \notin DOMAIN c.block, SaidOnce(c),
         c.crossed \/ \A b \in taken[r] : c.block[b].live
  PROVE  SaidOnce(Replaced(c, r, role))
  <1> DEFINE d == Replaced(c, r, role)
  <1>1. /\ d.crossed = c.crossed /\ DOMAIN d.block = DOMAIN c.block \cup {r}
        /\ d.block[r].live /\ d.block[r].says = UNION {c.block[b].says : b \in taken[r]}
        /\ \A b \in DOMAIN c.block :
             /\ d.block[b].says = c.block[b].says
             /\ d.block[b].live <=> c.block[b].live /\ b \notin taken[r]
    BY ReplacedFacts
  <1> HIDE DEF d
  <1>2. ASSUME NEW w \in Word
        PROVE  /\ Saying(d, w) # {}
               /\ d.crossed \/ \E b \in Saying(d, w) : Saying(d, w) = {b}
    <2>1. \A b \in taken[r] : w \in c.block[b].says => r \in Saying(d, w)
      BY <1>1 DEF Saying
    <2>2. \A b \in Saying(c, w) \ taken[r] : b \in Saying(d, w)
      BY <1>1 DEF Saying
    <2>3. \A b \in Saying(d, w) \ {r} : b \in Saying(c, w) \ taken[r]
      BY <1>1 DEF Saying
    <2>4. r \in Saying(d, w) => \E b \in taken[r] : w \in c.block[b].says
      BY <1>1 DEF Saying
    <2>5. PICK b \in Saying(c, w) : c.crossed \/ Saying(c, w) = {b}
      BY DEF SaidOnce
    <2>6. w \in c.block[b].says
      BY <2>5 DEF Saying
    <2>7. Saying(d, w) # {}
      BY <2>1, <2>2, <2>5, <2>6
    <2>8. ASSUME ~c.crossed PROVE \E x \in Saying(d, w) : Saying(d, w) = {x}
      <3>1. CASE b \in taken[r]
        <4>1. r \in Saying(d, w)
          BY <2>1, <2>6, <3>1
        <4>2. \A x \in Saying(d, w) : x = r
          BY <2>3, <2>5, <2>8, <3>1
        <4> QED
          BY <4>1, <4>2
      <3>2. CASE b \notin taken[r]
        <4>1. \A x \in taken[r] : w \in c.block[x].says => x \in Saying(c, w)
          BY <2>8 DEF Saying
        <4>2. r \notin Saying(d, w)
          BY <2>4, <2>5, <2>8, <3>2, <4>1
        <4>3. \A x \in Saying(d, w) : x = b
          BY <2>3, <2>5, <2>8, <4>2
        <4> QED
          BY <2>7, <4>3
      <3> QED
        BY <3>1, <3>2
    <2> QED
      BY <1>1, <2>7, <2>8
  <1>3. SaidOnce(d)
    BY <1>2 DEF SaidOnce
  <1> QED
    BY <1>3 DEF d

-----------------------------------------------------------------------------
(* Trees *)

\* Every text there is is one.
LEMMA EverywhereTyped ==
  ASSUME TypeOK
  PROVE  /\ \A c \in Everywhere : c \in Content
         /\ \A t \in DOMAIN trees : trees[t] \in Everywhere
         /\ file \in Everywhere
         /\ \A r \in Request : snapshot[r] # None => snapshot[r] \in Everywhere
         /\ Found \in Everywhere /\ Found \in Content
  <1>1. \A t \in DOMAIN trees : trees[t] \in Content
    BY DEF TypeOK
  <1>2. \A r \in Request : snapshot[r] # None => snapshot[r] \in Content
    BY DEF TypeOK
  <1>3. file \in Content /\ resident \in DOMAIN trees \cup {None}
    BY DEF TypeOK
  <1> QED
    BY <1>1, <1>2, <1>3 DEF Everywhere, Found

\* The tree a caller gets, and what is left of the others.
LEMMA TakeFacts ==
  ASSUME TypeOK, NEW c \in Content, Take(c)
  PROVE  /\ trees' \in Seq(Content) /\ DOMAIN trees' = DOMAIN trees \cup {Index}
         /\ trees'[Index] = c
         /\ \A t \in DOMAIN trees \ {Index} : trees'[t] = trees[t]
         /\ resident' = Index /\ Index # None /\ forked' \in BOOLEAN
         /\ \/ resident = None /\ Found = file /\ Index \notin DOMAIN trees
            \/ /\ resident # None /\ Found = trees[resident]
               /\ Index = resident /\ Index \in DOMAIN trees
         /\ ~forked' => /\ ~forked
                        /\ resident # None \/ \A r \in Request : held[r] = None
  <1>1. /\ trees \in Seq(Content) /\ resident \in DOMAIN trees \cup {None}
        /\ forked \in BOOLEAN /\ held \in [Request -> DOMAIN trees \cup {None}]
    BY DEF TypeOK
  <1>2. /\ Len(trees) \in Nat /\ DOMAIN trees = 1..Len(trees)
        /\ Len(trees) + 1 \notin DOMAIN trees
    BY <1>1
  <1>3. CASE resident # None
    <2>1. resident \in DOMAIN trees /\ Index = resident /\ Found = trees[resident]
      BY <1>1, <1>3 DEF Index, Found
    <2>2. trees' = [trees EXCEPT ![resident] = c] /\ resident' = resident
      BY <1>3, <2>1 DEF Take
    <2>3. /\ trees' \in Seq(Content) /\ DOMAIN trees' = DOMAIN trees
          /\ trees'[resident] = c
          /\ \A t \in DOMAIN trees \ {resident} : trees'[t] = trees[t]
      BY <1>1, <2>1, <2>2
    <2>4. forked' = forked
      BY <1>1, <1>3 DEF Take
    <2> QED
      BY <1>1, <1>3, <2>1, <2>2, <2>3, <2>4
  <1>4. CASE resident = None
    <2>1. Index = Len(trees) + 1 /\ Found = file
      BY <1>4 DEF Index, Found
    <2>2. trees' = Append(trees, c) /\ resident' = Index
      BY <1>4 DEF Take
    <2>3. /\ trees' \in Seq(Content) /\ DOMAIN trees' = 1..(Len(trees) + 1)
          /\ trees'[Len(trees) + 1] = c
          /\ \A t \in DOMAIN trees : trees'[t] = trees[t]
      BY <1>1, <1>2, <2>2
    <2>4. DOMAIN trees' = DOMAIN trees \cup {Index} /\ Index \notin DOMAIN trees
      BY <1>2, <2>1, <2>3
    <2>5. Index # None
      BY <1>2, <2>1, EditsAssumption
    <2>6. forked' = (forked \/ \E t \in DOMAIN trees : InHand(t))
      BY <1>4 DEF Take
    <2>7. forked' \in BOOLEAN
      BY <1>1, <2>6
    <2>8. ~forked' => ~forked /\ \A r \in Request : held[r] = None
      BY <1>1, <2>6 DEF InHand
    <2> QED
      BY <1>4, <2>1, <2>2, <2>3, <2>4, <2>5, <2>7, <2>8
  <1> QED
    BY <1>3, <1>4

\* What is known of a text stays known while requests only go on.
LEMMA KnownCarries ==
  ASSUME NEW c, Known(c), c.edits \subseteq Request,
         \A o \in Request : stage[o] # "new" /\ Accounted(o) =>
                            stage'[o] # "new" /\ Accounted(o)',
         \A o \in Request : stage[o] = "done" => stage'[o] = "done"
  PROVE  Known(c)'
  BY DEF Known

-----------------------------------------------------------------------------
(* A request that comes *)

\* What the handlers do in their first step: request r of kind k gets the tree, makes
\* text c of it, and is at stage s then.
Visit(r, k, s, c) ==
  /\ Comes(r, k) /\ k \in Kind /\ s \in {"waits", "done", "over"}
  /\ c \in Content /\ Take(c)
  /\ c.block = Found.block /\ (Found.crossed => c.crossed)
  /\ Found.edits \subseteq c.edits /\ c.edits \subseteq Found.edits \cup {r}
  /\ r \in c.edits => \/ pending' = r \/ k = "skill"
                      \/ k = "correction" /\ s = "over"
  /\ s = "waits" => k \in {"page", "table", "translation"}
  /\ s = "done" => /\ r \in c.edits /\ k # "translation"
                   /\ k = "correction" \/ file' = c
  /\ stage' = [stage EXCEPT ![r] = s]
  /\ held' = IF s = "waits" THEN [held EXCEPT ![r] = Index] ELSE held
  /\ taken' \in [Request -> SUBSET Block]
  /\ \A o \in Request \ {r} : taken'[o] = taken[o]
  /\ (k = "page" /\ s = "waits") =>
       (taken'[r] = FoundOn(Found) /\ (Crossing(r, Index) => c.crossed))
  /\ \/ file' = file /\ raced' = raced
     \/ file' = c /\ raced' = (raced \/ \E o \in Request : snapshot[o] # None)
  /\ pending' \in {None, r} /\ (pending' = r => s = "done")
  /\ UNCHANGED <<snapshot, task, restarts, unlogged, dropped, audit>>

\* Such a step keeps the invariant.
LEMMA VisitKeeps ==
  ASSUME IInv, NEW r \in Request, NEW k, NEW s, NEW c, Visit(r, k, s, c)
  PROVE  IInv'
  <1>1. TypeOK /\ LogOK /\ Stages /\ EditsAccounted /\ WordsStand /\ PagesInHand
    BY DEF IInv
  <1>2. /\ trees' \in Seq(Content) /\ DOMAIN trees' = DOMAIN trees \cup {Index}
        /\ trees'[Index] = c
        /\ \A t \in DOMAIN trees \ {Index} : trees'[t] = trees[t]
        /\ resident' = Index /\ Index # None /\ forked' \in BOOLEAN
        /\ \/ resident = None /\ Found = file /\ Index \notin DOMAIN trees
           \/ /\ resident # None /\ Found = trees[resident]
              /\ Index = resident /\ Index \in DOMAIN trees
        /\ ~forked' => /\ ~forked
                       /\ resident # None \/ \A o \in Request : held[o] = None
    BY <1>1, TakeFacts DEF Visit
  <1>3. /\ c \in Content /\ Found \in Content /\ Found \in Everywhere
        /\ \A d \in Everywhere : d \in Content
    BY <1>1, EverywhereTyped DEF Visit
  <1>4. /\ stage \in [Request -> {"new", "waits", "runs", "ends", "done", "over"}]
        /\ kind \in [Request -> Kind \cup {None}]
        /\ held \in [Request -> DOMAIN trees \cup {None}]
        /\ taken \in [Request -> SUBSET Block]
        /\ raced \in BOOLEAN /\ file \in Content
    BY <1>1 DEF TypeOK
  <1>5. /\ stage[r] = "new" /\ kind[r] = None /\ held[r] = None /\ snapshot[r] = None
        /\ ~Recorded(r) /\ pending = None /\ k \in Kind /\ k # None
    BY <1>1, EditsAssumption DEF Visit, Comes, LoopFree, Stages
  <1>6. /\ s \in {"waits", "done", "over"}
        /\ stage'[r] = s /\ kind'[r] = k /\ kind' \in [Request -> Kind \cup {None}]
        /\ stage' \in [Request -> {"new", "waits", "runs", "ends", "done", "over"}]
        /\ \A o \in Request \ {r} : stage'[o] = stage[o] /\ kind'[o] = kind[o]
    BY <1>4 DEF Visit, Comes
  <1>7. /\ held'[r] = IF s = "waits" THEN Index ELSE None
        /\ \A o \in Request \ {r} : held'[o] = held[o] /\ taken'[o] = taken[o]
        /\ held' \in [Request -> DOMAIN trees' \cup {None}]
    BY <1>2, <1>4, <1>5 DEF Visit
  <1>8. /\ snapshot' = snapshot /\ unlogged' = unlogged /\ dropped' = dropped
        /\ \A o : Recorded(o)' <=> Recorded(o)
        /\ pending' \in {None, r} /\ (pending' = r => s = "done")
    BY DEF Visit, audit, Recorded
  <1>9. /\ file' \in {file, c}
        /\ raced => raced'
        /\ file' # file /\ ~raced' => \A o \in Request : snapshot[o] = None
        /\ raced' \in BOOLEAN
    BY <1>4 DEF Visit
  <1>9a. (k = "page" /\ s = "waits") =>
           (taken'[r] = FoundOn(Found) /\ (Crossing(r, Index) => c.crossed))
    BY Zenon DEF Visit
  <1>10. Everywhere' \subseteq Everywhere \cup {c}
    <2>1. ASSUME NEW t \in DOMAIN trees' PROVE trees'[t] \in Everywhere \cup {c}
      BY <1>2 DEF Everywhere
    <2> QED
      BY <1>8, <1>9, <2>1 DEF Everywhere
  <1>11. TypeOK'
    <2>1. restarts' = restarts /\ task' = task
      BY DEF Visit
    <2>2. taken' \in [Request -> SUBSET Block]
      BY DEF Visit
    <2>3. pending' \in Request \cup {None} /\ resident' \in DOMAIN trees' \cup {None}
      BY <1>2, <1>8
    <2>4. file' \in Content
      BY <1>3, <1>4, <1>9
    <2>5. /\ snapshot' \in [Request -> Content \cup {None}]
          /\ task' \in BOOLEAN /\ restarts' \in 0..MaxRestarts
          /\ unlogged' \subseteq Request /\ dropped' \subseteq Request
      BY <1>1, <1>8, <2>1 DEF TypeOK
    <2> QED
      BY <1>2, <1>6, <1>7, <1>9, <2>2, <2>3, <2>4, <2>5 DEF TypeOK
  <1>12. LogOK'
    BY <1>1 DEF LogOK, Visit, audit
  <1>13. Stages'
    <2>1. ASSUME NEW o \in Request
          PROVE  /\ stage'[o] = "new" <=> kind'[o] = None
                 /\ held'[o] # None => stage'[o] \in {"waits", "runs", "ends"}
                 /\ stage'[o] \in {"waits", "runs", "ends"} => held'[o] \in DOMAIN trees'
                 /\ stage'[o] = "waits" => kind'[o] \in {"page", "table", "translation"}
                 /\ stage'[o] \in {"runs", "ends"} => kind'[o] = "translation"
                 /\ snapshot'[o] # None => stage'[o] = "runs"
                 /\ Recorded(o)' => stage'[o] # "new"
      <3>1. CASE o = r
        BY <1>2, <1>5, <1>6, <1>7, <1>8, <3>1 DEF Visit
      <3>2. CASE o # r
        BY <1>1, <1>2, <1>6, <1>7, <1>8, <3>2 DEF Stages
      <3> QED
        BY <3>1, <3>2
    <2>2. pending' # None => stage'[pending'] = "done" /\ kind'[pending'] # "translation"
      BY <1>6, <1>8 DEF Visit
    <2> QED
      BY <2>1, <2>2 DEF Stages
  <1>14. EditsAccounted'
    <2>1. \A o \in Request : stage[o] # "new" /\ Accounted(o) =>
                             stage'[o] # "new" /\ Accounted(o)'
      BY <1>5, <1>6, <1>8, EditsAssumption DEF Accounted
    <2>2. \A o \in Request : stage[o] = "done" => stage'[o] = "done"
      BY <1>5, <1>6
    <2>3. ASSUME NEW d \in Everywhere PROVE Known(d)'
      <3>1. d.edits \subseteq Request
        BY <1>3, ContentTyped
      <3> QED
        BY <1>1, <2>1, <2>2, <3>1, KnownCarries DEF EditsAccounted
    <2>4. Known(c)'
      <3>1. Known(Found)
        BY <1>1, <1>3 DEF EditsAccounted
      <3>2. ASSUME NEW o \in c.edits PROVE stage'[o] # "new" /\ Accounted(o)'
        <4>1. CASE o = r
          BY <1>6, <3>2, <4>1 DEF Visit, Accounted
        <4>2. CASE o # r
          <5>1. o \in Found.edits /\ o \in Request
            BY <1>3, <3>2, <4>2, ContentTyped DEF Visit
          <5> QED
            BY <2>1, <3>1, <5>1 DEF Known
        <4> QED
          BY <4>1, <4>2
      <3>3. ASSUME NEW o \in Request \cap DOMAIN c.block PROVE stage'[o] = "done"
        BY <2>2, <3>1, <3>3 DEF Known, Visit
      <3> QED
        BY <3>2, <3>3 DEF Known
    <2> QED
      BY <1>10, <2>3, <2>4 DEF EditsAccounted
  <1>15. OneTreeInUse'
    BY <1>2, <1>4, <1>5, <1>7 DEF IInv, OneTreeInUse
  <1>16. SnapshotFollows'
    <2>1. ASSUME NEW o \in Request, snapshot'[o] # None
          PROVE  snapshot'[o].edits \subseteq trees'[held'[o]].edits
      <3>1. o # r /\ snapshot[o] # None /\ stage[o] = "runs"
        BY <1>1, <1>5, <1>8, <2>1 DEF Stages
      <3>2. held'[o] = held[o] /\ held[o] \in DOMAIN trees
        BY <1>1, <1>7, <3>1 DEF Stages
      <3>3. snapshot[o].edits \subseteq trees[held[o]].edits
        BY <3>1 DEF IInv, SnapshotFollows
      <3>4. trees[held[o]].edits \subseteq trees'[held[o]].edits
        <4>1. CASE held[o] = Index
          BY <1>2, <3>2, <4>1 DEF Visit
        <4>2. CASE held[o] # Index
          BY <1>2, <3>2, <4>2
        <4> QED
          BY <4>1, <4>2
      <3> QED
        BY <1>8, <3>2, <3>3, <3>4
    <2> QED
      BY <2>1 DEF SnapshotFollows
  <1>17. ASSUME ~forked', ~raced'
         PROVE  /\ ~forked /\ ~raced /\ file.edits \subseteq file'.edits
                /\ file'.edits \subseteq c.edits
                /\ \A o \in Request : held'[o] # None => held'[o] = Index
    <2>1. ~forked /\ ~raced
      BY <1>2, <1>9, <1>17
    <2>2. file.edits \subseteq Found.edits
      BY <1>2, <2>1 DEF IInv, FileFollowed
    <2>3. file.edits \subseteq c.edits
      BY <2>2 DEF Visit
    <2>4. \A o \in Request : held'[o] # None => held'[o] = Index
      BY <1>2, <1>4, <1>5, <1>7, <1>17, <2>1 DEF IInv, OneTreeInUse
    <2> QED
      BY <1>9, <2>1, <2>3, <2>4
  <1>18. FileFollowed'
    <2>1. ASSUME ~forked', ~raced', NEW o \in Request, snapshot'[o] # None
          PROVE  file'.edits \subseteq snapshot'[o].edits
      <3>1. file' = file
        BY <1>8, <1>9, <2>1
      <3> QED
        BY <1>8, <1>17, <2>1, <3>1 DEF IInv, FileFollowed
    <2>2. ASSUME ~forked', ~raced', NEW o \in Request, held'[o] # None
          PROVE  file'.edits \subseteq trees'[held'[o]].edits
      BY <1>2, <1>17, <2>2
    <2>3. ASSUME ~forked', ~raced' PROVE file'.edits \subseteq trees'[resident'].edits
      BY <1>2, <1>17, <2>3
    <2> QED
      BY <2>1, <2>2, <2>3 DEF FileFollowed
  <1>19. DoneIsKept'
    <2>1. Found' = c
      BY <1>2 DEF Found
    <2>2. ASSUME ~forked', ~raced', NEW o \in Request
          PROVE  /\ stage'[o] = "ends" => o \in file'.edits
                 /\ stage'[o] = "done" /\ kind'[o] # "correction" => o \in file'.edits
                 /\ stage'[o] = "done" /\ kind'[o] = "correction" =>
                      o \in file'.edits \/ o \in dropped' \/ o \in Found'.edits
                 /\ Recorded(o)' => o \in file'.edits \/ kind'[o] = "correction"
      <3>1. CASE o = r
        BY <1>5, <1>6, <1>8, <2>1, <3>1 DEF Visit
      <3>2. CASE o # r
        <4>1. /\ stage[o] = "ends" => o \in file.edits
              /\ stage[o] = "done" /\ kind[o] # "correction" => o \in file.edits
              /\ stage[o] = "done" /\ kind[o] = "correction" =>
                   o \in file.edits \/ o \in dropped \/ o \in Found.edits
              /\ Recorded(o) => o \in file.edits \/ kind[o] = "correction"
          BY <1>17, <2>2 DEF IInv, DoneIsKept
        <4>2. Found.edits \subseteq c.edits
          BY DEF Visit
        <4> QED
          BY <1>6, <1>8, <1>17, <2>1, <2>2, <3>2, <4>1, <4>2
      <3> QED
        BY <3>1, <3>2
    <2> QED
      BY <2>2 DEF DoneIsKept
  <1>20. WordsStand'
    <2>1. SaidOnce(Found)
      BY <1>1, <1>3 DEF WordsStand
    <2>2. SaidOnce(c)
      BY <2>1, SameBlocks DEF Visit
    <2>3. \A d : SaidOnce(d)' <=> SaidOnce(d)
      BY DEF SaidOnce, Saying
    <2> QED
      BY <1>1, <1>10, <2>2, <2>3 DEF WordsStand
  <1>21. PagesInHand'
    <2>1. ASSUME NEW o \in Request, WaitsForPage(o)'
          PROVE  /\ taken'[o] \subseteq DOMAIN trees'[held'[o]].block
                 /\ \/ trees'[held'[o]].crossed
                    \/ /\ \A b \in taken'[o] : trees'[held'[o]].block[b].live
                       /\ ~Crossing(o, held[o])'
      <3>1. CASE o = r
        <4>1. /\ k = "page" /\ s = "waits" /\ held'[o] = Index
              /\ trees'[held'[o]] = c
          BY <1>2, <1>6, <1>7, <2>1, <3>1 DEF WaitsForPage
        <4>2. taken'[o] = FoundOn(Found) /\ (Crossing(r, Index) => c.crossed)
          BY <1>9a, <3>1, <4>1
        <4>3. taken'[o] \subseteq DOMAIN c.block /\ \A b \in taken'[o] : c.block[b].live
          BY <4>2 DEF FoundOn, Visit
        <4>4. Crossing(o, held[o])' => Crossing(r, Index)
          BY <1>6, <1>7, <3>1, <4>1 DEF Crossing
        <4> QED
          BY <4>1, <4>2, <4>3, <4>4
      <3>2. CASE o # r
        <4>1. WaitsForPage(o) /\ held'[o] = held[o] /\ taken'[o] = taken[o]
          BY <1>6, <1>7, <2>1, <3>2 DEF WaitsForPage
        <4>2. held[o] \in DOMAIN trees
          BY <1>1, <4>1 DEF Stages, WaitsForPage
        <4>3. /\ taken[o] \subseteq DOMAIN trees[held[o]].block
              /\ \/ trees[held[o]].crossed
                 \/ /\ \A b \in taken[o] : trees[held[o]].block[b].live
                    /\ ~Crossing(o, held[o])
          BY <1>1, <4>1 DEF PagesInHand
        <4>4. /\ trees'[held[o]].block = trees[held[o]].block
              /\ trees[held[o]].crossed => trees'[held[o]].crossed
          BY <1>2, <4>2 DEF Visit
        <4>5. CASE trees'[held[o]].crossed
          BY <4>1, <4>3, <4>4, <4>5
        <4>6. CASE ~trees'[held[o]].crossed
          <5>1. ~Crossing(o, held[o])
            BY <4>3, <4>4, <4>6
          <5>2. ASSUME Crossing(o, held[o])' PROVE FALSE
            <6>1. PICK q \in Request \ {o} :
                    kind'[q] = "page" /\ stage'[q] = "waits" /\ held'[q] = held[o]
              BY <4>1, <5>2 DEF Crossing
            <6>2. q = r
              BY <1>6, <1>7, <5>1, <6>1 DEF Crossing
            <6>3. k = "page" /\ s = "waits" /\ held[o] = Index
              BY <1>6, <1>7, <6>1, <6>2
            <6>4. Crossing(r, Index)
              BY <3>2, <4>1, <6>3 DEF Crossing, WaitsForPage
            <6>5. c.crossed
              BY <1>9a, <6>3, <6>4
            <6> QED
              BY <1>2, <4>6, <6>3, <6>5
          <5> QED
            BY <4>1, <4>3, <4>4, <5>2, <4>6
        <4> QED
          BY <4>5, <4>6
      <3> QED
        BY <3>1, <3>2
    <2> QED
      BY <2>1 DEF PagesInHand
  <1> QED
    BY <1>11, <1>12, <1>13, <1>14, <1>15, <1>16, <1>18, <1>19, <1>20, <1>21 DEF IInv

\* The requests that come: for the page, ...
LEMMA OpenPageKeeps ==
  ASSUME IInv, NEW r \in Request, OpenPage(r)
  PROVE  IInv'
  <1>1. TypeOK
    BY DEF IInv
  <1>2. Found \in Content /\ Crossing(r, Index) \in BOOLEAN
    BY <1>1, EverywhereTyped DEF Crossing
  <1>3. PICK c : c = [Found EXCEPT !.crossed = @ \/ Crossing(r, Index)]
    OBVIOUS
  <1>4. /\ c \in Content /\ c.edits = Found.edits /\ c.block = Found.block
        /\ c.crossed = (Found.crossed \/ Crossing(r, Index))
    BY <1>2, <1>3, CrossedFacts
  <1>5. PICK s : s = IF FoundOn(Found) = {} THEN "over" ELSE "waits"
    OBVIOUS
  <1>6. Comes(r, "page") /\ Take(c)
    BY <1>3 DEF OpenPage
  <1>7. r \notin Found.edits
    <2>1. Known(Found)
      BY <1>1, EverywhereTyped DEF IInv, EditsAccounted
    <2> QED
      BY <1>6, <2>1 DEF Known, Comes
  <1>8. /\ stage' = [stage EXCEPT ![r] = s]
        /\ held' = IF s = "waits" THEN [held EXCEPT ![r] = Index] ELSE held
        /\ taken' = IF s = "waits" THEN [taken EXCEPT ![r] = FoundOn(Found)] ELSE taken
    BY <1>5 DEF OpenPage
  <1>9. FoundOn(Found) \subseteq Block
    <2>1. DOMAIN Found.block \subseteq Block
      BY <1>2, ContentTyped
    <2> QED
      BY <2>1 DEF FoundOn
  <1>10. taken \in [Request -> SUBSET Block]
    BY <1>1 DEF TypeOK
  <1>11. /\ taken' \in [Request -> SUBSET Block]
         /\ \A o \in Request \ {r} : taken'[o] = taken[o]
         /\ s = "waits" => taken'[r] = FoundOn(Found)
    BY <1>8, <1>9, <1>10
  <1>12. pending' = None /\ None # r
    BY EditsAssumption DEF OpenPage, Comes, LoopFree
  <1>13. UNCHANGED <<file, snapshot, task, restarts, raced, unlogged, dropped, audit>>
    BY DEF OpenPage
  <1>14. "page" \in Kind
    BY DEF Kind
  <1>15. Visit(r, "page", s, c)
    BY <1>4, <1>5, <1>6, <1>7, <1>8, <1>11, <1>12, <1>13, <1>14 DEF Visit
  <1> QED
    BY <1>15, VisitKeeps

\* ... for a table, ...
LEMMA OpenTableKeeps ==
  ASSUME IInv, NEW r \in Request, OpenTable(r)
  PROVE  IInv'
  <1>1. TypeOK
    BY DEF IInv
  <1>2. PICK c : c = Found
    OBVIOUS
  <1>3. Comes(r, "table") /\ Take(c) /\ c \in Content
    BY <1>1, <1>2, EverywhereTyped DEF OpenTable
  <1>4. r \notin Found.edits
    <2>1. Known(Found)
      BY <1>1, EverywhereTyped DEF IInv, EditsAccounted
    <2> QED
      BY <1>3, <2>1 DEF Known, Comes
  <1>5. taken' = taken /\ taken \in [Request -> SUBSET Block]
    BY <1>1 DEF OpenTable, TypeOK
  <1>6. pending' = None /\ None # r
    BY EditsAssumption DEF OpenTable, Comes, LoopFree
  <1>7. UNCHANGED <<file, snapshot, task, restarts, raced, unlogged, dropped, audit>>
    BY DEF OpenTable
  <1>8. stage' = [stage EXCEPT ![r] = "waits"] /\ held' = [held EXCEPT ![r] = Index]
    BY DEF OpenTable
  <1>9. "table" \in Kind
    BY DEF Kind
  <1>10. Visit(r, "table", "waits", c)
    BY <1>2, <1>3, <1>4, <1>5, <1>6, <1>7, <1>8, <1>9 DEF Visit
  <1> QED
    BY <1>10, VisitKeeps

\* ... for a translation, ...
LEMMA StartTranslationKeeps ==
  ASSUME IInv, NEW r \in Request, StartTranslation(r)
  PROVE  IInv'
  <1>1. TypeOK
    BY DEF IInv
  <1>2. PICK c : c = Found
    OBVIOUS
  <1>3. Comes(r, "translation") /\ Take(c) /\ c \in Content
    BY <1>1, <1>2, EverywhereTyped DEF StartTranslation
  <1>4. r \notin Found.edits
    <2>1. Known(Found)
      BY <1>1, EverywhereTyped DEF IInv, EditsAccounted
    <2> QED
      BY <1>3, <2>1 DEF Known, Comes
  <1>5. taken' = taken /\ taken \in [Request -> SUBSET Block]
    BY <1>1 DEF StartTranslation, TypeOK
  <1>6. pending' = None /\ None # r
    BY EditsAssumption DEF StartTranslation, Comes, LoopFree
  <1>7. UNCHANGED <<file, snapshot, task, restarts, raced, unlogged, dropped, audit>>
    BY DEF StartTranslation
  <1>8. stage' = [stage EXCEPT ![r] = "waits"] /\ held' = [held EXCEPT ![r] = Index]
    BY DEF StartTranslation
  <1>9. "translation" \in Kind
    BY DEF Kind
  <1>10. Visit(r, "translation", "waits", c)
    BY <1>2, <1>3, <1>4, <1>5, <1>6, <1>7, <1>8, <1>9 DEF Visit
  <1> QED
    BY <1>10, VisitKeeps

\* ... for a node, ...
LEMMA RefineNodeKeeps ==
  ASSUME IInv, NEW r \in Request, RefineNode(r)
  PROVE  IInv'
  <1>1. TypeOK
    BY DEF IInv
  <1>2. Found \in Content
    BY <1>1, EverywhereTyped
  <1>3. PICK c : c = Edited(Found, r)
    OBVIOUS
  <1>4. /\ c \in Content /\ c.edits = Found.edits \cup {r}
        /\ c.block = Found.block /\ c.crossed = Found.crossed
    BY <1>2, <1>3, EditedFacts
  <1>5. Comes(r, "node") /\ Take(c)
    BY <1>3 DEF RefineNode
  <1>6. taken' = taken /\ held' = held /\ taken \in [Request -> SUBSET Block]
    BY <1>1 DEF RefineNode, TypeOK
  <1>7. pending' = r /\ None # r
    BY EditsAssumption DEF RefineNode, SaveBy
  <1>8. file' = c /\ raced' = (raced \/ \E o \in Request : snapshot[o] # None)
    BY <1>3 DEF RefineNode, SaveBy
  <1>9. UNCHANGED <<snapshot, task, restarts, unlogged, dropped, audit>>
    BY DEF RefineNode
  <1>10. stage' = [stage EXCEPT ![r] = "done"]
    BY DEF RefineNode
  <1>11. "node" \in Kind
    BY DEF Kind
  <1>12. Visit(r, "node", "done", c)
    BY <1>4, <1>5, <1>6, <1>7, <1>8, <1>9, <1>10, <1>11 DEF Visit
  <1> QED
    BY <1>12, VisitKeeps

\* ... for a skill, ...
LEMMA ActivateSkillKeeps ==
  ASSUME IInv, NEW r \in Request, ActivateSkill(r)
  PROVE  IInv'
  <1>1. TypeOK
    BY DEF IInv
  <1>2. Found \in Content
    BY <1>1, EverywhereTyped
  <1>3. PICK c : c = Edited(Found, r)
    OBVIOUS
  <1>4. /\ c \in Content /\ c.edits = Found.edits \cup {r}
        /\ c.block = Found.block /\ c.crossed = Found.crossed
    BY <1>2, <1>3, EditedFacts
  <1>5. Comes(r, "skill") /\ Take(c)
    BY <1>3 DEF ActivateSkill
  <1>6. taken' = taken /\ held' = held /\ taken \in [Request -> SUBSET Block]
    BY <1>1 DEF ActivateSkill, TypeOK
  <1>7. pending' = None /\ None # r
    BY EditsAssumption DEF ActivateSkill, Comes, LoopFree
  <1>8. file' = c /\ raced' = (raced \/ \E o \in Request : snapshot[o] # None)
    BY <1>3 DEF ActivateSkill
  <1>9. UNCHANGED <<snapshot, task, restarts, unlogged, dropped, audit>>
    BY DEF ActivateSkill
  <1>10. stage' = [stage EXCEPT ![r] = "done"]
    BY DEF ActivateSkill
  <1>11. "skill" \in Kind
    BY DEF Kind
  <1>12. Visit(r, "skill", "done", c)
    BY <1>4, <1>5, <1>6, <1>7, <1>8, <1>9, <1>10, <1>11 DEF Visit
  <1> QED
    BY <1>12, VisitKeeps

\* ... and for a correction, which may raise half-way.
LEMMA CorrectKeeps ==
  ASSUME IInv, NEW r \in Request, Correct(r)
  PROVE  IInv'
  <1>1. TypeOK
    BY DEF IInv
  <1>2. Found \in Content
    BY <1>1, EverywhereTyped
  <1>3. PICK c : c = Edited(Found, r)
    OBVIOUS
  <1>4. /\ c \in Content /\ c.edits = Found.edits \cup {r}
        /\ c.block = Found.block /\ c.crossed = Found.crossed
    BY <1>2, <1>3, EditedFacts
  <1>5. Comes(r, "correction") /\ Take(c)
    BY <1>3 DEF Correct
  <1>6. taken' = taken /\ held' = held /\ taken \in [Request -> SUBSET Block]
    BY <1>1 DEF Correct, TypeOK
  <1>7. UNCHANGED <<file, snapshot, task, restarts, raced, unlogged, dropped, audit>>
    BY DEF Correct
  <1>8. PICK s \in {"done", "over"} :
          /\ stage' = [stage EXCEPT ![r] = s]
          /\ pending' = IF s = "done" THEN r ELSE None
    <2>1. CASE pending' = r /\ stage' = [stage EXCEPT ![r] = "done"]
      BY <2>1
    <2>2. CASE pending' = None /\ stage' = [stage EXCEPT ![r] = "over"]
      BY <2>2
    <2> QED
      BY <2>1, <2>2 DEF Correct
  <1>9. "correction" \in Kind /\ None # r
    BY EditsAssumption DEF Kind
  <1>10. Visit(r, "correction", s, c)
    BY <1>4, <1>5, <1>6, <1>7, <1>8, <1>9 DEF Visit
  <1> QED
    BY <1>10, VisitKeeps

-----------------------------------------------------------------------------
(* Requests that go on *)

\* What is known of the texts stays known while no new one is made.
LEMMA AccountsCarry ==
  ASSUME TypeOK, EditsAccounted, Everywhere' \subseteq Everywhere,
         \A o \in Request : stage[o] # "new" /\ Accounted(o) =>
                            stage'[o] # "new" /\ Accounted(o)',
         \A o \in Request : stage[o] = "done" => stage'[o] = "done"
  PROVE  EditsAccounted'
  <1>1. ASSUME NEW d \in Everywhere' PROVE Known(d)'
    <2>1. d \in Everywhere /\ d \in Content /\ Known(d)
      BY EverywhereTyped DEF EditsAccounted
    <2>2. d.edits \subseteq Request
      BY <2>1, ContentTyped
    <2> QED
      BY <2>1, <2>2, KnownCarries
  <1> QED
    BY <1>1 DEF EditsAccounted

\* So does what they say.
LEMMA WordsCarry ==
  ASSUME WordsStand, NEW c, SaidOnce(c), Everywhere' \subseteq Everywhere \cup {c}
  PROVE  WordsStand'
  <1>1. \A d : SaidOnce(d)' <=> SaidOnce(d)
    BY DEF SaidOnce, Saying
  <1> QED
    BY <1>1 DEF WordsStand

\* And what the requests for the page have in hand, while no block is replaced.
LEMMA PagesCarry ==
  ASSUME Stages, PagesInHand,
         \A o \in Request : WaitsForPage(o)' =>
           WaitsForPage(o) /\ held'[o] = held[o] /\ taken'[o] = taken[o],
         \A t \in DOMAIN trees :
           trees'[t].block = trees[t].block /\ (trees[t].crossed => trees'[t].crossed)
  PROVE  PagesInHand'
  <1>1. ASSUME NEW o \in Request, WaitsForPage(o)'
        PROVE  /\ taken'[o] \subseteq DOMAIN trees'[held'[o]].block
               /\ \/ trees'[held'[o]].crossed
                  \/ /\ \A b \in taken'[o] : trees'[held'[o]].block[b].live
                     /\ ~Crossing(o, held[o])'
    <2>1. WaitsForPage(o) /\ held'[o] = held[o] /\ taken'[o] = taken[o]
      BY <1>1
    <2>2. held[o] \in DOMAIN trees
      BY <2>1 DEF Stages, WaitsForPage
    <2>3. Crossing(o, held[o])' => Crossing(o, held[o])
      BY <2>1 DEF Crossing, WaitsForPage
    <2> QED
      BY <2>1, <2>2, <2>3 DEF PagesInHand
  <1> QED
    BY <1>1 DEF PagesInHand

\* What an answer makes of the tree it was asked about.
LEMMA AnswerMakes ==
  ASSUME IInv, NEW r \in Request, stage[r] = "waits", kind[r] \in {"page", "table"},
         NEW role \in Role, NEW d, d = trees[held[r]], NEW c,
         c = IF kind[r] = "page" THEN Refined(d, r, role) ELSE Edited(d, r)
  PROVE  /\ held[r] \in DOMAIN trees /\ d \in Content /\ d \in Everywhere
         /\ c \in Content /\ c.edits = d.edits \cup {r} /\ c.crossed = d.crossed
         /\ DOMAIN d.block \subseteq DOMAIN c.block
         /\ DOMAIN c.block \subseteq DOMAIN d.block \cup {r}
         /\ kind[r] = "table" => c.block = d.block
         /\ SaidOnce(c)
  <1>1. TypeOK /\ held[r] \in DOMAIN trees
    BY DEF IInv, Stages
  <1>2. d \in Content /\ d \in Everywhere
    BY <1>1, EverywhereTyped
  <1>3. SaidOnce(d) /\ Known(d)
    BY <1>2 DEF IInv, WordsStand, EditsAccounted
  <1>4. CASE kind[r] = "table" \/ role = "text"
    <2>1. c = Edited(d, r)
      BY <1>4 DEF Refined, Edited
    <2>2. /\ c \in Content /\ c.edits = d.edits \cup {r}
          /\ c.block = d.block /\ c.crossed = d.crossed
      BY <1>2, <2>1, EditedFacts
    <2>3. SaidOnce(c)
      BY <1>3, <2>2, SameBlocks
    <2> QED
      BY <1>1, <1>2, <2>2, <2>3
  <1>5. CASE kind[r] = "page" /\ role # "text"
    <2>1. PICK e : e = Replaced(d, r, role)
      OBVIOUS
    <2>2. c = Edited(e, r)
      BY <1>5, <2>1 DEF Refined, Edited
    <2>3. /\ taken[r] \subseteq DOMAIN d.block
          /\ d.crossed \/ \A b \in taken[r] : d.block[b].live
      BY <1>5 DEF IInv, PagesInHand, WaitsForPage
    <2>4. r \notin DOMAIN d.block
      BY <1>3 DEF Known
    <2>5. /\ e \in Content /\ e.edits = d.edits /\ e.crossed = d.crossed
          /\ DOMAIN e.block = DOMAIN d.block \cup {r}
      BY <1>2, <2>1, <2>3, ReplacedFacts
    <2>6. SaidOnce(e)
      BY <1>2, <1>3, <2>1, <2>3, <2>4, ReplacedSaysOnce
    <2>7. /\ c \in Content /\ c.edits = e.edits \cup {r}
          /\ c.block = e.block /\ c.crossed = e.crossed
      BY <2>2, <2>5, EditedFacts
    <2>8. SaidOnce(c)
      BY <2>6, <2>7, SameBlocks
    <2> QED
      BY <1>1, <1>2, <1>5, <2>5, <2>7, <2>8
  <1> QED
    BY <1>4, <1>5

\* The agent answers.
LEMMA AnswerKeeps ==
  ASSUME IInv, NEW r \in Request, Answer(r)
  PROVE  IInv'
  <1>1. /\ TypeOK /\ LogOK /\ Stages /\ EditsAccounted /\ OneTreeInUse /\ SnapshotFollows
        /\ FileFollowed /\ DoneIsKept /\ WordsStand /\ PagesInHand
    BY DEF IInv
  <1>2. stage[r] = "waits" /\ kind[r] \in {"page", "table"} /\ pending = None
    BY DEF Answer, LoopFree
  <1>3. PICK t : t = held[r]
    OBVIOUS
  <1>4. PICK d : d = trees[t]
    OBVIOUS
  <1>5. PICK role \in Role : \E c :
          /\ c = IF kind[r] = "page" THEN Refined(d, r, role) ELSE Edited(d, r)
          /\ trees' = [trees EXCEPT ![t] = c] /\ SaveBy(r, c)
    BY <1>3, <1>4 DEF Answer
  <1>6. PICK c : /\ c = IF kind[r] = "page" THEN Refined(d, r, role) ELSE Edited(d, r)
                 /\ trees' = [trees EXCEPT ![t] = c] /\ SaveBy(r, c)
    BY <1>5
  <1>7. /\ t \in DOMAIN trees /\ d \in Content /\ d \in Everywhere
        /\ c \in Content /\ c.edits = d.edits \cup {r} /\ c.crossed = d.crossed
        /\ DOMAIN d.block \subseteq DOMAIN c.block
        /\ DOMAIN c.block \subseteq DOMAIN d.block \cup {r}
        /\ kind[r] = "table" => c.block = d.block
        /\ SaidOnce(c)
    BY <1>2, <1>3, <1>4, <1>6, AnswerMakes
  <1>8. /\ trees \in Seq(Content) /\ held \in [Request -> DOMAIN trees \cup {None}]
        /\ stage \in [Request -> {"new", "waits", "runs", "ends", "done", "over"}]
        /\ taken \in [Request -> SUBSET Block]
        /\ resident \in DOMAIN trees \cup {None} /\ raced \in BOOLEAN
    BY <1>1 DEF TypeOK
  <1>9. /\ trees' \in Seq(Content) /\ DOMAIN trees' = DOMAIN trees /\ trees'[t] = c
        /\ \A u \in DOMAIN trees \ {t} : trees'[u] = trees[u]
    BY <1>6, <1>7, <1>8
  <1>10. /\ file' = c /\ pending' = r
         /\ raced' = (raced \/ \E o \in Request : snapshot[o] # None)
    BY <1>6 DEF SaveBy
  <1>11. /\ stage' = [stage EXCEPT ![r] = "done"]
         /\ held' = [held EXCEPT ![r] = None] /\ taken' = [taken EXCEPT ![r] = {}]
    BY DEF Answer, Leave
  <1>12. /\ stage' \in [Request -> {"new", "waits", "runs", "ends", "done", "over"}]
         /\ held' \in [Request -> DOMAIN trees' \cup {None}]
         /\ taken' \in [Request -> SUBSET Block]
         /\ stage'[r] = "done" /\ held'[r] = None
         /\ \A o \in Request \ {r} :
              stage'[o] = stage[o] /\ held'[o] = held[o] /\ taken'[o] = taken[o]
    BY <1>8, <1>9, <1>11
  <1>13. UNCHANGED <<resident, kind, snapshot, task, restarts, forked, unlogged, dropped, audit>>
    BY DEF Answer
  <1>14. /\ resident' = resident /\ kind' = kind /\ snapshot' = snapshot /\ forked' = forked
         /\ dropped' = dropped /\ unlogged' = unlogged /\ \A o : Recorded(o)' <=> Recorded(o)
    BY <1>13 DEF audit, Recorded
  <1>15. TypeOK'
    <2>1. /\ snapshot' \in [Request -> Content \cup {None}] /\ task' \in BOOLEAN
          /\ restarts' \in 0..MaxRestarts /\ unlogged' \subseteq Request
          /\ dropped' \subseteq Request /\ kind' \in [Request -> Kind \cup {None}]
          /\ forked' \in BOOLEAN /\ resident' \in DOMAIN trees' \cup {None}
      BY <1>1, <1>9, <1>13 DEF TypeOK
    <2>2. file' \in Content /\ pending' \in Request \cup {None} /\ raced' \in BOOLEAN
      BY <1>7, <1>8, <1>10
    <2> QED
      BY <1>9, <1>12, <2>1, <2>2 DEF TypeOK
  <1>16. LogOK'
    BY <1>1, <1>13 DEF LogOK, audit
  <1>17. Stages'
    <2>1. ASSUME NEW o \in Request
          PROVE  /\ stage'[o] = "new" <=> kind'[o] = None
                 /\ held'[o] # None => stage'[o] \in {"waits", "runs", "ends"}
                 /\ stage'[o] \in {"waits", "runs", "ends"} => held'[o] \in DOMAIN trees'
                 /\ stage'[o] = "waits" => kind'[o] \in {"page", "table", "translation"}
                 /\ stage'[o] \in {"runs", "ends"} => kind'[o] = "translation"
                 /\ snapshot'[o] # None => stage'[o] = "runs"
                 /\ Recorded(o)' => stage'[o] # "new"
      <3>1. CASE o = r
        BY <1>1, <1>2, <1>9, <1>12, <1>14, <3>1 DEF Stages
      <3>2. CASE o # r
        BY <1>1, <1>9, <1>12, <1>14, <3>2 DEF Stages
      <3> QED
        BY <3>1, <3>2
    <2>2. stage'[pending'] = "done" /\ kind'[pending'] # "translation"
      BY <1>2, <1>10, <1>12, <1>14
    <2> QED
      BY <2>1, <2>2 DEF Stages
  <1>18. Everywhere' \subseteq Everywhere \cup {c}
    <2>1. \A u \in DOMAIN trees' : trees'[u] \in Everywhere \cup {c}
      BY <1>9 DEF Everywhere
    <2> QED
      BY <1>10, <1>14, <2>1 DEF Everywhere
  <1>19. EditsAccounted'
    <2>1. \A o \in Request : stage[o] # "new" /\ Accounted(o) =>
                             stage'[o] # "new" /\ Accounted(o)'
      BY <1>2, <1>10, <1>12, <1>14, EditsAssumption DEF Accounted
    <2>2. \A o \in Request : stage[o] = "done" => stage'[o] = "done"
      BY <1>12
    <2>3. ASSUME NEW e \in Everywhere PROVE Known(e)'
      <3>1. e.edits \subseteq Request
        BY <1>1, EverywhereTyped, ContentTyped
      <3> QED
        BY <1>1, <2>1, <2>2, <3>1, KnownCarries DEF EditsAccounted
    <2>4. Known(c)'
      <3>1. Known(d) /\ d.edits \subseteq Request
        BY <1>1, <1>7, ContentTyped DEF EditsAccounted
      <3>2. ASSUME NEW o \in c.edits PROVE stage'[o] # "new" /\ Accounted(o)'
        <4>1. CASE o = r
          BY <1>10, <1>12, <4>1 DEF Accounted
        <4>2. CASE o # r
          BY <1>7, <2>1, <3>1, <3>2, <4>2 DEF Known
        <4> QED
          BY <4>1, <4>2
      <3>3. ASSUME NEW o \in Request \cap DOMAIN c.block PROVE stage'[o] = "done"
        BY <1>7, <1>12, <2>2, <3>1, <3>3 DEF Known
      <3> QED
        BY <3>2, <3>3 DEF Known
    <2> QED
      BY <1>18, <2>3, <2>4 DEF EditsAccounted
  <1>20. OneTreeInUse'
    BY <1>1, <1>12, <1>14 DEF OneTreeInUse
  <1>21. SnapshotFollows'
    <2>1. ASSUME NEW o \in Request, snapshot'[o] # None
          PROVE  snapshot'[o].edits \subseteq trees'[held'[o]].edits
      <3>1. o # r /\ held'[o] = held[o] /\ held[o] \in DOMAIN trees /\ snapshot[o] # None
        BY <1>1, <1>2, <1>12, <1>14, <2>1 DEF Stages
      <3>2. snapshot[o].edits \subseteq trees[held[o]].edits
        BY <1>1, <3>1 DEF SnapshotFollows
      <3>3. trees[held[o]].edits \subseteq trees'[held[o]].edits
        BY <1>4, <1>7, <1>9, <3>1
      <3> QED
        BY <1>14, <3>1, <3>2, <3>3
    <2> QED
      BY <2>1 DEF SnapshotFollows
  <1>22. ASSUME ~forked', ~raced'
         PROVE  /\ ~forked /\ ~raced /\ file.edits \subseteq c.edits
                /\ resident \in {None, t} /\ \A o \in Request : held[o] \in {None, t}
                /\ \A o \in Request : snapshot[o] = None
    <2>1. ~forked /\ ~raced /\ \A o \in Request : snapshot[o] = None
      BY <1>8, <1>10, <1>14, <1>22
    <2>2. held[r] # None
      BY <1>1, <1>2, <1>3, <1>7, <1>8, EditsAssumption
    <2>3. resident \in {None, t} /\ \A o \in Request : held[o] \in {None, t}
      BY <1>1, <1>3, <2>1, <2>2 DEF OneTreeInUse
    <2>4. file.edits \subseteq d.edits
      BY <1>1, <1>3, <1>4, <2>1, <2>2 DEF FileFollowed
    <2> QED
      BY <1>7, <2>1, <2>3, <2>4
  <1>23. FileFollowed'
    <2>1. ASSUME ~forked', ~raced'
          PROVE  /\ resident' # None => file'.edits \subseteq trees'[resident'].edits
                 /\ \A o \in Request :
                      /\ held'[o] # None => file'.edits \subseteq trees'[held'[o]].edits
                      /\ snapshot'[o] # None => file'.edits \subseteq snapshot'[o].edits
      BY <1>9, <1>10, <1>12, <1>14, <1>22, <2>1
    <2> QED
      BY <2>1 DEF FileFollowed
  <1>24. DoneIsKept'
    <2>1. ASSUME ~forked', ~raced' PROVE Found.edits \subseteq c.edits
      <3>1. CASE resident = None
        BY <1>22, <2>1, <3>1 DEF Found
      <3>2. CASE resident # None
        BY <1>4, <1>7, <1>22, <2>1, <3>2 DEF Found
      <3> QED
        BY <3>1, <3>2
    <2>2. ASSUME ~forked', ~raced', NEW o \in Request
          PROVE  /\ stage'[o] = "ends" => o \in file'.edits
                 /\ stage'[o] = "done" /\ kind'[o] # "correction" => o \in file'.edits
                 /\ stage'[o] = "done" /\ kind'[o] = "correction" =>
                      o \in file'.edits \/ o \in dropped' \/ o \in Found'.edits
                 /\ Recorded(o)' => o \in file'.edits \/ kind'[o] = "correction"
      <3>1. CASE o = r
        BY <1>7, <1>10, <1>12, <3>1
      <3>2. CASE o # r
        <4>1. /\ stage[o] = "ends" => o \in file.edits
              /\ stage[o] = "done" /\ kind[o] # "correction" => o \in file.edits
              /\ stage[o] = "done" /\ kind[o] = "correction" =>
                   o \in file.edits \/ o \in dropped \/ o \in Found.edits
              /\ Recorded(o) => o \in file.edits \/ kind[o] = "correction"
          BY <1>1, <1>22, <2>2 DEF DoneIsKept
        <4> QED
          BY <1>10, <1>12, <1>14, <1>22, <2>1, <2>2, <3>2, <4>1
      <3> QED
        BY <3>1, <3>2
    <2> QED
      BY <2>2 DEF DoneIsKept
  <1>25. WordsStand'
    BY <1>1, <1>7, <1>18, WordsCarry
  <1>26. PagesInHand'
    <2>1. ASSUME NEW o \in Request, WaitsForPage(o)'
          PROVE  /\ taken'[o] \subseteq DOMAIN trees'[held'[o]].block
                 /\ \/ trees'[held'[o]].crossed
                    \/ /\ \A b \in taken'[o] : trees'[held'[o]].block[b].live
                       /\ ~Crossing(o, held[o])'
      <3>1. /\ o # r /\ WaitsForPage(o) /\ held'[o] = held[o] /\ taken'[o] = taken[o]
            /\ held[o] \in DOMAIN trees
        BY <1>1, <1>12, <1>14, <2>1 DEF WaitsForPage, Stages
      <3>2. /\ taken[o] \subseteq DOMAIN trees[held[o]].block
            /\ \/ trees[held[o]].crossed
               \/ /\ \A b \in taken[o] : trees[held[o]].block[b].live
                  /\ ~Crossing(o, held[o])
        BY <1>1, <3>1 DEF PagesInHand
      <3>3. Crossing(o, held[o])' => Crossing(o, held[o])
        BY <1>12, <1>14, <3>1 DEF Crossing
      <3>4. CASE held[o] # t
        BY <1>9, <3>1, <3>2, <3>3, <3>4
      <3>5. CASE held[o] = t /\ kind[r] = "page"
        <4>1. Crossing(o, t)
          BY <1>2, <1>3, <3>1, <3>5 DEF Crossing
        <4>2. c.crossed
          BY <1>4, <1>7, <3>2, <3>5, <4>1
        <4> QED
          BY <1>4, <1>7, <1>9, <3>1, <3>2, <3>5, <4>2
      <3>6. CASE held[o] = t /\ kind[r] = "table"
        BY <1>4, <1>7, <1>9, <3>1, <3>2, <3>3, <3>6
      <3> QED
        BY <1>2, <3>4, <3>5, <3>6
    <2> QED
      BY <2>1 DEF PagesInHand
  <1> QED
    BY <1>15, <1>16, <1>17, <1>19, <1>20, <1>21, <1>23, <1>24, <1>25, <1>26 DEF IInv

\* No agent answers, ...
LEMMA NoAnswerKeeps ==
  ASSUME IInv, NEW r \in Request, NoAnswer(r)
  PROVE  IInv'
  <1>1. /\ TypeOK /\ LogOK /\ Stages /\ EditsAccounted /\ OneTreeInUse /\ SnapshotFollows
        /\ FileFollowed /\ DoneIsKept /\ WordsStand /\ PagesInHand
    BY DEF IInv
  <1>2. /\ stage \in [Request -> {"new", "waits", "runs", "ends", "done", "over"}]
        /\ held \in [Request -> DOMAIN trees \cup {None}]
        /\ taken \in [Request -> SUBSET Block]
        /\ stage[r] = "waits"
    BY <1>1 DEF TypeOK, NoAnswer
  <1>3. /\ stage' = [stage EXCEPT ![r] = "over"]
        /\ held' = [held EXCEPT ![r] = None] /\ taken' = [taken EXCEPT ![r] = {}]
        /\ UNCHANGED <<document, kind, snapshot, pending, task, history, audit>>
    BY DEF NoAnswer, Leave
  <1>4. /\ stage'[r] = "over" /\ held'[r] = None
        /\ \A o \in Request \ {r} :
             stage'[o] = stage[o] /\ held'[o] = held[o] /\ taken'[o] = taken[o]
        /\ stage' \in [Request -> {"new", "waits", "runs", "ends", "done", "over"}]
        /\ held' \in [Request -> DOMAIN trees \cup {None}]
        /\ taken' \in [Request -> SUBSET Block]
    BY <1>2, <1>3
  <1>5. /\ trees' = trees /\ resident' = resident /\ file' = file /\ kind' = kind
        /\ snapshot' = snapshot /\ pending' = pending /\ forked' = forked /\ raced' = raced
        /\ dropped' = dropped /\ unlogged' = unlogged /\ \A o : Recorded(o)' <=> Recorded(o)
        /\ task' = task /\ restarts' = restarts
    BY <1>3 DEF document, history, audit, Recorded
  <1>6. TypeOK'
    BY <1>1, <1>4, <1>5 DEF TypeOK
  <1>7. LogOK'
    BY <1>1, <1>3 DEF LogOK, audit
  <1>8. Stages'
    <2>1. ASSUME NEW o \in Request
          PROVE  /\ stage'[o] = "new" <=> kind'[o] = None
                 /\ held'[o] # None => stage'[o] \in {"waits", "runs", "ends"}
                 /\ stage'[o] \in {"waits", "runs", "ends"} => held'[o] \in DOMAIN trees'
                 /\ stage'[o] = "waits" => kind'[o] \in {"page", "table", "translation"}
                 /\ stage'[o] \in {"runs", "ends"} => kind'[o] = "translation"
                 /\ snapshot'[o] # None => stage'[o] = "runs"
                 /\ Recorded(o)' => stage'[o] # "new"
      <3>1. CASE o = r
        BY <1>1, <1>2, <1>4, <1>5, <3>1 DEF Stages
      <3>2. CASE o # r
        BY <1>1, <1>4, <1>5, <3>2 DEF Stages
      <3> QED
        BY <3>1, <3>2
    <2>2. pending' # None => stage'[pending'] = "done" /\ kind'[pending'] # "translation"
      BY <1>1, <1>2, <1>4, <1>5 DEF Stages, TypeOK
    <2> QED
      BY <2>1, <2>2 DEF Stages
  <1>9. Everywhere' = Everywhere
    BY <1>5 DEF Everywhere
  <1>10. EditsAccounted'
    <2>1. \A o \in Request : stage[o] # "new" /\ Accounted(o) =>
                             stage'[o] # "new" /\ Accounted(o)'
      BY <1>2, <1>4, <1>5 DEF Accounted
    <2>2. \A o \in Request : stage[o] = "done" => stage'[o] = "done"
      BY <1>2, <1>4
    <2> QED
      BY <1>1, <1>9, <2>1, <2>2, AccountsCarry
  <1>11. OneTreeInUse'
    BY <1>1, <1>4, <1>5 DEF OneTreeInUse
  <1>12. SnapshotFollows'
    <2>1. \A o \in Request : snapshot[o] # None => held'[o] = held[o]
      BY <1>1, <1>2, <1>4 DEF Stages
    <2> QED
      BY <1>1, <1>5, <2>1 DEF SnapshotFollows
  <1>13. FileFollowed'
    BY <1>1, <1>4, <1>5 DEF FileFollowed
  <1>14. DoneIsKept'
    <2>1. \A o \in Request : /\ stage'[o] = "ends" => stage[o] = "ends"
                             /\ stage'[o] = "done" => stage[o] = "done"
      BY <1>4
    <2>2. Found' = Found
      BY <1>5 DEF Found
    <2> QED
      BY <1>1, <1>5, <2>1, <2>2 DEF DoneIsKept
  <1>15. WordsStand'
    <2>1. file \in Everywhere /\ SaidOnce(file)
      BY <1>1, EverywhereTyped DEF WordsStand
    <2> QED
      BY <1>1, <1>9, <2>1, WordsCarry
  <1>16. PagesInHand'
    <2>1. \A o \in Request : WaitsForPage(o)' =>
            WaitsForPage(o) /\ held'[o] = held[o] /\ taken'[o] = taken[o]
      BY <1>4, <1>5 DEF WaitsForPage
    <2> QED
      BY <1>1, <1>5, <2>1, PagesCarry
  <1> QED
    BY <1>6, <1>7, <1>8, <1>10, <1>11, <1>12, <1>13, <1>14, <1>15, <1>16 DEF IInv

\* ... or the targets of a translation are there and its thread starts.
LEMMA LaunchKeeps ==
  ASSUME IInv, NEW r \in Request, Launch(r)
  PROVE  IInv'
  <1>1. /\ TypeOK /\ LogOK /\ Stages /\ EditsAccounted /\ OneTreeInUse /\ SnapshotFollows
        /\ FileFollowed /\ DoneIsKept /\ WordsStand /\ PagesInHand
    BY DEF IInv
  <1>2. /\ stage \in [Request -> {"new", "waits", "runs", "ends", "done", "over"}]
        /\ stage[r] = "waits" /\ kind[r] = "translation"
    BY <1>1 DEF TypeOK, Launch
  <1>3. /\ stage' = [stage EXCEPT ![r] = "runs"]
        /\ UNCHANGED <<document, kind, held, taken, snapshot, pending, task, history, audit>>
    BY DEF Launch
  <1>4. /\ stage'[r] = "runs" /\ \A o \in Request \ {r} : stage'[o] = stage[o]
        /\ stage' \in [Request -> {"new", "waits", "runs", "ends", "done", "over"}]
    BY <1>2, <1>3
  <1>5. /\ trees' = trees /\ resident' = resident /\ file' = file /\ kind' = kind
        /\ held' = held /\ taken' = taken
        /\ snapshot' = snapshot /\ pending' = pending /\ forked' = forked /\ raced' = raced
        /\ dropped' = dropped /\ unlogged' = unlogged /\ \A o : Recorded(o)' <=> Recorded(o)
        /\ task' = task /\ restarts' = restarts
    BY <1>3 DEF document, history, audit, Recorded
  <1>6. TypeOK'
    BY <1>1, <1>4, <1>5 DEF TypeOK
  <1>7. LogOK'
    BY <1>1, <1>3 DEF LogOK, audit
  <1>8. Stages'
    <2>1. ASSUME NEW o \in Request
          PROVE  /\ stage'[o] = "new" <=> kind'[o] = None
                 /\ held'[o] # None => stage'[o] \in {"waits", "runs", "ends"}
                 /\ stage'[o] \in {"waits", "runs", "ends"} => held'[o] \in DOMAIN trees'
                 /\ stage'[o] = "waits" => kind'[o] \in {"page", "table", "translation"}
                 /\ stage'[o] \in {"runs", "ends"} => kind'[o] = "translation"
                 /\ snapshot'[o] # None => stage'[o] = "runs"
                 /\ Recorded(o)' => stage'[o] # "new"
      <3>1. CASE o = r
        BY <1>1, <1>2, <1>4, <1>5, <3>1 DEF Stages
      <3>2. CASE o # r
        BY <1>1, <1>4, <1>5, <3>2 DEF Stages
      <3> QED
        BY <3>1, <3>2
    <2>2. pending' # None => stage'[pending'] = "done" /\ kind'[pending'] # "translation"
      BY <1>1, <1>2, <1>4, <1>5 DEF Stages, TypeOK
    <2> QED
      BY <2>1, <2>2 DEF Stages
  <1>9. Everywhere' = Everywhere
    BY <1>5 DEF Everywhere
  <1>10. EditsAccounted'
    <2>1. \A o \in Request : stage[o] # "new" /\ Accounted(o) =>
                             stage'[o] # "new" /\ Accounted(o)'
      BY <1>2, <1>4, <1>5 DEF Accounted
    <2>2. \A o \in Request : stage[o] = "done" => stage'[o] = "done"
      BY <1>2, <1>4
    <2> QED
      BY <1>1, <1>9, <2>1, <2>2, AccountsCarry
  <1>11. OneTreeInUse' /\ SnapshotFollows' /\ FileFollowed'
    BY <1>1, <1>5 DEF OneTreeInUse, SnapshotFollows, FileFollowed
  <1>12. DoneIsKept'
    <2>1. \A o \in Request : /\ stage'[o] = "ends" => stage[o] = "ends"
                             /\ stage'[o] = "done" => stage[o] = "done"
      BY <1>4
    <2>2. Found' = Found
      BY <1>5 DEF Found
    <2> QED
      BY <1>1, <1>5, <2>1, <2>2 DEF DoneIsKept
  <1>13. WordsStand'
    <2>1. file \in Everywhere /\ SaidOnce(file)
      BY <1>1, EverywhereTyped DEF WordsStand
    <2> QED
      BY <1>1, <1>9, <2>1, WordsCarry
  <1>14. PagesInHand'
    <2>1. \A o \in Request : WaitsForPage(o)' =>
            WaitsForPage(o) /\ held'[o] = held[o] /\ taken'[o] = taken[o]
      BY <1>4, <1>5 DEF WaitsForPage
    <2> QED
      BY <1>1, <1>5, <2>1, PagesCarry
  <1> QED
    BY <1>6, <1>7, <1>8, <1>10, <1>11, <1>12, <1>13, <1>14 DEF IInv

\* The thread: its translations go into the tree, ...
LEMMA TranslateKeeps ==
  ASSUME IInv, NEW r \in Request, Translate(r)
  PROVE  IInv'
  <1>1. /\ TypeOK /\ LogOK /\ Stages /\ EditsAccounted /\ OneTreeInUse /\ SnapshotFollows
        /\ FileFollowed /\ DoneIsKept /\ WordsStand /\ PagesInHand
    BY DEF IInv
  <1>2. stage[r] = "runs" /\ kind[r] = "translation" /\ held[r] \in DOMAIN trees
    BY <1>1 DEF Translate, Stages
  <1>3. PICK t : t = held[r]
    OBVIOUS
  <1>4. PICK d : d = trees[t]
    OBVIOUS
  <1>5. PICK c : c = Edited(d, r)
    OBVIOUS
  <1>6. d \in Content /\ d \in Everywhere /\ t \in DOMAIN trees
    BY <1>1, <1>2, <1>3, <1>4, EverywhereTyped
  <1>7. /\ c \in Content /\ c.edits = d.edits \cup {r}
        /\ c.block = d.block /\ c.crossed = d.crossed
    BY <1>5, <1>6, EditedFacts
  <1>8. trees' = [trees EXCEPT ![t] = c] /\ trees \in Seq(Content)
    BY <1>1, <1>3, <1>4, <1>5 DEF Translate, TypeOK
  <1>9. /\ trees' \in Seq(Content) /\ DOMAIN trees' = DOMAIN trees /\ trees'[t] = c
        /\ \A u \in DOMAIN trees \ {t} : trees'[u] = trees[u]
    BY <1>6, <1>7, <1>8
  <1>10. UNCHANGED <<resident, file, requests, history, audit>>
    BY DEF Translate
  <1>11. /\ resident' = resident /\ file' = file /\ kind' = kind /\ stage' = stage
         /\ held' = held /\ taken' = taken
         /\ snapshot' = snapshot /\ pending' = pending /\ forked' = forked /\ raced' = raced
         /\ dropped' = dropped /\ unlogged' = unlogged /\ \A o : Recorded(o)' <=> Recorded(o)
         /\ task' = task /\ restarts' = restarts
    BY <1>10 DEF requests, history, audit, Recorded
  <1>12. \A u \in DOMAIN trees : /\ trees[u].edits \subseteq trees'[u].edits
                                 /\ trees'[u].block = trees[u].block
                                 /\ trees'[u].crossed = trees[u].crossed
    BY <1>4, <1>7, <1>9
  <1>13. TypeOK'
    BY <1>1, <1>9, <1>11 DEF TypeOK
  <1>14. LogOK'
    BY <1>1, <1>10 DEF LogOK, audit
  <1>15. Stages'
    BY <1>1, <1>9, <1>11 DEF Stages
  <1>16. Everywhere' \subseteq Everywhere \cup {c}
    <2>1. \A u \in DOMAIN trees' : trees'[u] \in Everywhere \cup {c}
      BY <1>9 DEF Everywhere
    <2> QED
      BY <1>11, <2>1 DEF Everywhere
  <1>17. EditsAccounted'
    <2>1. \A o \in Request : stage[o] # "new" /\ Accounted(o) =>
                             stage'[o] # "new" /\ Accounted(o)'
      BY <1>11 DEF Accounted
    <2>2. \A o \in Request : stage[o] = "done" => stage'[o] = "done"
      BY <1>11
    <2>3. ASSUME NEW e \in Everywhere PROVE Known(e)'
      <3>1. e.edits \subseteq Request
        BY <1>1, EverywhereTyped, ContentTyped
      <3> QED
        BY <1>1, <2>1, <2>2, <3>1, KnownCarries DEF EditsAccounted
    <2>4. Known(c)'
      <3>1. Known(d)'
        BY <1>6, <2>3
      <3>2. stage'[r] # "new" /\ Accounted(r)'
        BY <1>2, <1>11 DEF Accounted
      <3> QED
        BY <1>7, <3>1, <3>2 DEF Known
    <2> QED
      BY <1>16, <2>3, <2>4 DEF EditsAccounted
  <1>18. OneTreeInUse'
    BY <1>1, <1>11 DEF OneTreeInUse
  <1>19. SnapshotFollows'
    <2>1. \A o \in Request : snapshot[o] # None => held[o] \in DOMAIN trees
      BY <1>1 DEF Stages
    <2> QED
      BY <1>1, <1>11, <1>12, <2>1 DEF SnapshotFollows
  <1>20. FileFollowed'
    <2>1. \A o \in Request : held[o] # None => held[o] \in DOMAIN trees
      BY <1>1 DEF Stages
    <2>2. resident # None => resident \in DOMAIN trees
      BY <1>1 DEF TypeOK
    <2> QED
      BY <1>1, <1>11, <1>12, <2>1, <2>2 DEF FileFollowed
  <1>21. DoneIsKept'
    <2>1. Found.edits \subseteq Found'.edits
      <3>1. CASE resident = None
        BY <1>11, <3>1 DEF Found
      <3>2. CASE resident # None
        <4>1. resident \in DOMAIN trees
          BY <1>1, <3>2 DEF TypeOK
        <4> QED
          BY <1>11, <1>12, <3>2, <4>1 DEF Found
      <3> QED
        BY <3>1, <3>2
    <2> QED
      BY <1>1, <1>11, <2>1 DEF DoneIsKept
  <1>22. WordsStand'
    <2>1. SaidOnce(c)
      BY <1>1, <1>6, <1>7, SameBlocks DEF WordsStand
    <2> QED
      BY <1>1, <1>16, <2>1, WordsCarry
  <1>23. PagesInHand'
    <2>1. \A o \in Request : WaitsForPage(o)' =>
            WaitsForPage(o) /\ held'[o] = held[o] /\ taken'[o] = taken[o]
      BY <1>11 DEF WaitsForPage
    <2> QED
      BY <1>1, <1>12, <2>1, PagesCarry
  <1> QED
    BY <1>13, <1>14, <1>15, <1>17, <1>18, <1>19, <1>20, <1>21, <1>22, <1>23 DEF IInv

\* ... the tree is serialized, ...
LEMMA SerializeKeeps ==
  ASSUME IInv, NEW r \in Request, Serialize(r)
  PROVE  IInv'
  <1>1. /\ TypeOK /\ LogOK /\ Stages /\ EditsAccounted /\ OneTreeInUse /\ SnapshotFollows
        /\ FileFollowed /\ DoneIsKept /\ WordsStand /\ PagesInHand
    BY DEF IInv
  <1>2. stage[r] = "runs" /\ held[r] \in DOMAIN trees /\ held[r] # None
    BY <1>1, EditsAssumption DEF Serialize, Stages, TypeOK
  <1>3. PICK c : c = trees[held[r]]
    OBVIOUS
  <1>4. c \in Content /\ c \in Everywhere
    BY <1>1, <1>2, <1>3, EverywhereTyped
  <1>5. snapshot' = [snapshot EXCEPT ![r] = c] /\ snapshot \in [Request -> Content \cup {None}]
    BY <1>1, <1>3 DEF Serialize, TypeOK
  <1>6. /\ snapshot'[r] = c /\ \A o \in Request \ {r} : snapshot'[o] = snapshot[o]
        /\ snapshot' \in [Request -> Content \cup {None}]
    BY <1>4, <1>5
  <1>7. UNCHANGED <<document, kind, stage, held, taken, pending, task, history, audit>>
    BY DEF Serialize
  <1>8. /\ trees' = trees /\ resident' = resident /\ file' = file /\ kind' = kind
        /\ stage' = stage /\ held' = held /\ taken' = taken
        /\ pending' = pending /\ forked' = forked /\ raced' = raced
        /\ dropped' = dropped /\ unlogged' = unlogged /\ \A o : Recorded(o)' <=> Recorded(o)
        /\ task' = task /\ restarts' = restarts
    BY <1>7 DEF document, history, audit, Recorded
  <1>9. TypeOK'
    BY <1>1, <1>6, <1>8 DEF TypeOK
  <1>10. LogOK'
    BY <1>1, <1>7 DEF LogOK, audit
  <1>11. Stages'
    BY <1>1, <1>2, <1>6, <1>8 DEF Stages
  <1>12. Everywhere' \subseteq Everywhere
    BY <1>4, <1>6, <1>8 DEF Everywhere
  <1>13. EditsAccounted'
    <2>1. \A o \in Request : stage[o] # "new" /\ Accounted(o) =>
                             stage'[o] # "new" /\ Accounted(o)'
      BY <1>8 DEF Accounted
    <2>2. \A o \in Request : stage[o] = "done" => stage'[o] = "done"
      BY <1>8
    <2> QED
      BY <1>1, <1>12, <2>1, <2>2, AccountsCarry
  <1>14. OneTreeInUse'
    BY <1>1, <1>8 DEF OneTreeInUse
  <1>15. SnapshotFollows'
    BY <1>1, <1>3, <1>6, <1>8 DEF SnapshotFollows
  <1>16. FileFollowed'
    BY <1>1, <1>2, <1>3, <1>6, <1>8 DEF FileFollowed
  <1>17. DoneIsKept'
    <2>1. Found' = Found
      BY <1>8 DEF Found
    <2> QED
      BY <1>1, <1>8, <2>1 DEF DoneIsKept
  <1>18. WordsStand'
    <2>1. SaidOnce(c)
      BY <1>1, <1>4 DEF WordsStand
    <2> QED
      BY <1>1, <1>12, <2>1, WordsCarry
  <1>19. PagesInHand'
    <2>1. \A o \in Request : WaitsForPage(o)' =>
            WaitsForPage(o) /\ held'[o] = held[o] /\ taken'[o] = taken[o]
      BY <1>8 DEF WaitsForPage
    <2> QED
      BY <1>1, <1>8, <2>1, PagesCarry
  <1> QED
    BY <1>9, <1>10, <1>11, <1>13, <1>14, <1>15, <1>16, <1>17, <1>18, <1>19 DEF IInv

\* ... the file is written, ...
LEMMA WriteKeeps ==
  ASSUME IInv, NEW r \in Request, Write(r)
  PROVE  IInv'
  <1>1. /\ TypeOK /\ LogOK /\ Stages /\ EditsAccounted /\ OneTreeInUse /\ SnapshotFollows
        /\ FileFollowed /\ DoneIsKept /\ WordsStand /\ PagesInHand
    BY DEF IInv
  <1>2. /\ snapshot[r] # None /\ stage[r] = "runs" /\ kind[r] = "translation"
        /\ held[r] \in DOMAIN trees /\ held[r] # None
    BY <1>1, EditsAssumption DEF Write, Stages, TypeOK
  <1>3. PICK c : c = snapshot[r]
    OBVIOUS
  <1>4. c \in Content /\ c \in Everywhere /\ c.edits \subseteq trees[held[r]].edits
    BY <1>1, <1>2, <1>3, EverywhereTyped DEF SnapshotFollows
  <1>5. /\ snapshot \in [Request -> Content \cup {None}] /\ raced \in BOOLEAN
        /\ stage \in [Request -> {"new", "waits", "runs", "ends", "done", "over"}]
    BY <1>1 DEF TypeOK
  <1>6. /\ file' = c /\ snapshot' = [snapshot EXCEPT ![r] = None]
        /\ stage' = [stage EXCEPT ![r] = IF r \in c.edits THEN "ends" ELSE "runs"]
        /\ raced' = (raced \/ \E o \in Request \ {r} : snapshot[o] # None)
        /\ UNCHANGED <<trees, resident, kind, held, taken, pending, task, restarts, forked,
                       unlogged, dropped, audit>>
    BY <1>3 DEF Write
  <1>7. /\ snapshot'[r] = None /\ \A o \in Request \ {r} : snapshot'[o] = snapshot[o]
        /\ snapshot' \in [Request -> Content \cup {None}]
        /\ stage'[r] = IF r \in c.edits THEN "ends" ELSE "runs"
        /\ \A o \in Request \ {r} : stage'[o] = stage[o]
        /\ stage' \in [Request -> {"new", "waits", "runs", "ends", "done", "over"}]
        /\ raced' \in BOOLEAN
    BY <1>5, <1>6
  <1>8. /\ trees' = trees /\ resident' = resident /\ kind' = kind
        /\ held' = held /\ taken' = taken /\ pending' = pending /\ forked' = forked
        /\ dropped' = dropped /\ unlogged' = unlogged /\ \A o : Recorded(o)' <=> Recorded(o)
        /\ task' = task /\ restarts' = restarts
    BY <1>6 DEF audit, Recorded
  <1>9. TypeOK'
    BY <1>1, <1>4, <1>6, <1>7, <1>8 DEF TypeOK
  <1>10. LogOK'
    BY <1>1, <1>6 DEF LogOK, audit
  <1>11. Stages'
    <2>1. ASSUME NEW o \in Request
          PROVE  /\ stage'[o] = "new" <=> kind'[o] = None
                 /\ held'[o] # None => stage'[o] \in {"waits", "runs", "ends"}
                 /\ stage'[o] \in {"waits", "runs", "ends"} => held'[o] \in DOMAIN trees'
                 /\ stage'[o] = "waits" => kind'[o] \in {"page", "table", "translation"}
                 /\ stage'[o] \in {"runs", "ends"} => kind'[o] = "translation"
                 /\ snapshot'[o] # None => stage'[o] = "runs"
                 /\ Recorded(o)' => stage'[o] # "new"
      <3>1. CASE o = r
        BY <1>1, <1>2, <1>7, <1>8, <3>1 DEF Stages
      <3>2. CASE o # r
        BY <1>1, <1>7, <1>8, <3>2 DEF Stages
      <3> QED
        BY <3>1, <3>2
    <2>2. pending' # None => stage'[pending'] = "done" /\ kind'[pending'] # "translation"
      BY <1>1, <1>2, <1>7, <1>8 DEF Stages, TypeOK
    <2> QED
      BY <2>1, <2>2 DEF Stages
  <1>12. Everywhere' \subseteq Everywhere
    BY <1>4, <1>6, <1>7, <1>8 DEF Everywhere
  <1>13. EditsAccounted'
    <2>1. \A o \in Request : stage[o] # "new" /\ Accounted(o) =>
                             stage'[o] # "new" /\ Accounted(o)'
      BY <1>2, <1>7, <1>8 DEF Accounted
    <2>2. \A o \in Request : stage[o] = "done" => stage'[o] = "done"
      BY <1>2, <1>7
    <2> QED
      BY <1>1, <1>12, <2>1, <2>2, AccountsCarry
  <1>14. OneTreeInUse'
    BY <1>1, <1>8 DEF OneTreeInUse
  <1>15. SnapshotFollows'
    BY <1>1, <1>7, <1>8 DEF SnapshotFollows
  <1>16. ASSUME ~forked', ~raced'
         PROVE  /\ ~forked /\ ~raced /\ file.edits \subseteq c.edits
                /\ resident \in {None, held[r]}
                /\ \A o \in Request : held[o] \in {None, held[r]}
                /\ \A o \in Request \ {r} : snapshot[o] = None
    <2>1. ~forked /\ ~raced /\ \A o \in Request \ {r} : snapshot[o] = None
      <3>1. raced' = (raced \/ \E o \in Request \ {r} : snapshot[o] # None)
        BY DEF Write
      <3>2. forked' = forked
        BY <1>8
      <3> QED
        BY <1>5, <1>16, <3>1, <3>2
    <2>2. resident \in {None, held[r]} /\ \A o \in Request : held[o] \in {None, held[r]}
      BY <1>1, <1>2, <2>1 DEF OneTreeInUse
    <2>3. file.edits \subseteq c.edits
      BY <1>1, <1>2, <1>3, <2>1 DEF FileFollowed
    <2> QED
      BY <2>1, <2>2, <2>3
  <1>17. FileFollowed'
    <2>1. ASSUME ~forked', ~raced'
          PROVE  /\ resident' # None => file'.edits \subseteq trees'[resident'].edits
                 /\ \A o \in Request :
                      /\ held'[o] # None => file'.edits \subseteq trees'[held'[o]].edits
                      /\ snapshot'[o] # None => file'.edits \subseteq snapshot'[o].edits
      BY <1>4, <1>6, <1>7, <1>8, <1>16, <2>1
    <2> QED
      BY <2>1 DEF FileFollowed
  <1>18. DoneIsKept'
    <2>1. ASSUME ~forked', ~raced' PROVE Found.edits \subseteq Found'.edits
      BY <1>6, <1>8, <1>16, <2>1 DEF Found
    <2>2. ASSUME ~forked', ~raced', NEW o \in Request
          PROVE  /\ stage'[o] = "ends" => o \in file'.edits
                 /\ stage'[o] = "done" /\ kind'[o] # "correction" => o \in file'.edits
                 /\ stage'[o] = "done" /\ kind'[o] = "correction" =>
                      o \in file'.edits \/ o \in dropped' \/ o \in Found'.edits
                 /\ Recorded(o)' => o \in file'.edits \/ kind'[o] = "correction"
      <3>1. /\ stage[o] = "ends" => o \in file.edits
            /\ stage[o] = "done" /\ kind[o] # "correction" => o \in file.edits
            /\ stage[o] = "done" /\ kind[o] = "correction" =>
                 o \in file.edits \/ o \in dropped \/ o \in Found.edits
            /\ Recorded(o) => o \in file.edits \/ kind[o] = "correction"
        BY <1>1, <1>16, <2>2 DEF DoneIsKept
      <3>2. file.edits \subseteq file'.edits
        BY <1>6, <1>16, <2>2
      <3>3. CASE o = r
        BY <1>2, <1>6, <1>7, <1>8, <3>1, <3>2, <3>3
      <3>4. CASE o # r
        BY <1>7, <1>8, <2>1, <2>2, <3>1, <3>2, <3>4
      <3> QED
        BY <3>3, <3>4
    <2> QED
      BY <2>2 DEF DoneIsKept
  <1>19. WordsStand'
    <2>1. SaidOnce(c)
      BY <1>1, <1>4 DEF WordsStand
    <2> QED
      BY <1>1, <1>12, <2>1, WordsCarry
  <1>20. PagesInHand'
    <2>1. \A o \in Request : WaitsForPage(o)' =>
            WaitsForPage(o) /\ held'[o] = held[o] /\ taken'[o] = taken[o]
      BY <1>7, <1>8 DEF WaitsForPage
    <2> QED
      BY <1>1, <1>8, <2>1, PagesCarry
  <1> QED
    BY <1>9, <1>10, <1>11, <1>13, <1>14, <1>15, <1>17, <1>18, <1>19, <1>20 DEF IInv

\* ... and the run is recorded.
LEMMA RunEndsKeeps ==
  ASSUME IInv, NEW r \in Request, RunEnds(r)
  PROVE  IInv'
  <1>1. /\ TypeOK /\ LogOK /\ Stages /\ EditsAccounted /\ OneTreeInUse /\ SnapshotFollows
        /\ FileFollowed /\ DoneIsKept /\ WordsStand /\ PagesInHand
    BY DEF IInv
  <1>2. /\ stage[r] = "ends" /\ kind[r] = "translation" /\ snapshot[r] = None
    BY <1>1 DEF RunEnds, Stages
  <1>3. /\ stage \in [Request -> {"new", "waits", "runs", "ends", "done", "over"}]
        /\ held \in [Request -> DOMAIN trees \cup {None}]
        /\ taken \in [Request -> SUBSET Block] /\ unlogged \subseteq Request
    BY <1>1 DEF TypeOK
  <1>4. /\ stage' = [stage EXCEPT ![r] = "done"]
        /\ held' = [held EXCEPT ![r] = None] /\ taken' = [taken EXCEPT ![r] = {}]
        /\ UNCHANGED <<document, kind, snapshot, pending, task, restarts, forked, raced, dropped>>
    BY DEF RunEnds, Leave
  <1>5. /\ stage'[r] = "done" /\ held'[r] = None
        /\ \A o \in Request \ {r} :
             stage'[o] = stage[o] /\ held'[o] = held[o] /\ taken'[o] = taken[o]
        /\ stage' \in [Request -> {"new", "waits", "runs", "ends", "done", "over"}]
        /\ held' \in [Request -> DOMAIN trees \cup {None}]
        /\ taken' \in [Request -> SUBSET Block]
    BY <1>3, <1>4
  <1>6. /\ trees' = trees /\ resident' = resident /\ file' = file /\ kind' = kind
        /\ snapshot' = snapshot /\ pending' = pending /\ forked' = forked /\ raced' = raced
        /\ dropped' = dropped /\ task' = task /\ restarts' = restarts
    BY <1>4 DEF document
  <1>7. /\ LogOK' /\ unlogged \subseteq unlogged' /\ unlogged' \subseteq Request
        /\ \A o : (Recorded(o) => Recorded(o)') /\ (Recorded(o)' => Recorded(o) \/ o = r)
        /\ Recorded(r)' \/ r \in unlogged'
    <2>1. CASE Log(r) /\ UNCHANGED unlogged
      BY <1>1, <1>3, <2>1, LogKeeps, LogTells DEF Recorded
    <2>2. CASE LogFails(r) /\ unlogged' = unlogged \cup {r}
      <3>1. lines' = lines
        BY <2>2 DEF LogFails
      <3> QED
        BY <1>1, <1>3, <2>2, <3>1, LogFailsKeeps DEF Recorded
    <2> QED
      BY <2>1, <2>2 DEF RunEnds
  <1>8. TypeOK'
    BY <1>1, <1>5, <1>6, <1>7 DEF TypeOK
  <1>9. Stages'
    <2>1. ASSUME NEW o \in Request
          PROVE  /\ stage'[o] = "new" <=> kind'[o] = None
                 /\ held'[o] # None => stage'[o] \in {"waits", "runs", "ends"}
                 /\ stage'[o] \in {"waits", "runs", "ends"} => held'[o] \in DOMAIN trees'
                 /\ stage'[o] = "waits" => kind'[o] \in {"page", "table", "translation"}
                 /\ stage'[o] \in {"runs", "ends"} => kind'[o] = "translation"
                 /\ snapshot'[o] # None => stage'[o] = "runs"
                 /\ Recorded(o)' => stage'[o] # "new"
      <3>1. CASE o = r
        BY <1>1, <1>2, <1>5, <1>6, <1>7, <3>1 DEF Stages
      <3>2. CASE o # r
        BY <1>1, <1>5, <1>6, <1>7, <3>2 DEF Stages
      <3> QED
        BY <3>1, <3>2
    <2>2. pending' # None => stage'[pending'] = "done" /\ kind'[pending'] # "translation"
      BY <1>1, <1>2, <1>5, <1>6 DEF Stages, TypeOK
    <2> QED
      BY <2>1, <2>2 DEF Stages
  <1>10. Everywhere' = Everywhere
    BY <1>6 DEF Everywhere
  <1>11. EditsAccounted'
    <2>1. \A o \in Request : stage[o] # "new" /\ Accounted(o) =>
                             stage'[o] # "new" /\ Accounted(o)'
      BY <1>2, <1>5, <1>6, <1>7 DEF Accounted
    <2>2. \A o \in Request : stage[o] = "done" => stage'[o] = "done"
      BY <1>2, <1>5
    <2> QED
      BY <1>1, <1>10, <2>1, <2>2, AccountsCarry
  <1>12. OneTreeInUse'
    BY <1>1, <1>5, <1>6 DEF OneTreeInUse
  <1>13. SnapshotFollows'
    <2>1. \A o \in Request : snapshot[o] # None => held'[o] = held[o]
      BY <1>2, <1>5
    <2> QED
      BY <1>1, <1>6, <2>1 DEF SnapshotFollows
  <1>14. FileFollowed'
    BY <1>1, <1>5, <1>6 DEF FileFollowed
  <1>15. DoneIsKept'
    <2>1. Found' = Found
      BY <1>6 DEF Found
    <2>2. ASSUME ~forked', ~raced', NEW o \in Request
          PROVE  /\ stage'[o] = "ends" => o \in file'.edits
                 /\ stage'[o] = "done" /\ kind'[o] # "correction" => o \in file'.edits
                 /\ stage'[o] = "done" /\ kind'[o] = "correction" =>
                      o \in file'.edits \/ o \in dropped' \/ o \in Found'.edits
                 /\ Recorded(o)' => o \in file'.edits \/ kind'[o] = "correction"
      <3>1. /\ stage[o] = "ends" => o \in file.edits
            /\ stage[o] = "done" /\ kind[o] # "correction" => o \in file.edits
            /\ stage[o] = "done" /\ kind[o] = "correction" =>
                 o \in file.edits \/ o \in dropped \/ o \in Found.edits
            /\ Recorded(o) => o \in file.edits \/ kind[o] = "correction"
        BY <1>1, <1>6, <2>2 DEF DoneIsKept
      <3>2. CASE o = r
        BY <1>2, <1>5, <1>6, <3>1, <3>2
      <3>3. CASE o # r
        BY <1>5, <1>6, <1>7, <2>1, <3>1, <3>3
      <3> QED
        BY <3>2, <3>3
    <2> QED
      BY <2>2 DEF DoneIsKept
  <1>16. WordsStand'
    <2>1. file \in Everywhere /\ SaidOnce(file)
      BY <1>1, EverywhereTyped DEF WordsStand
    <2> QED
      BY <1>1, <1>10, <2>1, WordsCarry
  <1>17. PagesInHand'
    <2>1. \A o \in Request : WaitsForPage(o)' =>
            WaitsForPage(o) /\ held'[o] = held[o] /\ taken'[o] = taken[o]
      BY <1>5, <1>6 DEF WaitsForPage
    <2> QED
      BY <1>1, <1>6, <2>1, PagesCarry
  <1> QED
    BY <1>7, <1>8, <1>9, <1>11, <1>12, <1>13, <1>14, <1>15, <1>16, <1>17 DEF IInv

\* A handler writes its record.
LEMMA RecordKeeps ==
  ASSUME IInv, Record
  PROVE  IInv'
  <1>1. /\ TypeOK /\ LogOK /\ Stages /\ EditsAccounted /\ OneTreeInUse /\ SnapshotFollows
        /\ FileFollowed /\ DoneIsKept /\ WordsStand /\ PagesInHand
    BY DEF IInv
  <1>2. PICK r : r = pending
    OBVIOUS
  <1>3. r \in Request /\ stage[r] = "done" /\ kind[r] # "translation"
    BY <1>1, <1>2 DEF Record, Stages, TypeOK
  <1>4. UNCHANGED <<document, kind, stage, held, taken, snapshot, task, restarts, forked, raced,
                    dropped>>
    BY DEF Record
  <1>5. /\ trees' = trees /\ resident' = resident /\ file' = file /\ kind' = kind
        /\ stage' = stage /\ held' = held /\ taken' = taken
        /\ snapshot' = snapshot /\ forked' = forked /\ raced' = raced
        /\ dropped' = dropped /\ task' = task /\ restarts' = restarts /\ pending' = None
    BY <1>4 DEF document, Record
  <1>6. unlogged \subseteq Request
    BY <1>1 DEF TypeOK
  <1>7. /\ LogOK' /\ unlogged \subseteq unlogged' /\ unlogged' \subseteq Request
        /\ \A o : (Recorded(o) => Recorded(o)') /\ (Recorded(o)' => Recorded(o) \/ o = r)
        /\ Recorded(r)' \/ r \in unlogged'
    <2>1. CASE Log(r) /\ UNCHANGED unlogged
      BY <1>1, <1>3, <1>6, <2>1, LogKeeps, LogTells DEF Recorded
    <2>2. CASE LogFails(r) /\ unlogged' = unlogged \cup {r}
      <3>1. lines' = lines
        BY <2>2 DEF LogFails
      <3> QED
        BY <1>1, <1>3, <1>6, <2>2, <3>1, LogFailsKeeps DEF Recorded
    <2> QED
      BY <1>2, <2>1, <2>2 DEF Record
  <1>8. TypeOK'
    BY <1>1, <1>5, <1>7 DEF TypeOK
  <1>9. Stages'
    BY <1>1, <1>3, <1>5, <1>7 DEF Stages
  <1>10. Everywhere' = Everywhere
    BY <1>5 DEF Everywhere
  <1>11. EditsAccounted'
    <2>1. \A o \in Request : stage[o] # "new" /\ Accounted(o) =>
                             stage'[o] # "new" /\ Accounted(o)'
      BY <1>2, <1>5, <1>7 DEF Accounted
    <2>2. \A o \in Request : stage[o] = "done" => stage'[o] = "done"
      BY <1>5
    <2> QED
      BY <1>1, <1>10, <2>1, <2>2, AccountsCarry
  <1>12. OneTreeInUse' /\ SnapshotFollows' /\ FileFollowed'
    BY <1>1, <1>5 DEF OneTreeInUse, SnapshotFollows, FileFollowed
  <1>13. DoneIsKept'
    <2>1. Found' = Found
      BY <1>5 DEF Found
    <2> QED
      BY <1>1, <1>3, <1>5, <1>7, <2>1 DEF DoneIsKept
  <1>14. WordsStand'
    <2>1. file \in Everywhere /\ SaidOnce(file)
      BY <1>1, EverywhereTyped DEF WordsStand
    <2> QED
      BY <1>1, <1>10, <2>1, WordsCarry
  <1>15. PagesInHand'
    <2>1. \A o \in Request : WaitsForPage(o)' =>
            WaitsForPage(o) /\ held'[o] = held[o] /\ taken'[o] = taken[o]
      BY <1>5 DEF WaitsForPage
    <2> QED
      BY <1>1, <1>5, <2>1, PagesCarry
  <1> QED
    BY <1>7, <1>8, <1>9, <1>11, <1>12, <1>13, <1>14, <1>15 DEF IInv

\* The tree is dropped from the cache.
LEMMA EvictKeeps ==
  ASSUME IInv, Evict
  PROVE  IInv'
  <1>1. /\ TypeOK /\ LogOK /\ Stages /\ EditsAccounted /\ OneTreeInUse /\ SnapshotFollows
        /\ FileFollowed /\ DoneIsKept /\ WordsStand /\ PagesInHand
    BY DEF IInv
  <1>2. /\ resident # None /\ resident' = None
        /\ dropped' = dropped \cup {r \in trees[resident].edits \ file.edits :
                                    kind[r] = "correction"}
        /\ UNCHANGED <<trees, file, requests, restarts, forked, raced, unlogged, audit>>
    BY DEF Evict
  <1>3. /\ trees' = trees /\ file' = file /\ kind' = kind
        /\ stage' = stage /\ held' = held /\ taken' = taken /\ pending' = pending
        /\ snapshot' = snapshot /\ forked' = forked /\ raced' = raced
        /\ unlogged' = unlogged /\ \A o : Recorded(o)' <=> Recorded(o)
        /\ task' = task /\ restarts' = restarts
    BY <1>2 DEF requests, audit, Recorded
  <1>4. TypeOK'
    <2>1. trees[resident] \in Content
      BY <1>1, <1>2, EverywhereTyped DEF Found
    <2>2. trees[resident].edits \subseteq Request
      BY <2>1, ContentTyped
    <2>3. dropped' \subseteq Request
      BY <1>1, <1>2, <2>2 DEF TypeOK
    <2> QED
      BY <1>1, <1>2, <1>3, <2>3 DEF TypeOK
  <1>5. LogOK'
    BY <1>1, <1>2 DEF LogOK, audit
  <1>6. Stages'
    BY <1>1, <1>3 DEF Stages
  <1>7. Everywhere' = Everywhere
    BY <1>3 DEF Everywhere
  <1>8. EditsAccounted'
    <2>1. \A o \in Request : stage[o] # "new" /\ Accounted(o) =>
                             stage'[o] # "new" /\ Accounted(o)'
      BY <1>3 DEF Accounted
    <2>2. \A o \in Request : stage[o] = "done" => stage'[o] = "done"
      BY <1>3
    <2> QED
      BY <1>1, <1>7, <2>1, <2>2, AccountsCarry
  <1>9. OneTreeInUse' /\ SnapshotFollows' /\ FileFollowed'
    BY <1>1, <1>2, <1>3 DEF OneTreeInUse, SnapshotFollows, FileFollowed
  <1>10. DoneIsKept'
    <2>1. Found = trees[resident]
      BY <1>2 DEF Found
    <2> QED
      BY <1>1, <1>2, <1>3, <2>1 DEF DoneIsKept
  <1>11. WordsStand'
    <2>1. file \in Everywhere /\ SaidOnce(file)
      BY <1>1, EverywhereTyped DEF WordsStand
    <2> QED
      BY <1>1, <1>7, <2>1, WordsCarry
  <1>12. PagesInHand'
    <2>1. \A o \in Request : WaitsForPage(o)' =>
            WaitsForPage(o) /\ held'[o] = held[o] /\ taken'[o] = taken[o]
      BY <1>3 DEF WaitsForPage
    <2> QED
      BY <1>1, <1>3, <2>1, PagesCarry
  <1> QED
    BY <1>4, <1>5, <1>6, <1>8, <1>9, <1>10, <1>11, <1>12 DEF IInv

\* The server stops and starts again.
LEMMA RestartKeeps ==
  ASSUME IInv, Restart
  PROVE  IInv'
  <1>1. /\ TypeOK /\ LogOK /\ Stages /\ EditsAccounted /\ OneTreeInUse /\ SnapshotFollows
        /\ FileFollowed /\ DoneIsKept /\ WordsStand /\ PagesInHand
    BY DEF IInv
  <1>2. /\ resident' = None /\ pending' = None /\ task' = FALSE /\ restarts' = restarts + 1
        /\ restarts < MaxRestarts
        /\ unlogged' = unlogged \cup {r \in Request : Recording(r)}
        /\ dropped' = dropped \cup {r \in Request :
                                      /\ kind[r] = "correction" /\ resident # None
                                      /\ r \in trees[resident].edits \ file.edits}
        /\ UNCHANGED <<trees, file, kind, forked, raced>>
    BY DEF Restart
  <1>3. /\ stage \in [Request -> {"new", "waits", "runs", "ends", "done", "over"}]
        /\ restarts \in 0..MaxRestarts
    BY <1>1 DEF TypeOK
  <1>4. /\ \A r \in Request :
             stage'[r] = IF stage[r] \in {"waits", "runs", "ends"} THEN "over" ELSE stage[r]
        /\ \A r \in Request : held'[r] = None /\ taken'[r] = {} /\ snapshot'[r] = None
        /\ stage' \in [Request -> {"new", "waits", "runs", "ends", "done", "over"}]
        /\ held' \in [Request -> DOMAIN trees \cup {None}]
        /\ taken' \in [Request -> SUBSET Block]
        /\ snapshot' \in [Request -> Content \cup {None}]
    BY <1>3 DEF Restart
  <1>5. /\ LogOK' /\ \A o : Recorded(o) => Recorded(o)'
        /\ \A o \in Request : Recorded(o)' => Recorded(o) \/ Recording(o)
    <2>1. CASE LogReopened
      <3>1. lines' = lines
        BY <2>1 DEF LogReopened, Reopen
      <3> QED
        BY <1>1, <2>1, <3>1, LogReopenedKeeps DEF Recorded
    <2>2. ASSUME NEW r \in Request, Recording(r), LogCutOff(r)
          PROVE  /\ LogOK' /\ \A o : Recorded(o) => Recorded(o)'
                 /\ \A o \in Request : Recorded(o)' => Recorded(o) \/ Recording(o)
      BY <1>1, <2>2, LogCutOffKeeps, LogCutOffTells DEF Recorded
    <2> QED
      BY <2>1, <2>2 DEF Restart
  <1>6. \A r \in Request : Recording(r) => stage[r] \in {"ends", "done"}
    BY <1>1, EditsAssumption DEF Recording, Stages
  <1>7. TypeOK'
    <2>1. restarts' \in 0..MaxRestarts
      BY <1>2, <1>3, EditsAssumption
    <2>2. unlogged' \subseteq Request /\ dropped' \subseteq Request
      BY <1>1, <1>2 DEF TypeOK
    <2> QED
      BY <1>1, <1>2, <1>4, <2>1, <2>2 DEF TypeOK
  <1>8. Stages'
    <2>1. ASSUME NEW o \in Request
          PROVE  /\ stage'[o] = "new" <=> kind'[o] = None
                 /\ held'[o] # None => stage'[o] \in {"waits", "runs", "ends"}
                 /\ stage'[o] \in {"waits", "runs", "ends"} => held'[o] \in DOMAIN trees'
                 /\ stage'[o] = "waits" => kind'[o] \in {"page", "table", "translation"}
                 /\ stage'[o] \in {"runs", "ends"} => kind'[o] = "translation"
                 /\ snapshot'[o] # None => stage'[o] = "runs"
                 /\ Recorded(o)' => stage'[o] # "new"
      BY <1>1, <1>2, <1>4, <1>5, <1>6 DEF Stages
    <2> QED
      BY <1>2, <2>1 DEF Stages
  <1>9. Everywhere' \subseteq Everywhere
    BY <1>2, <1>4 DEF Everywhere
  <1>10. EditsAccounted'
    <2>1. ASSUME NEW o \in Request, stage[o] # "new", Accounted(o)
          PROVE  stage'[o] # "new" /\ Accounted(o)'
      <3>1. stage'[o] # "new"
        BY <1>4, <2>1
      <3>2. CASE Recorded(o)
        BY <1>5, <3>1, <3>2 DEF Accounted
      <3>3. CASE o \in unlogged \/ o = pending
        BY <1>2, <3>1, <3>3 DEF Accounted, Recording
      <3>4. CASE kind[o] = "skill" \/ (kind[o] = "correction" /\ stage[o] = "over")
        BY <1>2, <1>4, <3>1, <3>4 DEF Accounted
      <3>5. CASE kind[o] = "translation" /\ stage[o] # "done"
        BY <1>2, <1>4, <3>1, <3>5 DEF Accounted
      <3> QED
        BY <2>1, <3>2, <3>3, <3>4, <3>5 DEF Accounted
    <2>2. \A o \in Request : stage[o] = "done" => stage'[o] = "done"
      BY <1>4
    <2> QED
      BY <1>1, <1>9, <2>1, <2>2, AccountsCarry
  <1>11. OneTreeInUse' /\ SnapshotFollows' /\ FileFollowed'
    BY <1>2, <1>4 DEF OneTreeInUse, SnapshotFollows, FileFollowed
  <1>12. DoneIsKept'
    <2>1. ASSUME ~forked', ~raced', NEW o \in Request
          PROVE  /\ stage'[o] = "ends" => o \in file'.edits
                 /\ stage'[o] = "done" /\ kind'[o] # "correction" => o \in file'.edits
                 /\ stage'[o] = "done" /\ kind'[o] = "correction" =>
                      o \in file'.edits \/ o \in dropped' \/ o \in Found'.edits
                 /\ Recorded(o)' => o \in file'.edits \/ kind'[o] = "correction"
      <3>1. /\ stage[o] = "ends" => o \in file.edits
            /\ stage[o] = "done" /\ kind[o] # "correction" => o \in file.edits
            /\ stage[o] = "done" /\ kind[o] = "correction" =>
                 o \in file.edits \/ o \in dropped \/ o \in Found.edits
            /\ Recorded(o) => o \in file.edits \/ kind[o] = "correction"
        BY <1>1, <1>2, <2>1 DEF DoneIsKept
      <3>2. kind'[o] = kind[o] /\ file' = file
        BY <1>2
      <3>3. stage'[o] = "done" => stage[o] = "done"
        BY <1>3, <1>4
      <3>4. Recorded(o)' => o \in file'.edits \/ kind'[o] = "correction"
        <4>1. CASE Recorded(o)
          BY <3>1, <3>2, <4>1
        <4>2. CASE Recording(o)
          BY <1>6, <3>1, <3>2, <4>2
        <4> QED
          BY <1>5, <4>1, <4>2
      <3>5. ASSUME kind[o] = "correction", stage[o] = "done"
            PROVE  o \in file'.edits \/ o \in dropped'
        <4>1. CASE resident = None
          BY <1>2, <3>1, <3>2, <3>5, <4>1 DEF Found
        <4>2. CASE resident # None
          BY <1>2, <3>1, <3>2, <3>5, <4>2 DEF Found
        <4> QED
          BY <4>1, <4>2
      <3>6. stage'[o] # "ends"
        BY <1>3, <1>4
      <3> QED
        BY <3>1, <3>2, <3>3, <3>4, <3>5, <3>6
    <2> QED
      BY <2>1 DEF DoneIsKept
  <1>13. WordsStand'
    <2>1. file \in Everywhere /\ SaidOnce(file)
      BY <1>1, EverywhereTyped DEF WordsStand
    <2> QED
      BY <1>1, <1>9, <2>1, WordsCarry
  <1>14. PagesInHand'
    <2>1. \A o \in Request : ~WaitsForPage(o)'
      BY <1>3, <1>4 DEF WaitsForPage
    <2> QED
      BY <2>1 DEF PagesInHand
  <1> QED
    BY <1>5, <1>7, <1>8, <1>10, <1>11, <1>12, <1>13, <1>14 DEF IInv

-----------------------------------------------------------------------------
(* The specification *)

\* The document nobody has changed.
LEMMA InitOK == Init => IInv
  <1> SUFFICES ASSUME Init PROVE IInv
    OBVIOUS
  <1>1. /\ AuditInit /\ trees = <<>> /\ resident = None /\ file = Fresh
        /\ kind = [r \in Request |-> None] /\ stage = [r \in Request |-> "new"]
        /\ held = [r \in Request |-> None] /\ taken = [r \in Request |-> {}]
        /\ snapshot = [r \in Request |-> None] /\ pending = None /\ task = TRUE
        /\ restarts = 0 /\ forked = FALSE /\ raced = FALSE
        /\ unlogged = {} /\ dropped = {}
    BY DEF Init
  <1>2. LogOK /\ \A r : ~Recorded(r)
    BY <1>1, LogStarts DEF Recorded
  <1>3. /\ DOMAIN Fresh.block = Word /\ Fresh.edits = {} /\ Fresh.crossed = FALSE
        /\ \A w \in Word : Fresh.block[w] = [says |-> {w}, live |-> TRUE, read |-> TRUE]
    BY DEF Fresh
  <1>4. Fresh \in Content
    <2>1. ASSUME NEW w \in Word PROVE Fresh.block[w] \in BlockState
      <3>1. {w} \in SUBSET Word /\ TRUE \in BOOLEAN
        OBVIOUS
      <3>2. [says |-> {w}, live |-> TRUE, read |-> TRUE] \in BlockState
        BY <3>1 DEF BlockState
      <3>3. Fresh.block[w] = [says |-> {w}, live |-> TRUE, read |-> TRUE]
        BY <1>3
      <3> QED
        BY <3>2, <3>3
    <2>2. Fresh.block \in [Word -> BlockState]
      BY <2>1 DEF Fresh
    <2>3. Fresh = [block |-> Fresh.block, edits |-> Fresh.edits, crossed |-> Fresh.crossed]
      BY DEF Fresh
    <2>4. Word \subseteq Block
      BY DEF Block
    <2> QED
      BY <1>3, <2>2, <2>3, <2>4, ContentTyped
  <1>5. trees \in Seq(Content) /\ DOMAIN trees = {}
    BY <1>1
  <1>6. TypeOK
    <2>1. file \in Content
      BY <1>1, <1>4
    <2>2. 0 \in 0..MaxRestarts
      BY EditsAssumption
    <2> QED
      BY <1>1, <1>5, <2>1, <2>2 DEF TypeOK
  <1>7. Stages
    BY <1>1, <1>2 DEF Stages
  <1>8. Everywhere = {Fresh}
    BY <1>1, <1>5 DEF Everywhere
  <1>9. EditsAccounted
    <2>1. Request \cap DOMAIN Fresh.block = {}
      BY <1>3, EditsAssumption
    <2>2. Known(Fresh)
      BY <1>3, <2>1 DEF Known
    <2> QED
      BY <1>8, <2>2 DEF EditsAccounted
  <1>10. OneTreeInUse /\ SnapshotFollows /\ FileFollowed /\ PagesInHand
    BY <1>1 DEF OneTreeInUse, SnapshotFollows, FileFollowed, PagesInHand, WaitsForPage
  <1>11. DoneIsKept
    BY <1>1, <1>2 DEF DoneIsKept
  <1>12. WordsStand
    <2>1. ASSUME NEW w \in Word PROVE Saying(Fresh, w) = {w}
      <3>1. ASSUME NEW v \in Word PROVE Fresh.block[v].live /\ Fresh.block[v].says = {v}
        <4>1. Fresh.block[v] = [says |-> {v}, live |-> TRUE, read |-> TRUE]
          BY <1>3
        <4> QED
          BY <4>1
      <3>2. DOMAIN Fresh.block = Word
        BY <1>3
      <3>3. \A b : b \in Saying(Fresh, w) <=> b = w
        BY <3>1, <3>2 DEF Saying
      <3> QED
        BY <3>3
    <2>2. SaidOnce(Fresh)
      BY <2>1 DEF SaidOnce
    <2> QED
      BY <1>8, <2>2 DEF WordsStand
  <1> QED
    BY <1>2, <1>6, <1>7, <1>9, <1>10, <1>11, <1>12 DEF IInv

\* The invariant says nothing of what is yet to be done.
LEMMA StutterKeeps ==
  ASSUME IInv, UNCHANGED vars
  PROVE  IInv'
  <1>1. /\ trees' = trees /\ resident' = resident /\ file' = file
        /\ kind' = kind /\ stage' = stage /\ held' = held /\ taken' = taken
        /\ snapshot' = snapshot /\ pending' = pending /\ task' = task
        /\ restarts' = restarts /\ forked' = forked /\ raced' = raced
        /\ unlogged' = unlogged /\ dropped' = dropped
        /\ lines' = lines /\ seq' = seq /\ prev' = prev /\ made' = made
        /\ written' = written
    BY DEF vars, document, requests, history, audit
  <1>2. TypeOK' /\ LogOK'
    BY <1>1 DEF IInv, TypeOK, LogOK
  <1>3. Stages'
    BY <1>1 DEF IInv, Stages, Recorded
  <1>4. EditsAccounted'
    BY <1>1 DEF IInv, EditsAccounted, Everywhere, Known, Accounted, Recorded
  <1>5. OneTreeInUse' /\ SnapshotFollows' /\ FileFollowed'
    BY <1>1 DEF IInv, OneTreeInUse, SnapshotFollows, FileFollowed
  <1>6. DoneIsKept'
    BY <1>1 DEF IInv, DoneIsKept, Recorded, Found
  <1>7. WordsStand'
    BY <1>1 DEF IInv, WordsStand, Everywhere, SaidOnce, Saying
  <1>8. PagesInHand'
    BY <1>1 DEF IInv, PagesInHand, WaitsForPage, Crossing
  <1> QED
    BY <1>2, <1>3, <1>4, <1>5, <1>6, <1>7, <1>8 DEF IInv

\* Every step keeps the invariant.
LEMMA NextKeeps == IInv /\ [Next]_vars => IInv'
  <1> SUFFICES ASSUME IInv, [Next]_vars PROVE IInv'
    OBVIOUS
  <1>1. ASSUME NEW r \in Request, Edit(r) PROVE IInv'
    BY <1>1, OpenPageKeeps, OpenTableKeeps, AnswerKeeps, NoAnswerKeeps, RefineNodeKeeps,
       ActivateSkillKeeps, CorrectKeeps, StartTranslationKeeps, LaunchKeeps, TranslateKeeps,
       SerializeKeeps, WriteKeeps, RunEndsKeeps
       DEF Edit
  <1>2. CASE Record
    BY <1>2, RecordKeeps
  <1>3. CASE Evict
    BY <1>3, EvictKeeps
  <1>4. CASE Restart
    BY <1>4, RestartKeeps
  <1>5. CASE UNCHANGED vars
    BY <1>5, StutterKeeps
  <1> QED
    BY <1>1, <1>2, <1>3, <1>4, <1>5 DEF Next

\* The invariant holds of every behaviour.
LEMMA Invariance == Spec => []IInv
  <1>1. Init => IInv
    BY InitOK
  <1>2. IInv /\ [Next]_vars => IInv'
    BY NextKeeps
  <1> QED
    BY <1>1, <1>2, PTL DEF Spec

\* Trees, texts, requests and the history of the document stay what they are.
THEOREM TypeCorrect == Spec => []TypeOK
  <1>1. IInv => TypeOK
    BY DEF IInv
  <1> QED
    BY <1>1, Invariance, PTL

\* Whatever the disk refuses, a crash tears and the next process goes on from, the
\* audit log stays evidence (audit/logger.py): records are numbered upwards, one that
\* names another predecessor than the record before it follows a gap that shows, and
\* a record written whole is lost only in a line that can be seen to be torn, one to
\* a line.
THEOREM LogStaysEvidence == Spec => []LogIsEvidence
  <1>1. IInv => LogIsEvidence
    BY LogShows DEF IInv
  <1> QED
    BY <1>1, Invariance, PTL

\* However often a page is rebuilt (api/app.py, refine_page), every word of it stands
\* in one block of every tree and of the file, unless two answers for the page of one
\* tree have crossed.
THEOREM PagesSaidOnce == Spec => []PageSaidOnce
  <1>1. IInv => PageSaidOnce
    <2> SUFFICES ASSUME IInv,
                        NEW c \in {file} \cup {trees[t] : t \in DOMAIN trees}, NEW w \in Word
                 PROVE  /\ Saying(c, w) # {}
                        /\ Cardinality(Saying(c, w)) = 1 \/ c.crossed
      BY DEF PageSaidOnce
    <2>1. SaidOnce(c)
      BY DEF IInv, WordsStand, Everywhere
    <2>2. Saying(c, w) # {} /\ (c.crossed \/ \E b : Saying(c, w) = {b})
      BY <2>1 DEF SaidOnce
    <2>3. \A b : Cardinality({b}) = 1
      BY FS_Singleton
    <2> QED
      BY <2>2, <2>3
  <1> QED
    BY <1>1, Invariance, PTL

\* While no tree was forked off one in use and the thread overwrote no save of a
\* handler, the file has every edit whose request was answered; a correction is in the
\* tree in use or was lost with one.
THEOREM AnswersAreKept == Spec => []AnsweredEditsKept
  <1>1. IInv => AnsweredEditsKept
    BY DEF IInv, DoneIsKept, AnsweredEditsKept
  <1> QED
    BY <1>1, Invariance, PTL

\* Every edit the file has is in the audit log, or there is a reason why it is not:
\* a skill, a record the disk refused or a crash came before, a correction that raised
\* half-way, a run that has not ended; and what the log tells of was done.
THEOREM EditsHaveRecords == Spec => []EditsAreLogged
  <1>1. IInv => EditsAreLogged
    <2> SUFFICES ASSUME IInv PROVE EditsAreLogged
      OBVIOUS
    <2> DEFINE recorded ==
          {r \in Request : \E i \in DOMAIN lines : \E p \in ToSet(lines[i].parts) :
                            p # Torn /\ p.what = r}
    <2>1. \A r \in Request : r \in recorded <=> Recorded(r)
      BY DEF Recorded, TellsOf, Parts
    <2>2. file \in Everywhere /\ file \in Content
      BY EverywhereTyped DEF IInv
    <2>3. file.edits \subseteq Request
      BY <2>2, ContentTyped
    <2>4. Known(file)
      BY <2>2 DEF IInv, EditsAccounted
    <2>5. ASSUME NEW r \in file.edits
          PROVE  \/ r \in recorded \cup unlogged \cup {pending}
                 \/ kind[r] = "skill"
                 \/ kind[r] = "correction" /\ stage[r] = "over"
                 \/ kind[r] = "translation" /\ stage[r] # "done"
      BY <2>1, <2>3, <2>4 DEF Known, Accounted
    <2>6. ASSUME NEW r \in recorded
          PROVE  r \in file.edits \/ kind[r] = "correction" \/ forked \/ raced
      BY <2>1 DEF IInv, DoneIsKept
    <2> HIDE DEF recorded
    <2>7. /\ \A r \in file.edits :
               \/ r \in recorded \cup unlogged \cup {pending}
               \/ kind[r] = "skill"
               \/ kind[r] = "correction" /\ stage[r] = "over"
               \/ kind[r] = "translation" /\ stage[r] # "done"
          /\ \A r \in recorded :
               r \in file.edits \/ kind[r] = "correction" \/ forked \/ raced
      BY <2>5, <2>6
    <2> QED
      BY <2>7 DEF EditsAreLogged, recorded
  <1> QED
    BY <1>1, Invariance, PTL
=============================================================================

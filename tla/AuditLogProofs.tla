--------------------------- MODULE AuditLogProofs ---------------------------
(***************************************************************************)
(* For every number of sessions, threads and records: the types of         *)
(* AuditLog, that only torn lines break the chain, and that the records    *)
(* whose write succeeded stay in the log.                                  *)
(***************************************************************************)
EXTENDS AuditLog, FiniteSetTheorems, SequenceTheorems, TLAPS

Open1 == lines # <<>> /\ ~LastOf(lines).nl
EndOf(n) == IF n = 0 THEN 0 ELSE lines[n].end
OldBody == IF Open1 THEN LastOf(lines).body ELSE <<>>
In(r, body) == \E k \in DOMAIN body : body[k][1] = r
Unseen(r) == \A i \in DOMAIN lines : ~In(r, lines[i].body)

\* Only the last line may be unterminated, and each ends after the one before.
LinesOrdered ==
    /\ \A i \in DOMAIN lines : i < Len(lines) => lines[i].nl
    /\ \A i \in DOMAIN lines : 0 < lines[i].end
    /\ \A i, j \in DOMAIN lines : i < j => lines[i].end < lines[j].end

\* What a handle remembers was true where it stopped reading.
HandleTrue(h) ==
    \/ /\ ~h.needsNewline
       /\ h.offset = EndOf(h.seq)
       /\ h.prev = PrevHash(h.seq + 1)
       /\ h.seq > 0 => lines[h.seq].nl
    \/ /\ h.needsNewline
       /\ h.offset = Size => h.seq = Len(lines) /\ h.prev = PrevHash(Len(lines) + 1) /\ Open1

Current(h) ==
    /\ h.offset = Size
    /\ h.seq = Len(lines)
    /\ h.prev = PrevHash(Len(lines) + 1)
    /\ h.needsNewline <=> Open1

Locks ==
    /\ \A t \in Threads : pc[t] # "idle" => SessionOf[t] \in alive
    /\ \A t \in Threads : pc[t] \notin {"idle", "mutex"} => mutex[SessionOf[t]] = t
    /\ \A t \in Threads : pc[t] \in {"refresh", "write", "release"} => flock = SessionOf[t]

Entries ==
    /\ \A t \in Threads : pc[t] # "idle" => rec[t] \in given
    /\ \A t, u \in Threads : t # u /\ pc[t] # "idle" /\ pc[u] # "idle" => rec[t] # rec[u]
    /\ \A t \in Threads : pc[t] \in {"mutex", "flock", "refresh"} => stamp[rec[t]] = NoStamp
    /\ \A r \in Records \ given : stamp[r] = NoStamp

\* A record's cells are in one line of the file, and only after it got its
\* chain fields.
Placed ==
    /\ \A r \in Records : stamp[r] = NoStamp => Unseen(r)
    /\ \A r \in Records, i, j \in DOMAIN lines :
         In(r, lines[i].body) /\ In(r, lines[j].body) => i = j

Chained == \A i \in DOMAIN lines : Linked(i)

Kept == \A r \in acked : \E i \in DOMAIN lines : lines[i].body = Body(r) /\ lines[i].nl

\* How far the append of a thread has come.
Extra(h) == IF h.needsNewline THEN 1 ELSE 0
Before(h, r) ==
    /\ ~Open1
    /\ h.seq = Len(lines)
    /\ h.prev = PrevHash(Len(lines) + 1)
    /\ Unseen(r)
    /\ h.offset + Extra(h) = Size
Within(h, body, nl, written) ==
    /\ Len(lines) = h.seq + 1
    /\ LastOf(lines).body = body
    /\ LastOf(lines).nl = nl
    /\ h.prev = PrevHash(Len(lines))
    /\ h.offset + Extra(h) + written = Size

Progress(h, r, left) ==
    /\ stamp[r] = [seq |-> h.seq, prev |-> h.prev]
    /\ \/ left = << Newline, <<r, 1>>, <<r, 2>>, Newline >> /\ Current(h) /\ Open1 /\ Unseen(r)
       \/ left = << <<r, 1>>, <<r, 2>>, Newline >> /\ Before(h, r)
       \/ left = << <<r, 2>>, Newline >> /\ Within(h, << <<r, 1>> >>, FALSE, 1)
       \/ left = << Newline >> /\ Within(h, Body(r), FALSE, 2)
       \/ left = << >> /\ Within(h, Body(r), TRUE, 3)

Writing == \A t \in Threads : pc[t] = "write" => Progress(handle[SessionOf[t]], rec[t], pending[t])

IInv ==
    /\ LinesOrdered
    /\ \A s \in Sessions : HandleTrue(handle[s])
    /\ Locks
    /\ Entries
    /\ Placed
    /\ Chained
    /\ Kept
    /\ Writing

J == TypeOK /\ IInv

Line == [body : Seq(Cells), nl : BOOLEAN, end : Nat]

----------------------------------------------------------------------------
\* Short sequences, element by element.

LEMMA AppendShort ==
  ASSUME NEW a, NEW b
  PROVE  Append(<<>>, a) = <<a>> /\ Append(<<a>>, b) = <<a, b>>
<1> DEFINE S == {a, b}
<1>1. <<>> \in Seq(S) /\ <<a>> \in Seq(S) /\ <<a, b>> \in Seq(S) /\ a \in S /\ b \in S
  OBVIOUS
<1> HIDE DEF S
<1>2. Append(<<>>, a) = <<a>>
  BY <1>1, AppendProperties, SeqEqual
<1>3. Append(<<a>>, b) = <<a, b>>
  <2> DEFINE x == Append(<<a>>, b)
  <2>1. x \in Seq(S) /\ Len(x) = 2 /\ x[2] = b /\ x[1] = <<a>>[1]
    BY <1>1, AppendProperties
  <2> HIDE DEF x
  <2>2. ASSUME NEW i \in 1..Len(x) PROVE x[i] = <<a, b>>[i]
    <3>1. i = 1 \/ i = 2
      BY <2>1
    <3> QED
      BY <2>1, <3>1
  <2>3. Len(<<a, b>>) = 2
    OBVIOUS
  <2>4. x = <<a, b>>
    BY <1>1, <2>1, <2>2, <2>3, SeqEqual
  <2> QED
    BY <2>4 DEF x
<1> QED
  BY <1>2, <1>3

LEMMA Prefixed ==
  ASSUME NEW a, NEW b, NEW c, NEW d
  PROVE  <<a>> \o <<b, c, d>> = <<a, b, c, d>>
<1> DEFINE S == {a, b, c, d}
           x == <<a>> \o <<b, c, d>>
<1>1. <<a>> \in Seq(S) /\ <<b, c, d>> \in Seq(S) /\ <<a, b, c, d>> \in Seq(S)
  OBVIOUS
<1>2. Len(<<a>>) = 1 /\ Len(<<b, c, d>>) = 3 /\ Len(<<a, b, c, d>>) = 4
  OBVIOUS
<1> HIDE DEF S
<1>3. x \in Seq(S) /\ Len(x) = 4
  BY <1>1, <1>2, ConcatProperties
<1>4. \A i \in 1..4 : x[i] = IF i <= 1 THEN <<a>>[i] ELSE <<b, c, d>>[i - 1]
  BY <1>1, <1>2, ConcatProperties
<1>5. x[1] = a /\ x[2] = b /\ x[3] = c /\ x[4] = d
  BY <1>4
<1> HIDE DEF x
<1>6. ASSUME NEW i \in 1..Len(x) PROVE x[i] = <<a, b, c, d>>[i]
  <2>1. i = 1 \/ i = 2 \/ i = 3 \/ i = 4
    BY <1>3
  <2> QED
    BY <1>5, <2>1
<1>7. x = <<a, b, c, d>>
  BY <1>1, <1>2, <1>3, <1>6, SeqEqual
<1> QED
  BY <1>7 DEF x

\* The bytes of an append, and how many they are.
LEMMA EntryShape ==
  ASSUME NEW h, NEW r
  PROVE  /\ h.needsNewline => /\ Entry(h, r) = << Newline, <<r, 1>>, <<r, 2>>, Newline >>
                              /\ Len(Entry(h, r)) = 4
         /\ ~h.needsNewline => /\ Entry(h, r) = << <<r, 1>>, <<r, 2>>, Newline >>
                               /\ Len(Entry(h, r)) = 3
BY Prefixed DEF Entry

LEMMA CellFacts ==
  ASSUME NEW r \in Records
  PROVE  /\ <<r, 1>> \in Cells /\ <<r, 2>> \in Cells
         /\ <<r, 1>> # Newline /\ <<r, 2>> # Newline
         /\ Body(r) \in Seq(Cells)
BY DEF Cells, Newline, Body

LEMMA BodyCells ==
  ASSUME NEW r, NEW q
  PROVE  /\ In(r, Body(q)) <=> r = q
         /\ In(r, << <<q, 1>> >>) <=> r = q
         /\ Body(r) = Body(q) => r = q
         /\ Body(r) # << <<q, 1>> >>
<1>1. /\ DOMAIN Body(q) = {1, 2} /\ Body(q)[1] = <<q, 1>> /\ Body(q)[2] = <<q, 2>>
      /\ DOMAIN << <<q, 1>> >> = {1} /\ Body(r)[1] = <<r, 1>> /\ DOMAIN Body(r) = {1, 2}
  BY DEF Body
<1>2. <<q, 1>>[1] = q /\ <<q, 2>>[1] = q /\ <<r, 1>>[1] = r
  OBVIOUS
<1>3. In(r, Body(q)) <=> r = q
  BY <1>1, <1>2 DEF In
<1>4. In(r, << <<q, 1>> >>) <=> r = q
  BY <1>1, <1>2 DEF In
<1>5. Body(r) = Body(q) => r = q
  BY <1>1, <1>2
<1>6. Body(r) # << <<q, 1>> >>
  BY <1>1
<1> QED
  BY <1>3, <1>4, <1>5, <1>6

----------------------------------------------------------------------------
\* Facts about the file.

LEMMA LastLine ==
  ASSUME TypeOK, lines # <<>>
  PROVE  /\ Len(lines) \in DOMAIN lines /\ Len(lines) \in Nat /\ Len(lines) > 0
         /\ LastOf(lines) = lines[Len(lines)] /\ LastOf(lines) \in Line
         /\ Size = lines[Len(lines)].end
<1>1. lines \in Seq(Line)
  BY DEF TypeOK, Line
<1>2. Len(lines) \in Nat /\ Len(lines) > 0 /\ DOMAIN lines = 1..Len(lines)
  BY <1>1, EmptySeq, LenProperties
<1> QED
  BY <1>1, <1>2, ElementOfSeq DEF LastOf, Size

LEMMA SizeNat == TypeOK => Size \in Nat
<1> SUFFICES ASSUME TypeOK PROVE Size \in Nat
  OBVIOUS
<1>1. CASE lines = <<>>
  BY <1>1 DEF Size
<1>2. CASE lines # <<>>
  BY <1>2, LastLine DEF Line
<1> QED
  BY <1>1, <1>2

LEMMA EmptyLines == lines = <<>> => Len(lines) = 0 /\ Size = 0 /\ DOMAIN lines = {} /\ ~Open1
  BY DEF Size, Open1

\* A cell lands in the unterminated last line or opens a new one; the lines
\* before it do not change.
LEMMA Growth ==
  ASSUME TypeOK, NEW cell \in Cells \cup {Newline}, lines' = Appended(cell)
  PROVE  /\ lines' \in Seq(Line)
         /\ Open1 => Len(lines') = Len(lines)
         /\ ~Open1 => Len(lines') = Len(lines) + 1
         /\ Len(lines') \in Nat /\ Len(lines') > 0
         /\ \A i \in 1..(Len(lines') - 1) : i \in DOMAIN lines /\ lines'[i] = lines[i]
         /\ lines'[Len(lines')].end = Size + 1
         /\ lines'[Len(lines')].nl <=> cell = Newline
         /\ cell = Newline => lines'[Len(lines')].body = OldBody
         /\ cell # Newline => lines'[Len(lines')].body = Append(OldBody, cell)
<1>1. lines \in Seq(Line) /\ Len(lines) \in Nat /\ DOMAIN lines = 1..Len(lines)
  BY LenProperties DEF TypeOK, Line
<1> DEFINE new == [body |-> IF cell = Newline THEN OldBody ELSE Append(OldBody, cell),
                   nl |-> cell = Newline, end |-> Size + 1]
           kept == IF Open1 THEN SubSeq(lines, 1, Len(lines) - 1) ELSE lines
<1>2. OldBody \in Seq(Cells)
  <2>1. CASE Open1
    BY <2>1, LastLine DEF Open1, Line, OldBody
  <2>2. CASE ~Open1
    BY <2>2, EmptySeq DEF OldBody
  <2> QED
    BY <2>1, <2>2
<1>3. new \in Line
  <2>1. (IF cell = Newline THEN OldBody ELSE Append(OldBody, cell)) \in Seq(Cells)
    BY <1>2, AppendProperties
  <2> QED
    BY <2>1, SizeNat DEF Line
<1> HIDE DEF kept, new
<1>4. kept \in Seq(Line) /\ \A i \in 1..Len(kept) : kept[i] = lines[i]
  <2>1. CASE Open1
    <3>1. Len(lines) > 0
      BY <2>1, LastLine DEF Open1
    <3>2. \A i \in 1..(Len(lines) - 1) : lines[i] \in Line
      BY <1>1, ElementOfSeq
    <3> QED
      BY <1>1, <2>1, <3>1, <3>2, SubSeqProperties DEF kept
  <2>2. CASE ~Open1
    BY <1>1, <2>2 DEF kept
  <2> QED
    BY <2>1, <2>2
<1>5. /\ Len(kept) = IF Open1 THEN Len(lines) - 1 ELSE Len(lines)
      /\ Len(kept) \in Nat /\ Len(kept) <= Len(lines)
  <2>1. CASE Open1
    <3>1. Len(lines) > 0
      BY <2>1, LastLine DEF Open1
    <3>2. \A i \in 1..(Len(lines) - 1) : lines[i] \in Line
      BY <1>1, ElementOfSeq
    <3> QED
      BY <1>1, <2>1, <3>1, <3>2, SubSeqProperties DEF kept
  <2>2. CASE ~Open1
    BY <1>1, <2>2 DEF kept
  <2> QED
    BY <2>1, <2>2
<1>6. lines' = Append(kept, new)
  <2>1. CASE Open1
    BY <2>1, LastLine DEF Appended, Open1, kept, new, OldBody
  <2>2. CASE ~Open1
    BY <2>2 DEF Appended, Open1, kept, new, OldBody
  <2> QED
    BY <2>1, <2>2
<1>7. /\ lines' \in Seq(Line) /\ Len(lines') = Len(kept) + 1
      /\ \A i \in 1..Len(kept) : lines'[i] = kept[i]
      /\ lines'[Len(kept) + 1] = new
  BY <1>3, <1>4, <1>5, <1>6, AppendProperties
<1>8. ASSUME NEW i \in 1..Len(kept) PROVE lines'[i] = lines[i] /\ i \in DOMAIN lines
  <2>1. i \in 1..Len(lines)
    <3>1. Len(kept) \in Nat /\ Len(kept) <= Len(lines) /\ Len(lines) \in Nat
      BY <1>1, <1>5
    <3> QED
      BY <3>1
  <2>2. lines'[i] = kept[i] /\ kept[i] = lines[i]
    BY <1>4, <1>7
  <2> QED
    BY <1>1, <2>1, <2>2
<1>9. /\ new.end = Size + 1 /\ (new.nl <=> cell = Newline)
      /\ cell = Newline => new.body = OldBody
      /\ cell # Newline => new.body = Append(OldBody, cell)
  BY DEF new
<1>10. Len(lines') - 1 = Len(kept) /\ Len(lines') \in Nat /\ Len(lines') > 0
  BY <1>5, <1>7
<1>11. /\ Open1 => Len(lines') = Len(lines)
       /\ ~Open1 => Len(lines') = Len(lines) + 1
  <2>1. CASE Open1
    BY <1>1, <1>5, <1>7, <2>1
  <2>2. CASE ~Open1
    BY <1>1, <1>5, <1>7, <2>2
  <2> QED
    BY <2>1, <2>2
<1> QED
  BY <1>7, <1>8, <1>9, <1>10, <1>11

\* Every line ends within the file, and only the last one at its end.
LEMMA EndsInFile ==
  ASSUME TypeOK, LinesOrdered, NEW i \in DOMAIN lines
  PROVE  /\ lines[i] \in Line /\ lines[i].end \in Nat /\ i \in 1..Len(lines)
         /\ 0 < lines[i].end /\ lines[i].end <= Size
         /\ i < Len(lines) => lines[i].end < Size
<1>1. lines \in Seq(Line) /\ Len(lines) \in Nat /\ DOMAIN lines = 1..Len(lines)
  BY LenProperties DEF TypeOK, Line
<1>2. lines[i] \in Line /\ lines # <<>>
  BY <1>1, ElementOfSeq
<1>3. Size = lines[Len(lines)].end /\ Len(lines) \in DOMAIN lines
  BY <1>2, LastLine
<1>4. lines[i].end \in Nat /\ Size \in Nat
  BY <1>2, SizeNat DEF Line
<1> QED
  BY <1>1, <1>2, <1>3, <1>4 DEF LinesOrdered

LEMMA OrderedStep ==
  ASSUME TypeOK, LinesOrdered, NEW cell \in Cells \cup {Newline}, lines' = Appended(cell)
  PROVE  LinesOrdered' /\ Size' = Size + 1
<1>1. /\ lines' \in Seq(Line) /\ Len(lines') \in Nat /\ Len(lines') > 0
      /\ DOMAIN lines' = 1..Len(lines')
      /\ \A i \in 1..(Len(lines') - 1) : i \in DOMAIN lines /\ lines'[i] = lines[i]
      /\ lines'[Len(lines')].end = Size + 1
  <2>1. /\ lines' \in Seq(Line) /\ Len(lines') \in Nat /\ Len(lines') > 0
        /\ \A i \in 1..(Len(lines') - 1) : i \in DOMAIN lines /\ lines'[i] = lines[i]
        /\ lines'[Len(lines')].end = Size + 1
    BY Growth, Zenon
  <2>2. DOMAIN lines' = 1..Len(lines')
    BY <2>1, LenProperties
  <2> QED
    BY <2>1, <2>2
<1>2. Size' = Size + 1
  <2>1. lines' # <<>>
    BY <1>1
  <2> QED
    BY <1>1, <2>1 DEF Size, LastOf
<1>3. Size \in Nat
  BY SizeNat
<1>4. ASSUME NEW i \in 1..(Len(lines') - 1) PROVE lines'[i].nl
  <2>1. i \in DOMAIN lines /\ lines'[i] = lines[i]
    BY <1>1
  <2>2. CASE Open1
    <3>1. Len(lines') = Len(lines)
      BY <2>2, Growth
    <3> QED
      BY <1>1, <2>1, <3>1 DEF LinesOrdered
  <2>3. CASE ~Open1
    <3>1. Len(lines) \in Nat /\ lines # <<>> /\ i \in 1..Len(lines)
      BY <2>1, EndsInFile
    <3>2. lines[Len(lines)].nl
      BY <2>3, <3>1 DEF Open1, LastOf
    <3> QED
      BY <2>1, <3>1, <3>2 DEF LinesOrdered
  <2> QED
    BY <2>2, <2>3
<1>5. ASSUME NEW i \in 1..(Len(lines') - 1)
      PROVE  lines'[i].end \in Nat /\ 0 < lines'[i].end /\ lines'[i].end <= Size
  BY <1>1, EndsInFile
<1>6. \A i, j \in DOMAIN lines' : i < j => lines'[i].end < lines'[j].end
  <2> SUFFICES ASSUME NEW i \in DOMAIN lines', NEW j \in DOMAIN lines', i < j
               PROVE  lines'[i].end < lines'[j].end
    OBVIOUS
  <2>1. i \in 1..(Len(lines') - 1)
    BY <1>1
  <2>2. CASE j = Len(lines')
    BY <1>1, <1>3, <1>5, <2>1, <2>2
  <2>3. CASE j # Len(lines')
    <3>1. j \in 1..(Len(lines') - 1)
      BY <1>1, <2>3
    <3> QED
      BY <1>1, <2>1, <3>1 DEF LinesOrdered
  <2> QED
    BY <2>2, <2>3
<1>7. \A i \in DOMAIN lines' : 0 < lines'[i].end /\ (i < Len(lines') => lines'[i].nl)
  <2> SUFFICES ASSUME NEW i \in DOMAIN lines'
               PROVE  0 < lines'[i].end /\ (i < Len(lines') => lines'[i].nl)
    OBVIOUS
  <2>1. CASE i = Len(lines')
    BY <1>1, <1>3, <2>1
  <2>2. CASE i # Len(lines')
    <3>1. i \in 1..(Len(lines') - 1)
      BY <1>1, <2>2
    <3> QED
      BY <1>4, <1>5, <3>1
  <2> QED
    BY <2>1, <2>2
<1> QED
  BY <1>2, <1>6, <1>7 DEF LinesOrdered

----------------------------------------------------------------------------
\* ChainState::refresh leaves the handle at the end of the file.

Handles == [offset : 0..Size, prev : SUBSET Seq(Cells), seq : 0..Len(lines),
            needsNewline : BOOLEAN]

LEMMA PrevIsHash == TypeOK => PrevHash(Len(lines) + 1) \in SUBSET Seq(Cells)
<1> SUFFICES ASSUME TypeOK PROVE PrevHash(Len(lines) + 1) \in SUBSET Seq(Cells)
  OBVIOUS
<1>1. CASE lines = <<>>
  BY <1>1, EmptyLines DEF PrevHash
<1>2. CASE lines # <<>>
  <2>1. lines[Len(lines)].body \in Seq(Cells) /\ Len(lines) \in Nat /\ Len(lines) > 0
    BY <1>2, LastLine DEF Line
  <2> QED
    BY <2>1 DEF PrevHash
<1> QED
  BY <1>1, <1>2

\* Read from the end of one of its lines, the file yields the lines after it.
LEMMA ReadOn ==
  ASSUME TypeOK, LinesOrdered, NEW n \in 0..(Len(lines) - 1), lines # <<>>
  PROVE  /\ Unread(EndOf(n)) = (n + 1)..Len(lines)
         /\ Cardinality(Unread(EndOf(n))) = Len(lines) - n
         /\ Unread(EndOf(n)) # {}
         /\ ReadBody(Len(lines), EndOf(n)) = lines[Len(lines)].body
<1>1. /\ lines \in Seq(Line) /\ Len(lines) \in Nat /\ Len(lines) > 0
      /\ DOMAIN lines = 1..Len(lines)
  BY LastLine, LenProperties DEF TypeOK, Line
<1>2. \A i \in DOMAIN lines : lines[i] \in Line /\ lines[i].end \in Nat /\ 0 < lines[i].end
  BY EndsInFile
<1>3. n \in Nat /\ (n > 0 => n \in DOMAIN lines)
  BY <1>1
<1>4. EndOf(n) \in Nat
  BY <1>2, <1>3 DEF EndOf
<1>5. ASSUME NEW i \in DOMAIN lines PROVE lines[i].end > EndOf(n) <=> i > n
  <2>1. CASE n = 0
    BY <1>1, <1>2, <2>1 DEF EndOf
  <2>2. CASE n > 0
    <3>1. n \in DOMAIN lines /\ EndOf(n) = lines[n].end
      BY <1>3, <2>2 DEF EndOf
    <3>2. CASE i > n
      BY <1>1, <1>2, <3>1, <3>2 DEF LinesOrdered
    <3>3. CASE i = n
      BY <1>1, <1>2, <3>1, <3>3
    <3>4. CASE i < n
      BY <1>1, <1>2, <3>1, <3>4 DEF LinesOrdered
    <3> QED
      BY <1>1, <1>3, <3>2, <3>3, <3>4
  <2> QED
    BY <1>3, <2>1, <2>2
<1>6. Unread(EndOf(n)) = (n + 1)..Len(lines)
  BY <1>1, <1>3, <1>5 DEF Unread
<1>7. Cardinality((n + 1)..Len(lines)) = Len(lines) - n
  BY <1>1, <1>3, FS_Interval
<1>8. ~(EndOf(n) > Start(Len(lines))) /\ Start(Len(lines)) \in Nat
  <2>1. CASE Len(lines) = 1
    BY <1>1, <1>3, <2>1 DEF EndOf, Start
  <2>2. CASE Len(lines) # 1
    <3>1. Len(lines) - 1 \in DOMAIN lines /\ Start(Len(lines)) = lines[Len(lines) - 1].end
      BY <1>1, <2>2 DEF Start
    <3>2. lines[Len(lines) - 1].end > EndOf(n) \/ Len(lines) - 1 = n
      <4>1. n <= Len(lines) - 1
        BY <1>1, <1>3
      <4>2. CASE n < Len(lines) - 1
        <5>1. PICK m \in DOMAIN lines : m = Len(lines) - 1
          BY <3>1
        <5>2. lines[m].end > EndOf(n)
          BY <1>5, <4>2, <5>1
        <5> QED
          BY <5>1, <5>2
      <4>3. CASE ~(n < Len(lines) - 1)
        <5>1. n \in Nat /\ Len(lines) \in Nat
          BY <1>1, <1>3
        <5>2. Len(lines) - 1 = n
          BY <4>1, <4>3, <5>1
        <5> QED
          BY <5>2
      <4> QED
        BY <4>2, <4>3
    <3>3. CASE Len(lines) - 1 = n
      BY <1>1, <1>2, <1>3, <2>2, <3>1, <3>3 DEF EndOf
    <3>4. CASE lines[Len(lines) - 1].end > EndOf(n)
      BY <1>2, <1>4, <3>1, <3>4
    <3> QED
      BY <3>2, <3>3, <3>4
  <2> QED
    BY <2>1, <2>2
<1>9. lines[Len(lines)].body \in Seq(Cells) /\ Len(lines) \in DOMAIN lines
  BY LastLine DEF Line
<1>10. ReadBody(Len(lines), EndOf(n)) = lines[Len(lines)].body
  BY <1>8, <1>9, SubSeqFull DEF ReadBody
<1> QED
  BY <1>1, <1>3, <1>6, <1>7, <1>10

LEMMA RefreshCurrent ==
  ASSUME TypeOK, LinesOrdered, NEW h \in Handles, HandleTrue(h)
  PROVE  Refreshed(h) \in Handles /\ Current(Refreshed(h))
<1>1. Size \in Nat /\ h.offset \in 0..Size /\ h.seq \in 0..Len(lines) /\ h.needsNewline \in BOOLEAN
  BY SizeNat DEF Handles
<1>2. Len(lines) \in Nat /\ DOMAIN lines = 1..Len(lines)
  BY LenProperties DEF TypeOK
<1>3. CASE Size = h.offset
  <2>1. Refreshed(h) = h
    BY <1>3 DEF Refreshed
  <2>2. CASE h.needsNewline
    BY <1>3, <2>1, <2>2 DEF HandleTrue, Current
  <2>3. CASE ~h.needsNewline
    <3>1. /\ h.offset = EndOf(h.seq) /\ h.prev = PrevHash(h.seq + 1)
          /\ h.seq > 0 => lines[h.seq].nl
      BY <2>3 DEF HandleTrue
    <3>2. h.seq = Len(lines)
      <4> SUFFICES ASSUME h.seq # Len(lines) PROVE FALSE
        OBVIOUS
      <4>1. h.seq < Len(lines)
        BY <1>1, <1>2
      <4>2. CASE h.seq = 0
        <5>1. Len(lines) \in DOMAIN lines
          BY <1>2, <4>1, <4>2
        <5>2. Size = 0
          BY <1>3, <3>1, <4>2 DEF EndOf
        <5> QED
          BY <1>1, <5>1, <5>2, EndsInFile
      <4>3. CASE h.seq > 0
        <5>1. h.seq \in DOMAIN lines /\ EndOf(h.seq) = lines[h.seq].end
          BY <1>1, <1>2, <4>1, <4>3 DEF EndOf
        <5>2. lines[h.seq].end < Size
          BY <4>1, <5>1, EndsInFile
        <5> QED
          BY <1>1, <1>3, <3>1, <5>1, <5>2
      <4> QED
        BY <1>1, <4>2, <4>3
    <3>3. ~Open1
      <4>1. CASE lines = <<>>
        BY <4>1 DEF Open1
      <4>2. CASE lines # <<>>
        BY <3>1, <3>2, <4>2, LastLine DEF Open1
      <4> QED
        BY <4>1, <4>2
    <3> QED
      BY <1>3, <2>1, <2>3, <3>1, <3>2, <3>3 DEF Current
  <2> QED
    BY <1>1, <2>1, <2>2, <2>3
<1>4. CASE Size # h.offset
  <2>1. lines # <<>> /\ ~(Size < h.offset)
    <3>1. Size > 0 /\ ~(Size < h.offset)
      BY <1>1, <1>4
    <3> QED
      BY <3>1 DEF Size
  <2> DEFINE n == IF h.needsNewline THEN 0 ELSE h.seq
  <2>2. n \in 0..(Len(lines) - 1) /\ (h.needsNewline => n = 0) /\ (~h.needsNewline => n = h.seq)
    <3>1. CASE h.needsNewline
      BY <2>1, <3>1, LastLine
    <3>2. CASE ~h.needsNewline
      <4>1. h.offset = EndOf(h.seq)
        BY <3>2 DEF HandleTrue
      <4>2. h.seq # Len(lines)
        BY <1>4, <2>1, <4>1, LastLine DEF EndOf
      <4> QED
        BY <1>1, <1>2, <3>2, <4>2
    <3> QED
      BY <1>1, <3>1, <3>2
  <2> HIDE DEF n
  <2>3. (IF h.needsNewline THEN 0 ELSE h.offset) = EndOf(n)
    <3>1. CASE h.needsNewline
      BY <2>2, <3>1 DEF EndOf
    <3>2. CASE ~h.needsNewline
      BY <2>2, <3>2 DEF HandleTrue
    <3> QED
      BY <1>1, <3>1, <3>2
  <2>4. /\ Unread(EndOf(n)) # {} /\ Cardinality(Unread(EndOf(n))) = Len(lines) - n
        /\ ReadBody(Len(lines), EndOf(n)) = lines[Len(lines)].body
    BY <2>1, <2>2, ReadOn
  <2>5. n + (Len(lines) - n) = Len(lines)
    BY <1>2, <2>2
  <2>6. (IF h.needsNewline THEN 0 ELSE h.seq) = n
    BY <1>1, <2>2
  <2>7. Refreshed(h) = [offset |-> Size, prev |-> {lines[Len(lines)].body}, seq |-> Len(lines),
                        needsNewline |-> ~LastOf(lines).nl]
    <3>1. CASE h.needsNewline
      BY <1>4, <2>1, <2>3, <2>4, <2>5, <2>6, <3>1 DEF Refreshed
    <3>2. CASE ~h.needsNewline
      BY <1>4, <2>1, <2>3, <2>4, <2>5, <2>6, <3>2 DEF Refreshed
    <3> QED
      BY <1>1, <3>1, <3>2
  <2>8. PrevHash(Len(lines) + 1) = {lines[Len(lines)].body} /\ LastOf(lines).nl \in BOOLEAN
    <3>1. Len(lines) > 0 /\ LastOf(lines).nl \in BOOLEAN
      BY <2>1, LastLine DEF Line
    <3> QED
      BY <1>2, <3>1 DEF PrevHash
  <2>9. Open1 <=> ~LastOf(lines).nl
    BY <2>1 DEF Open1
  <2>10. Refreshed(h) \in Handles
    <3>1. {lines[Len(lines)].body} \in SUBSET Seq(Cells)
      BY <2>8, PrevIsHash
    <3>2. Size \in 0..Size /\ Len(lines) \in 0..Len(lines)
      BY <1>1, <1>2
    <3> QED
      BY <2>7, <2>8, <3>1, <3>2 DEF Handles
  <2>11. Current(Refreshed(h))
    <3> DEFINE g == Refreshed(h)
    <3> HIDE DEF g
    <3>1. /\ g.offset = Size /\ g.seq = Len(lines) /\ g.prev = {lines[Len(lines)].body}
          /\ g.needsNewline = ~LastOf(lines).nl
      BY <2>7 DEF g
    <3>2. g.needsNewline <=> Open1
      BY <2>9, <3>1
    <3>3. Current(g)
      BY <2>8, <3>1, <3>2 DEF Current
    <3> QED
      BY <3>3 DEF g
  <2> QED
    BY <2>10, <2>11
<1> QED
  BY <1>3, <1>4

----------------------------------------------------------------------------
\* Steps that leave the file, the handles and the chain fields alone.

FileInv == LinesOrdered /\ (\A s \in Sessions : HandleTrue(handle[s])) /\ Placed /\ Chained /\ Kept

LEMMA FileKept ==
  ASSUME FileInv, UNCHANGED <<lines, handle, stamp, acked>>
  PROVE  FileInv'
<1> USE DEF FileInv
<1>1. LinesOrdered'
  BY DEF LinesOrdered
<1>2. \A s \in Sessions : HandleTrue(handle[s])'
  BY DEF HandleTrue, EndOf, PrevHash, Size, LastOf, Open1
<1>3. Placed'
  BY DEF Placed, Unseen
<1>4. Chained' /\ Kept'
  BY DEF Chained, Linked, PrevHash, Kept
<1> QED
  BY <1>1, <1>2, <1>3, <1>4

QuietStep(t) ==
    \/ Call(t) \/ TakeMutex(t) \/ TakeFlock(t) \/ FlockFails(t) \/ RefreshFails(t)
    \/ WriteFails(t) \/ ReleaseFlock(t) \/ Return(t)

LEMMA QuietSteps ==
  ASSUME TypeOK, IInv, NEW t \in Threads, QuietStep(t)
  PROVE  TypeOK' /\ IInv'
<1> USE SessionAssumption
<1>0. UNCHANGED <<lines, handle, stamp, alive, acked>>
  BY DEF QuietStep, Call, TakeMutex, TakeFlock, FlockFails, RefreshFails, WriteFails, ReleaseFlock,
     Return
<1>1. given \subseteq given' /\ given' \subseteq Records
  BY DEF QuietStep, Call, TakeMutex, TakeFlock, FlockFails, RefreshFails, WriteFails, ReleaseFlock,
     Return, TypeOK
<1>2. FileInv'
  BY <1>0, FileKept DEF IInv, FileInv
<1>3. /\ pc \in [Threads -> Points] /\ rec \in [Threads -> Records \cup {NoRecord}]
      /\ pending \in [Threads -> Seq(Cells \cup {Newline})]
      /\ mutex \in [Sessions -> Threads \cup {NoThread}]
      /\ flock \in Sessions \cup {NoSession} /\ SessionOf[t] \in Sessions
  BY DEF TypeOK
<1>4. Locks
  BY DEF IInv
<1>5. mutex' \in [Sessions -> Threads \cup {NoThread}] /\ flock' \in Sessions \cup {NoSession}
  BY <1>3 DEF QuietStep, Call, TakeMutex, TakeFlock, FlockFails, RefreshFails, WriteFails,
     ReleaseFlock, Return
<1>6. pc' \in [Threads -> Points] /\ rec' \in [Threads -> Records \cup {NoRecord}]
  BY <1>3 DEF QuietStep, Call, TakeMutex, TakeFlock, FlockFails, RefreshFails, WriteFails,
     ReleaseFlock, Return, Goto, Points
<1>7. pending' \in [Threads -> Seq(Cells \cup {Newline})]
  <2>1. <<>> \in Seq(Cells \cup {Newline})
    BY EmptySeq
  <2> QED
    BY <1>3, <2>1 DEF QuietStep, Call, TakeMutex, TakeFlock, FlockFails, RefreshFails, WriteFails,
       ReleaseFlock, Return
<1>8. TypeOK'
  <2>1. Size' = Size
    BY <1>0 DEF Size, LastOf
  <2> QED
    BY <1>0, <1>1, <1>5, <1>6, <1>7, <2>1 DEF TypeOK
<1>9. Locks'
  <2>1. CASE Call(t)
    BY <1>0, <1>3, <1>4, <2>1 DEF Call, Goto, Locks
  <2>2. CASE TakeMutex(t)
    BY <1>0, <1>3, <1>4, <2>2, NamesAssumption DEF TakeMutex, Goto, Locks
  <2>3. CASE TakeFlock(t)
    BY <1>0, <1>3, <1>4, <2>3, NamesAssumption DEF TakeFlock, Goto, Locks
  <2>4. CASE FlockFails(t) \/ RefreshFails(t) \/ WriteFails(t)
    BY <1>0, <1>3, <1>4, <2>4 DEF FlockFails, RefreshFails, WriteFails, Goto, Locks
  <2>5. CASE ReleaseFlock(t)
    <3>1. ASSUME NEW u \in Threads, u # t, pc[u] \in {"refresh", "write", "release"} PROVE FALSE
      BY <1>4, <2>5, <3>1 DEF ReleaseFlock, Locks
    <3> QED
      BY <1>0, <1>3, <1>4, <2>5, <3>1 DEF ReleaseFlock, Goto, Locks
  <2>6. CASE Return(t)
    BY <1>0, <1>3, <1>4, <2>6 DEF Return, Goto, Locks
  <2> QED
    BY <2>1, <2>2, <2>3, <2>4, <2>5, <2>6 DEF QuietStep
<1>10. Entries'
  <2>1. CASE Call(t)
    BY <1>0, <1>3, <2>1 DEF Call, Goto, IInv, Entries
  <2>2. CASE Return(t)
    BY <1>0, <1>3, <2>2 DEF Return, Goto, IInv, Entries
  <2>3. CASE ~Call(t) /\ ~Return(t)
    BY <1>0, <1>3, <2>3 DEF QuietStep, TakeMutex, TakeFlock, FlockFails, RefreshFails, WriteFails,
       ReleaseFlock, Goto, IInv, Entries
  <2> QED
    BY <2>1, <2>2, <2>3
<1>11. Writing'
  <2> SUFFICES ASSUME NEW u \in Threads, pc'[u] = "write"
               PROVE  Progress(handle[SessionOf[u]], rec[u], pending[u])'
    BY DEF Writing
  <2>1. pc[u] = "write" /\ rec'[u] = rec[u] /\ pending'[u] = pending[u]
    BY <1>3 DEF QuietStep, Call, TakeMutex, TakeFlock, FlockFails, RefreshFails, WriteFails,
       ReleaseFlock, Return, Goto
  <2>2. Progress(handle[SessionOf[u]], rec[u], pending[u])
    BY <2>1 DEF IInv, Writing
  <2> QED
    BY <1>0, <2>1, <2>2 DEF Progress, Current, Before, Within, Unseen, Open1, PrevHash, Size, LastOf
<1> QED
  BY <1>2, <1>8, <1>9, <1>10, <1>11 DEF IInv, FileInv

----------------------------------------------------------------------------
\* A session opens the log or ends.
LEMMA SessionSteps ==
  ASSUME TypeOK, IInv, NEW s \in Sessions, Open(s) \/ Die(s)
  PROVE  TypeOK' /\ IInv'
<1> USE SessionAssumption
<1>0. UNCHANGED <<lines, stamp, given, acked>>
  BY DEF Open, Die
<1>1. /\ pc \in [Threads -> Points] /\ rec \in [Threads -> Records \cup {NoRecord}]
      /\ pending \in [Threads -> Seq(Cells \cup {Newline})]
      /\ mutex \in [Sessions -> Threads \cup {NoThread}]
      /\ flock \in Sessions \cup {NoSession} /\ alive \subseteq Sessions
      /\ handle \in [Sessions -> Handles]
      /\ Size' = Size /\ Handles' = Handles
  BY <1>0 DEF TypeOK, Handles, Size, LastOf
<1>2. Fresh \in Handles /\ HandleTrue(Fresh)
  <2>1. Size \in Nat /\ Len(lines) \in Nat
    BY SizeNat, LenProperties DEF TypeOK
  <2>2. Fresh \in Handles
    BY <2>1 DEF Fresh, Handles
  <2>3. HandleTrue(Fresh)
    BY DEF Fresh, HandleTrue, EndOf, PrevHash
  <2> QED
    BY <2>2, <2>3
<1>3. handle' \in [Sessions -> Handles]
  BY <1>1, <1>2 DEF Open, Die
<1>4. TypeOK'
  <2>1. alive' \subseteq Sessions /\ mutex' \in [Sessions -> Threads \cup {NoThread}]
        /\ flock' \in Sessions \cup {NoSession}
    BY <1>1 DEF Open, Die
  <2>2. pc' \in [Threads -> Points] /\ rec' \in [Threads -> Records \cup {NoRecord}]
    BY <1>1 DEF Open, Die, Points
  <2>3. pending' \in [Threads -> Seq(Cells \cup {Newline})]
    <3>1. <<>> \in Seq(Cells \cup {Newline})
      BY EmptySeq
    <3> QED
      BY <1>1, <3>1 DEF Open, Die
  <2> QED
    BY <1>0, <1>1, <1>3, <2>1, <2>2, <2>3 DEF TypeOK, Handles
<1>5. ASSUME NEW u \in Threads, pc'[u] # "idle"
      PROVE  /\ SessionOf[u] # s /\ pc'[u] = pc[u] /\ rec'[u] = rec[u] /\ pending'[u] = pending[u]
             /\ SessionOf[u] \in alive' /\ handle'[SessionOf[u]] = handle[SessionOf[u]]
             /\ mutex'[SessionOf[u]] = mutex[SessionOf[u]]
             /\ flock = SessionOf[u] => flock' = SessionOf[u]
  <2>1. CASE Open(s)
    BY <1>1, <1>5, <2>1 DEF Open, IInv, Locks
  <2>2. CASE Die(s)
    BY <1>1, <1>5, <2>2 DEF Die, IInv, Locks
  <2> QED
    BY <2>1, <2>2
<1>6. Locks'
  BY <1>5 DEF IInv, Locks
<1>7. Entries'
  BY <1>0, <1>5 DEF IInv, Entries
<1>8. Writing'
  <2> SUFFICES ASSUME NEW u \in Threads, pc'[u] = "write"
               PROVE  Progress(handle[SessionOf[u]], rec[u], pending[u])'
    BY DEF Writing
  <2>1. Progress(handle[SessionOf[u]], rec[u], pending[u])
    BY <1>5 DEF IInv, Writing
  <2> QED
    BY <1>0, <1>5, <2>1
       DEF Progress, Current, Before, Within, Unseen, Open1, PrevHash, Size, LastOf
<1>9. ASSUME NEW u \in Sessions PROVE HandleTrue(handle[u])'
  <2>1. HandleTrue(handle'[u])
    BY <1>1, <1>2 DEF Open, Die, IInv
  <2> QED
    BY <1>0, <2>1 DEF HandleTrue, EndOf, PrevHash, Size, LastOf, Open1
<1>10. LinesOrdered' /\ Placed' /\ Chained' /\ Kept'
  <2>1. LinesOrdered' /\ Placed'
    BY <1>0 DEF IInv, LinesOrdered, Placed, Unseen
  <2>2. Chained' /\ Kept'
    BY <1>0 DEF IInv, Chained, Linked, PrevHash, Kept
  <2> QED
    BY <2>1, <2>2
<1> QED
  BY <1>4, <1>6, <1>7, <1>8, <1>9, <1>10 DEF IInv

\* Holding the file lock in record() excludes every other thread.
LEMMA OnlyWriter ==
  ASSUME TypeOK, Locks, NEW t \in Threads, NEW u \in Threads,
         pc[t] \in {"refresh", "write", "release"}, pc[u] \in {"refresh", "write", "release"}
  PROVE  t = u
BY DEF Locks

LEMMA CurrentTrue ==
  ASSUME TypeOK, NEW h \in Handles, Current(h)
  PROVE  HandleTrue(h)
<1>1. h.needsNewline \in BOOLEAN
  BY DEF Handles
<1>2. CASE h.needsNewline
  BY <1>2 DEF Current, HandleTrue
<1>3. CASE ~h.needsNewline
  <2>1. Size = EndOf(Len(lines))
    <3>1. CASE lines = <<>>
      BY <3>1, EmptyLines DEF EndOf
    <3>2. CASE lines # <<>>
      BY <3>2, LastLine DEF EndOf
    <3> QED
      BY <3>1, <3>2
  <2>2. Len(lines) > 0 => lines[Len(lines)].nl
    <3>1. CASE lines = <<>>
      BY <3>1, EmptyLines
    <3>2. CASE lines # <<>>
      BY <1>3, <3>2, LastLine DEF Current, Open1
    <3> QED
      BY <3>1, <3>2
  <2> QED
    BY <1>3, <2>1, <2>2 DEF Current, HandleTrue
<1> QED
  BY <1>1, <1>2, <1>3

\* The entry gets its chain fields: the thread now knows the whole file.
LEMMA RefreshStep ==
  ASSUME TypeOK, IInv, NEW t \in Threads, Refresh(t)
  PROVE  TypeOK' /\ IInv'
<1> USE SessionAssumption
<1> DEFINE s == SessionOf[t]
           h == Refreshed(handle[s])
           r == rec[t]
<1>0. UNCHANGED <<lines, alive, mutex, flock, rec, given, acked>>
  BY DEF Refresh
<1>1. /\ pc \in [Threads -> Points] /\ pending \in [Threads -> Seq(Cells \cup {Newline})]
      /\ handle \in [Sessions -> Handles] /\ s \in Sessions
      /\ stamp \in [Records -> [seq : Nat \cup {-1}, prev : SUBSET Seq(Cells)]]
      /\ Size' = Size /\ Handles' = Handles
  BY <1>0 DEF TypeOK, Handles, Size, LastOf
<1>2. h \in Handles /\ Current(h)
  BY <1>1, RefreshCurrent DEF IInv
<1>3. /\ pc[t] = "refresh" /\ pc' = [pc EXCEPT ![t] = "write"]
      /\ handle' = [handle EXCEPT ![s] = h]
      /\ stamp' = [stamp EXCEPT ![r] = [seq |-> h.seq, prev |-> h.prev]]
      /\ pending' = [pending EXCEPT ![t] = Entry(h, r)]
  BY DEF Refresh, Goto
<1> HIDE DEF h
<1>4. r \in given /\ r \in Records /\ stamp[r] = NoStamp
  BY <1>3 DEF IInv, Entries, TypeOK
<1>5. Unseen(r)
  BY <1>4 DEF IInv, Placed
<1>6. handle' \in [Sessions -> Handles]
  BY <1>1, <1>2, <1>3
<1>7. h.seq \in Nat /\ h.prev \in SUBSET Seq(Cells) /\ h.needsNewline \in BOOLEAN
  <2>1. Len(lines) \in Nat
    BY LenProperties DEF TypeOK
  <2> QED
    BY <1>2, <2>1 DEF Handles
<1>8. TypeOK'
  <2>1. stamp' \in [Records -> [seq : Nat \cup {-1}, prev : SUBSET Seq(Cells)]]
    BY <1>1, <1>3, <1>4, <1>7
  <2>2. Entry(h, r) \in Seq(Cells \cup {Newline})
    <3>1. <<r, 1>> \in Cells /\ <<r, 2>> \in Cells
      BY <1>4, CellFacts
    <3>2. CASE h.needsNewline
      <4>1. Entry(h, r) = << Newline, <<r, 1>>, <<r, 2>>, Newline >>
        BY <3>2, EntryShape
      <4> QED
        BY <3>1, <4>1
    <3>3. CASE ~h.needsNewline
      <4>1. Entry(h, r) = << <<r, 1>>, <<r, 2>>, Newline >>
        BY <3>3, EntryShape
      <4> QED
        BY <3>1, <4>1
    <3> QED
      BY <1>7, <3>2, <3>3
  <2>3. pending' \in [Threads -> Seq(Cells \cup {Newline})] /\ pc' \in [Threads -> Points]
    BY <1>1, <1>3, <2>2 DEF Points
  <2> QED
    BY <1>0, <1>1, <1>6, <2>1, <2>3 DEF TypeOK, Handles
<1>9. Locks'
  BY <1>0, <1>1, <1>3 DEF IInv, Locks
<1>10. Entries'
  <2>1. \A u \in Threads : u # t /\ pc[u] # "idle" => rec[u] # r
    BY <1>3 DEF IInv, Entries
  <2>2. \A u \in Threads : pc'[u] \in {"mutex", "flock", "refresh"} => stamp'[rec'[u]] = NoStamp
    <3> SUFFICES ASSUME NEW u \in Threads, pc'[u] \in {"mutex", "flock", "refresh"}
                 PROVE  stamp'[rec[u]] = NoStamp
      BY <1>0
    <3>1. u # t /\ pc'[u] = pc[u]
      BY <1>1, <1>3
    <3>2. rec[u] # r /\ stamp[rec[u]] = NoStamp /\ rec[u] \in Records
      BY <2>1, <3>1 DEF IInv, Entries, TypeOK
    <3> QED
      BY <1>1, <1>3, <3>2
  <2>3. \A q \in Records \ given' : stamp'[q] = NoStamp
    BY <1>0, <1>1, <1>3, <1>4 DEF IInv, Entries
  <2>4. \A u \in Threads : pc'[u] # "idle" => pc[u] # "idle"
    BY <1>1, <1>3
  <2>5. \A u \in Threads : pc'[u] # "idle" => rec'[u] \in given'
    BY <1>0, <2>4 DEF IInv, Entries
  <2>6. \A u, v \in Threads : u # v /\ pc'[u] # "idle" /\ pc'[v] # "idle" => rec'[u] # rec'[v]
    BY <1>0, <2>4 DEF IInv, Entries
  <2> QED
    BY <2>2, <2>3, <2>5, <2>6 DEF Entries
<1>11. Writing'
  <2> SUFFICES ASSUME NEW u \in Threads, pc'[u] = "write"
               PROVE  Progress(handle[SessionOf[u]], rec[u], pending[u])'
    BY DEF Writing
  <2>1. u = t
    <3> SUFFICES ASSUME u # t PROVE FALSE
      OBVIOUS
    <3>1. pc[u] = "write"
      BY <1>1, <1>3
    <3> QED
      BY <1>3, <3>1, OnlyWriter DEF IInv
  <2>2. handle'[s] = h /\ pending'[t] = Entry(h, r) /\ rec'[t] = r
        /\ stamp'[r] = [seq |-> h.seq, prev |-> h.prev]
    BY <1>0, <1>1, <1>3, <1>4
  <2>3. PICK g \in Handles, q \in Records : g = h /\ q = r
    BY <1>2, <1>4
  <2>4. Current(g)' /\ Unseen(q)'
    BY <1>0, <1>2, <1>5, <2>3 DEF Current, Unseen, Size, LastOf, PrevHash, Open1
  <2>5. Progress(g, q, Entry(g, q))'
    <3>1. CASE g.needsNewline
      <4>1. Entry(g, q) = << Newline, <<q, 1>>, <<q, 2>>, Newline >>
        BY <3>1, EntryShape
      <4>2. Open1'
        BY <2>4, <3>1 DEF Current
      <4> QED
        BY <2>2, <2>3, <2>4, <4>1, <4>2 DEF Progress
    <3>2. CASE ~g.needsNewline
      <4>1. Entry(g, q) = << <<q, 1>>, <<q, 2>>, Newline >>
        BY <3>2, EntryShape
      <4>2. Size' \in Nat
        BY <1>1, SizeNat
      <4>3. g.offset = Size' /\ ~Open1'
        BY <2>4, <3>2 DEF Current
      <4>4. g.offset + Extra(g) = Size'
        <5>1. Extra(g) = 0
          BY <3>2 DEF Extra
        <5>2. g.offset \in Nat /\ g.offset = Size'
          BY <4>2, <4>3
        <5>3. g.offset + 0 = g.offset
          BY <5>2
        <5> QED
          BY <5>1, <5>2, <5>3
      <4>5. Before(g, q)'
        BY <2>4, <4>3, <4>4 DEF Before, Current
      <4> QED
        BY <2>2, <2>3, <4>1, <4>5 DEF Progress
    <3> QED
      BY <1>7, <2>3, <3>1, <3>2
  <2> QED
    BY <2>1, <2>2, <2>3, <2>5
<1>12. ASSUME NEW u \in Sessions PROVE HandleTrue(handle[u])'
  <2>1. HandleTrue(handle'[u])
    BY <1>1, <1>2, <1>3, CurrentTrue DEF IInv
  <2> QED
    BY <1>0, <2>1 DEF HandleTrue, EndOf, PrevHash, Size, LastOf, Open1
<1>13. LinesOrdered' /\ Kept'
  BY <1>0 DEF IInv, LinesOrdered, Kept
<1>14. Placed'
  <2>1. \A q \in Records : stamp'[q] = NoStamp => stamp[q] = NoStamp
    BY <1>1, <1>3, <1>4
  <2> QED
    BY <1>0, <2>1 DEF IInv, Placed, Unseen
<1>15. Chained'
  <2> SUFFICES ASSUME NEW i \in DOMAIN lines, NEW q \in Records, lines[i].body = Body(q)
               PROVE  stamp'[q] = [seq |-> i - 1, prev |-> PrevHash(i)]
    BY <1>0 DEF Chained, Linked, PrevHash
  <2>1. q # r
    <3> SUFFICES ASSUME q = r PROVE FALSE
      OBVIOUS
    <3>1. In(q, Body(q))
      BY BodyCells, Zenon
    <3>2. In(r, lines[i].body)
      BY <3>1
    <3> QED
      BY <1>5, <3>2 DEF Unseen
  <2> QED
    BY <1>1, <1>3, <2>1 DEF IInv, Chained, Linked
<1> QED
  BY <1>8, <1>9, <1>10, <1>11, <1>12, <1>13, <1>14, <1>15 DEF IInv

\* The record is in the log: the handle moves past it.
LEMMA CommitStep ==
  ASSUME TypeOK, IInv, NEW t \in Threads, Commit(t)
  PROVE  TypeOK' /\ IInv'
<1> USE SessionAssumption
<1>0. UNCHANGED <<lines, alive, mutex, flock, rec, pending, stamp, given>>
  BY DEF Commit
<1>1. /\ pc \in [Threads -> Points] /\ handle \in [Sessions -> Handles]
      /\ SessionOf[t] \in Sessions /\ Size' = Size /\ Handles' = Handles
  BY <1>0 DEF TypeOK, Handles, Size, LastOf
<1>2. PICK h \in Handles, r \in Records : h = handle[SessionOf[t]] /\ r = rec[t]
  BY <1>1 DEF Commit, IInv, Entries, TypeOK
<1> DEFINE g == [offset |-> h.offset + Len(Entry(h, r)), prev |-> {Body(r)},
                 seq |-> h.seq + 1, needsNewline |-> FALSE]
<1>3. /\ pc[t] = "write" /\ pc' = [pc EXCEPT ![t] = "release"] /\ pending[t] = <<>>
      /\ handle' = [handle EXCEPT ![SessionOf[t]] = g]
      /\ acked' = acked \cup {r}
  BY <1>1, <1>2 DEF Commit, Goto
<1>4. Within(h, Body(r), TRUE, 3)
  <2>1. Progress(h, r, <<>>)
    BY <1>2, <1>3 DEF IInv, Writing
  <2>2. \A a, b, c, d : <<>> # <<a>> /\ <<>> # <<a, b>> /\ <<>> # <<a, b, c>> /\ <<>> # <<a, b, c, d>>
    OBVIOUS
  <2> QED
    BY <2>1, <2>2 DEF Progress
<1>5. h.offset \in Nat /\ h.seq \in Nat /\ h.needsNewline \in BOOLEAN /\ Size \in Nat
      /\ Len(lines) \in Nat
  BY SizeNat, LenProperties DEF Handles, TypeOK
<1>6. h.offset + Len(Entry(h, r)) = Size
  <2>1. h.offset + Extra(h) + 3 = Size
    BY <1>4 DEF Within
  <2>2. Len(Entry(h, r)) = Extra(h) + 3 /\ Extra(h) \in Nat
    <3>1. CASE h.needsNewline
      BY <3>1, EntryShape DEF Extra
    <3>2. CASE ~h.needsNewline
      BY <3>2, EntryShape DEF Extra
    <3> QED
      BY <1>5, <3>1, <3>2
  <2> QED
    BY <1>5, <2>1, <2>2
<1>7. /\ lines # <<>> /\ Len(lines) = h.seq + 1 /\ lines[Len(lines)].body = Body(r)
      /\ lines[Len(lines)].nl /\ Len(lines) \in DOMAIN lines /\ ~Open1
  <2>1. Len(lines) = h.seq + 1 /\ LastOf(lines).body = Body(r) /\ LastOf(lines).nl = TRUE
    BY <1>4 DEF Within
  <2>2. lines # <<>>
    BY <1>5, <2>1, EmptyLines
  <2> QED
    BY <2>1, <2>2, LastLine DEF Open1
<1>8. g.offset = Size /\ g.seq = Len(lines) /\ g.prev = {Body(r)} /\ g.needsNewline = FALSE
  BY <1>6, <1>7
<1>9. g \in Handles
  <2>1. {Body(r)} \in SUBSET Seq(Cells)
    BY CellFacts
  <2>2. Size \in 0..Size /\ Len(lines) \in 0..Len(lines)
    BY <1>5
  <2> QED
    BY <1>6, <1>7, <2>1, <2>2 DEF Handles
<1> HIDE DEF g
<1>10. Current(g)
  <2>1. PrevHash(Len(lines) + 1) = {Body(r)}
    BY <1>5, <1>7 DEF PrevHash
  <2> QED
    BY <1>7, <1>8, <2>1 DEF Current
<1>11. r \in given
  BY <1>2, <1>3 DEF IInv, Entries
<1>12. TypeOK'
  <2>1. pc' \in [Threads -> Points] /\ handle' \in [Sessions -> Handles]
    BY <1>1, <1>3, <1>9 DEF Points
  <2>2. acked' \subseteq given'
    BY <1>0, <1>3, <1>11 DEF TypeOK
  <2> QED
    BY <1>0, <1>1, <2>1, <2>2 DEF TypeOK, Handles
<1>13. Locks'
  BY <1>0, <1>1, <1>3 DEF IInv, Locks
<1>14. Entries'
  BY <1>0, <1>1, <1>3 DEF IInv, Entries
<1>15. Writing'
  <2> SUFFICES ASSUME NEW u \in Threads, pc'[u] = "write" PROVE FALSE
    BY DEF Writing
  <2>1. u # t /\ pc[u] = "write"
    BY <1>1, <1>3
  <2> QED
    BY <1>3, <2>1, OnlyWriter DEF IInv
<1>16. ASSUME NEW u \in Sessions PROVE HandleTrue(handle[u])'
  <2>1. HandleTrue(handle'[u])
    BY <1>1, <1>3, <1>9, <1>10, CurrentTrue DEF IInv
  <2> QED
    BY <1>0, <2>1 DEF HandleTrue, EndOf, PrevHash, Size, LastOf, Open1
<1>17. LinesOrdered' /\ Placed' /\ Chained'
  <2>1. LinesOrdered' /\ Placed'
    BY <1>0 DEF IInv, LinesOrdered, Placed, Unseen
  <2>2. Chained'
    BY <1>0 DEF IInv, Chained, Linked, PrevHash
  <2> QED
    BY <2>1, <2>2
<1>18. Kept'
  <2> SUFFICES ASSUME NEW q \in acked' PROVE \E i \in DOMAIN lines : lines[i].body = Body(q) /\ lines[i].nl
    BY <1>0 DEF Kept
  <2>1. CASE q = r
    BY <1>7, <2>1
  <2>2. CASE q # r
    BY <1>3, <2>2 DEF IInv, Kept
  <2> QED
    BY <2>1, <2>2
<1> QED
  BY <1>12, <1>13, <1>14, <1>15, <1>16, <1>17, <1>18 DEF IInv

----------------------------------------------------------------------------
\* One more cell in the file.

LEMMA LineKept ==
  ASSUME TypeOK, LinesOrdered, NEW cell \in Cells \cup {Newline}, lines' = Appended(cell)
  PROVE  /\ Len(lines) \in Nat /\ Len(lines') \in Nat /\ Len(lines') > 0
         /\ Len(lines') = Len(lines) \/ Len(lines') = Len(lines) + 1
         /\ DOMAIN lines' = 1..Len(lines') /\ DOMAIN lines = 1..Len(lines)
         /\ \A i \in DOMAIN lines : lines[i].nl => i < Len(lines') /\ lines'[i] = lines[i]
         /\ \A i \in DOMAIN lines' : i # Len(lines') => i \in DOMAIN lines /\ lines'[i] = lines[i]
         /\ \A i \in DOMAIN lines' : PrevHash(i)' = PrevHash(i)
<1>1. lines' \in Seq(Line) /\ Len(lines') \in Nat /\ Len(lines') > 0
  BY Growth, Zenon
<1>2. DOMAIN lines' = 1..Len(lines')
  BY <1>1, LenProperties
<1>3. DOMAIN lines = 1..Len(lines) /\ Len(lines) \in Nat
  BY LenProperties DEF TypeOK
<1>4. /\ Open1 => Len(lines') = Len(lines)
      /\ ~Open1 => Len(lines') = Len(lines) + 1
  BY Growth, Zenon
<1>5. \A i \in 1..(Len(lines') - 1) : i \in DOMAIN lines /\ lines'[i] = lines[i]
  BY Growth, Zenon
<1>6. \A i \in DOMAIN lines' : i # Len(lines') => i \in DOMAIN lines /\ lines'[i] = lines[i]
  BY <1>1, <1>2, <1>5
<1>7. ASSUME NEW i \in DOMAIN lines, lines[i].nl PROVE i < Len(lines') /\ lines'[i] = lines[i]
  <2>1. i < Len(lines')
    <3>1. CASE Open1
      <4>1. i # Len(lines)
        BY <1>7, <3>1 DEF Open1, LastOf
      <4>2. i \in 1..Len(lines) /\ Len(lines) \in Nat
        BY <1>3
      <4>3. i < Len(lines)
        BY <4>1, <4>2
      <4>4. Len(lines') = Len(lines)
        BY <1>4, <3>1
      <4> QED
        BY <4>3, <4>4, Zenon
    <3>2. CASE ~Open1
      <4>1. i \in 1..Len(lines) /\ Len(lines) \in Nat
        BY <1>3
      <4>2. Len(lines') = Len(lines) + 1
        BY <1>4, <3>2
      <4> QED
        BY <4>1, <4>2
    <3> QED
      BY <3>1, <3>2
  <2>2. i \in DOMAIN lines' /\ i # Len(lines')
    BY <1>1, <1>2, <1>3, <2>1
  <2> QED
    BY <1>6, <2>1, <2>2
<1>8. ASSUME NEW i \in DOMAIN lines' PROVE PrevHash(i)' = PrevHash(i)
  <2>1. CASE i = 1
    BY <2>1 DEF PrevHash
  <2>2. CASE i # 1
    <3>1. i - 1 \in 1..(Len(lines') - 1)
      BY <1>1, <1>2, <2>2
    <3>2. lines'[i - 1] = lines[i - 1]
      BY <1>5, <3>1
    <3> QED
      BY <2>2, <3>2 DEF PrevHash
  <2> QED
    BY <2>1, <2>2
<1>9. Len(lines') = Len(lines) \/ Len(lines') = Len(lines) + 1
  BY <1>4
<1> QED
  BY <1>1, <1>2, <1>3, <1>6, <1>7, <1>8, <1>9

LEMMA HandleKept ==
  ASSUME TypeOK, LinesOrdered, NEW cell \in Cells \cup {Newline}, lines' = Appended(cell),
         NEW h \in Handles, HandleTrue(h)
  PROVE  h \in Handles' /\ HandleTrue(h)'
<1>1. /\ h.offset \in 0..Size /\ h.seq \in 0..Len(lines) /\ h.needsNewline \in BOOLEAN
      /\ Size \in Nat /\ Size' = Size + 1
  BY SizeNat, OrderedStep DEF Handles
<1>2. /\ Len(lines) \in Nat /\ DOMAIN lines = 1..Len(lines) /\ Len(lines') \in Nat
      /\ Len(lines) <= Len(lines') /\ DOMAIN lines' = 1..Len(lines')
  <2>1. /\ Len(lines) \in Nat /\ Len(lines') \in Nat
        /\ Len(lines') = Len(lines) \/ Len(lines') = Len(lines) + 1
    BY LineKept
  <2>2. DOMAIN lines' = 1..Len(lines') /\ DOMAIN lines = 1..Len(lines)
    BY LineKept
  <2>3. Len(lines) <= Len(lines')
    BY <2>1
  <2> QED
    BY <2>1, <2>2, <2>3
<1>3. h \in Handles'
  <2>1. h.offset \in 0..Size' /\ h.seq \in 0..Len(lines')
    BY <1>1, <1>2
  <2> QED
    BY <2>1 DEF Handles
<1> SUFFICES HandleTrue(h)'
  BY <1>3
<1>4. CASE h.needsNewline
  <2>1. h.offset # Size'
    BY <1>1
  <2> QED
    BY <1>4, <2>1 DEF HandleTrue
<1>5. CASE ~h.needsNewline
  <2>1. /\ h.offset = EndOf(h.seq) /\ h.prev = PrevHash(h.seq + 1)
        /\ h.seq > 0 => lines[h.seq].nl
    BY <1>5 DEF HandleTrue
  <2>2. CASE h.seq = 0
    <3>1. EndOf(h.seq)' = EndOf(h.seq) /\ PrevHash(h.seq + 1)' = PrevHash(h.seq + 1)
      BY <2>2 DEF EndOf, PrevHash
    <3> QED
      BY <1>5, <2>1, <2>2, <3>1 DEF HandleTrue
  <2>3. CASE h.seq > 0
    <3>1. h.seq \in DOMAIN lines
      BY <1>1, <1>2, <2>3
    <3>2. lines'[h.seq] = lines[h.seq]
      BY <2>1, <2>3, <3>1, LineKept
    <3>3. EndOf(h.seq)' = EndOf(h.seq)
      BY <2>3, <3>2 DEF EndOf
    <3>4. PrevHash(h.seq + 1)' = PrevHash(h.seq + 1)
      <4>1. h.seq + 1 # 1 /\ (h.seq + 1) - 1 = h.seq
        BY <1>1, <2>3
      <4> QED
        BY <3>2, <4>1 DEF PrevHash
    <3> QED
      BY <1>5, <2>1, <3>2, <3>3, <3>4 DEF HandleTrue
  <2> QED
    BY <1>1, <2>2, <2>3
<1> QED
  BY <1>1, <1>4, <1>5

\* The four cells of an append, in order.
LEMMA Heads ==
  ASSUME NEW h, NEW r \in Records, NEW left, left # <<>>, Progress(h, r, left)
  PROVE  \/ /\ left = << Newline, <<r, 1>>, <<r, 2>>, Newline >>
            /\ Head(left) = Newline /\ Tail(left) = << <<r, 1>>, <<r, 2>>, Newline >>
            /\ Current(h) /\ Open1 /\ Unseen(r)
         \/ /\ left = << <<r, 1>>, <<r, 2>>, Newline >>
            /\ Head(left) = <<r, 1>> /\ Tail(left) = << <<r, 2>>, Newline >>
            /\ Before(h, r)
         \/ /\ left = << <<r, 2>>, Newline >>
            /\ Head(left) = <<r, 2>> /\ Tail(left) = << Newline >>
            /\ Within(h, << <<r, 1>> >>, FALSE, 1)
         \/ /\ left = << Newline >>
            /\ Head(left) = Newline /\ Tail(left) = <<>>
            /\ Within(h, Body(r), FALSE, 2)
<1>1. \A a, b, c, d : Head(<<a, b, c, d>>) = a /\ Tail(<<a, b, c, d>>) = <<b, c, d>>
  OBVIOUS
<1>2. \A a, b, c : Head(<<a, b, c>>) = a /\ Tail(<<a, b, c>>) = <<b, c>>
  OBVIOUS
<1>3. \A a, b : Head(<<a, b>>) = a /\ Tail(<<a, b>>) = <<b>>
  OBVIOUS
<1>4. \A a : Head(<<a>>) = a /\ Tail(<<a>>) = <<>>
  OBVIOUS
<1>5. CASE left = << Newline, <<r, 1>>, <<r, 2>>, Newline >> /\ Current(h) /\ Open1 /\ Unseen(r)
  BY <1>1, <1>5
<1>6. CASE left = << <<r, 1>>, <<r, 2>>, Newline >> /\ Before(h, r)
  BY <1>2, <1>6
<1>7. CASE left = << <<r, 2>>, Newline >> /\ Within(h, << <<r, 1>> >>, FALSE, 1)
  BY <1>3, <1>7
<1>8. CASE left = << Newline >> /\ Within(h, Body(r), FALSE, 2)
  BY <1>4, <1>8
<1> QED
  BY <1>5, <1>6, <1>7, <1>8 DEF Progress

\* What one cell does to the end of the file.
NewEnd(cell) ==
    /\ Len(lines') \in Nat /\ Len(lines') > 0
    /\ Open1 => Len(lines') = Len(lines)
    /\ ~Open1 => Len(lines') = Len(lines) + 1
    /\ LastOf(lines)' = lines'[Len(lines')]
    /\ Open1' <=> cell # Newline
    /\ LastOf(lines').nl = (cell = Newline)
    /\ Size' = Size + 1 /\ Size \in Nat
    /\ cell = Newline => LastOf(lines').body = OldBody
    /\ cell # Newline => LastOf(lines').body = Append(OldBody, cell)

LEMMA EndGrows ==
  ASSUME TypeOK, LinesOrdered, NEW cell \in Cells \cup {Newline}, lines' = Appended(cell)
  PROVE  NewEnd(cell)
<1>1. Len(lines') \in Nat /\ Len(lines') > 0
  BY Growth, Zenon
<1>2. /\ Open1 => Len(lines') = Len(lines)
      /\ ~Open1 => Len(lines') = Len(lines) + 1
  BY Growth, Zenon
<1>3. LastOf(lines') = lines'[Len(lines')] /\ LastOf(lines)' = lines'[Len(lines')]
  BY DEF LastOf
<1>4. /\ lines'[Len(lines')].nl <=> cell = Newline
      /\ cell = Newline => lines'[Len(lines')].body = OldBody
      /\ cell # Newline => lines'[Len(lines')].body = Append(OldBody, cell)
  BY Growth, Zenon
<1>5. lines'[Len(lines')].nl \in BOOLEAN
  <2>1. lines' \in Seq(Line)
    BY Growth, Zenon
  <2>2. lines'[Len(lines')] \in Line
    BY <1>1, <2>1, ElementOfSeq
  <2> QED
    BY <2>2 DEF Line
<1>6. lines' # <<>>
  BY <1>1
<1>7. Open1' <=> cell # Newline
  BY <1>3, <1>4, <1>6 DEF Open1
<1>8. LastOf(lines').nl = (cell = Newline)
  BY <1>3, <1>4, <1>5
<1>9. Size' = Size + 1 /\ Size \in Nat
  BY OrderedStep, SizeNat
<1> QED
  BY <1>1, <1>2, <1>3, <1>4, <1>7, <1>8, <1>9 DEF NewEnd

\* What the cell of an append does to the rest of the file: no record but the
\* thread's own appears, and a line that becomes a record's is linked.
Landed(r) ==
    /\ \A q \in Records, i \in DOMAIN lines' :
         In(q, lines'[i].body) => \/ i \in DOMAIN lines /\ In(q, lines[i].body)
                                  \/ q = r /\ i = Len(lines') /\ Unseen(r)
    /\ \A q \in Records : lines'[Len(lines')].body = Body(q)
         => stamp[q] = [seq |-> Len(lines') - 1, prev |-> PrevHash(Len(lines'))]

\* The newline that ends a torn tail.
LEMMA TornTailEnds ==
  ASSUME TypeOK, IInv, NEW h \in Handles, NEW r \in Records, lines' = Appended(Newline),
         Current(h), Open1, Unseen(r)
  PROVE  Before(h, r)' /\ Landed(r)
<1>1. LinesOrdered /\ Newline \in Cells \cup {Newline}
  BY DEF IInv
<1>2. NewEnd(Newline)
  BY <1>1, EndGrows
<1>3. /\ Len(lines) \in Nat /\ Len(lines) > 0 /\ LastOf(lines) = lines[Len(lines)]
      /\ Len(lines) \in DOMAIN lines
  BY LastLine DEF Open1
<1>4. /\ Len(lines') = Len(lines) /\ ~Open1' /\ Size' = Size + 1
      /\ lines'[Len(lines')].body = lines[Len(lines)].body
  BY <1>2, <1>3 DEF NewEnd, OldBody, LastOf
<1>5. DOMAIN lines' = DOMAIN lines
      /\ \A i \in DOMAIN lines' : i # Len(lines') => lines'[i] = lines[i]
  <2>1. /\ DOMAIN lines' = 1..Len(lines') /\ DOMAIN lines = 1..Len(lines)
        /\ \A i \in DOMAIN lines' : i # Len(lines') => i \in DOMAIN lines /\ lines'[i] = lines[i]
    BY <1>1, LineKept
  <2> QED
    BY <1>4, <2>1
<1>6. \A i \in DOMAIN lines' : lines'[i].body = lines[i].body
  BY <1>4, <1>5
<1>7. Before(h, r)'
  <2>1. h.seq = Len(lines') /\ h.prev = PrevHash(Len(lines) + 1) /\ h.offset = Size
    BY <1>4 DEF Current
  <2>2. PrevHash(Len(lines) + 1) = {lines[Len(lines)].body}
    BY <1>3 DEF PrevHash
  <2>3. PrevHash(Len(lines) + 1)' = {lines'[Len(lines')].body}
    BY <1>3, <1>4 DEF PrevHash
  <2>4. h.offset + Extra(h) = Size'
    BY <1>4, <2>1 DEF Current, Extra
  <2>5. Unseen(r)'
    BY <1>5, <1>6 DEF Unseen
  <2> QED
    BY <1>4, <2>1, <2>2, <2>3, <2>4, <2>5 DEF Before
<1>8. Landed(r)
  <2>1. ASSUME NEW q \in Records, lines'[Len(lines')].body = Body(q)
        PROVE  stamp[q] = [seq |-> Len(lines') - 1, prev |-> PrevHash(Len(lines'))]
    BY <1>3, <1>4, <2>1 DEF IInv, Chained, Linked
  <2> QED
    BY <1>5, <1>6, <2>1 DEF Landed
<1> QED
  BY <1>7, <1>8

\* The first half of a record opens its line.
LEMMA LineOpens ==
  ASSUME TypeOK, IInv, NEW h \in Handles, NEW r \in Records, lines' = Appended(<<r, 1>>),
         Before(h, r)
  PROVE  Within(h, << <<r, 1>> >>, FALSE, 1)' /\ Landed(r)
<1>1. LinesOrdered /\ <<r, 1>> \in Cells \cup {Newline} /\ <<r, 1>> # Newline
  BY CellFacts DEF IInv
<1>2. NewEnd(<<r, 1>>)
  BY <1>1, EndGrows
<1>3. Len(lines) \in Nat
  BY LenProperties DEF TypeOK
<1>4. /\ Len(lines') = Len(lines) + 1 /\ LastOf(lines').nl = FALSE /\ Size' = Size + 1
      /\ LastOf(lines').body = Append(OldBody, <<r, 1>>) /\ Size \in Nat
  BY <1>1, <1>2 DEF NewEnd, Before
<1>5. LastOf(lines').body = << <<r, 1>> >>
  BY <1>4, AppendShort DEF OldBody, Before
<1>6. /\ DOMAIN lines' = 1..Len(lines')
      /\ \A i \in DOMAIN lines' : i # Len(lines') => i \in DOMAIN lines /\ lines'[i] = lines[i]
      /\ \A i \in DOMAIN lines' : PrevHash(i)' = PrevHash(i)
  BY <1>1, LineKept
<1>7. Within(h, << <<r, 1>> >>, FALSE, 1)'
  <2>1. Len(lines') = h.seq + 1 /\ h.prev = PrevHash(Len(lines')) /\ h.offset + Extra(h) = Size
    BY <1>4 DEF Before
  <2>2. Len(lines') \in DOMAIN lines'
    BY <1>3, <1>4, <1>6
  <2>3. h.prev = PrevHash(Len(lines))'
    BY <1>6, <2>1, <2>2
  <2> QED
    BY <1>4, <1>5, <2>1, <2>3 DEF Within
<1>8. Landed(r)
  <2>1. ASSUME NEW q \in Records, NEW i \in DOMAIN lines', In(q, lines'[i].body)
        PROVE  \/ i \in DOMAIN lines /\ In(q, lines[i].body)
               \/ q = r /\ i = Len(lines') /\ Unseen(r)
    <3>1. CASE i = Len(lines')
      <4>1. In(q, << <<r, 1>> >>)
        BY <1>5, <2>1, <3>1 DEF LastOf
      <4>2. q = r
        BY <4>1, BodyCells, Zenon
      <4> QED
        BY <3>1, <4>2 DEF Before
    <3>2. CASE i # Len(lines')
      BY <1>6, <2>1, <3>2
    <3> QED
      BY <3>1, <3>2
  <2>2. ASSUME NEW q \in Records PROVE lines'[Len(lines')].body # Body(q)
    <3>1. Body(q) # << <<r, 1>> >>
      BY BodyCells, Zenon
    <3> QED
      BY <1>5, <3>1 DEF LastOf
  <2> QED
    BY <2>1, <2>2 DEF Landed
<1> QED
  BY <1>7, <1>8

\* The second half completes the record.
LEMMA RecordCompletes ==
  ASSUME TypeOK, IInv, NEW h \in Handles, NEW r \in Records, lines' = Appended(<<r, 2>>),
         Within(h, << <<r, 1>> >>, FALSE, 1), stamp[r] = [seq |-> h.seq, prev |-> h.prev]
  PROVE  Within(h, Body(r), FALSE, 2)' /\ Landed(r)
<1>1. LinesOrdered /\ <<r, 2>> \in Cells \cup {Newline} /\ <<r, 2>> # Newline
  BY CellFacts DEF IInv
<1>2. NewEnd(<<r, 2>>)
  BY <1>1, EndGrows
<1>3. Len(lines) \in Nat /\ h.offset \in Nat /\ h.seq \in Nat /\ Size \in Nat
  BY LenProperties, SizeNat DEF TypeOK, Handles
<1>4. /\ Open1 /\ Len(lines) \in DOMAIN lines
      /\ OldBody = << <<r, 1>> >> /\ lines[Len(lines)].body = << <<r, 1>> >>
  <2>1. Len(lines) > 0 /\ lines # <<>>
    BY <1>3, EmptyLines DEF Within
  <2>2. Open1
    BY <2>1 DEF Within, Open1
  <2> QED
    BY <2>1, <2>2, LastLine DEF Within, OldBody
<1>5. /\ Len(lines') = Len(lines) /\ LastOf(lines').nl = FALSE /\ Size' = Size + 1
      /\ LastOf(lines').body = Append(OldBody, <<r, 2>>)
  BY <1>1, <1>2, <1>4 DEF NewEnd
<1>6. LastOf(lines').body = Body(r)
  BY <1>4, <1>5, AppendShort DEF Body
<1>7. /\ DOMAIN lines' = 1..Len(lines') /\ DOMAIN lines = 1..Len(lines)
      /\ \A i \in DOMAIN lines' : i # Len(lines') => i \in DOMAIN lines /\ lines'[i] = lines[i]
      /\ \A i \in DOMAIN lines' : PrevHash(i)' = PrevHash(i)
  BY <1>1, LineKept
<1>8. PrevHash(Len(lines))' = PrevHash(Len(lines))
  <2>1. PICK n \in DOMAIN lines' : n = Len(lines)
    BY <1>4, <1>5, <1>7
  <2>2. PrevHash(n)' = PrevHash(n)
    BY <1>7
  <2> QED
    BY <1>5, <2>1, <2>2 DEF PrevHash
<1>9. Within(h, Body(r), FALSE, 2)'
  <2>1. Len(lines) = h.seq + 1 /\ h.prev = PrevHash(Len(lines)) /\ h.offset + Extra(h) + 1 = Size
    BY DEF Within
  <2>2. h.offset + Extra(h) + 2 = Size'
    BY <1>3, <1>5, <2>1 DEF Extra
  <2>3. h.prev = PrevHash(Len(lines))'
    BY <1>8, <2>1
  <2> QED
    BY <1>5, <1>6, <2>1, <2>2, <2>3 DEF Within
<1>10. Landed(r)
  <2>1. ASSUME NEW q \in Records, NEW i \in DOMAIN lines', In(q, lines'[i].body)
        PROVE  i \in DOMAIN lines /\ In(q, lines[i].body)
    <3>1. CASE i = Len(lines')
      <4>1. In(q, Body(r))
        BY <1>6, <2>1, <3>1 DEF LastOf
      <4>2. q = r
        BY <4>1, BodyCells, Zenon
      <4>3. In(q, << <<q, 1>> >>)
        BY BodyCells, Zenon
      <4> QED
        BY <1>4, <1>5, <3>1, <4>2, <4>3
    <3>2. CASE i # Len(lines')
      BY <1>7, <2>1, <3>2
    <3> QED
      BY <3>1, <3>2
  <2>2. ASSUME NEW q \in Records, lines'[Len(lines')].body = Body(q)
        PROVE  stamp[q] = [seq |-> Len(lines') - 1, prev |-> PrevHash(Len(lines'))]
    <3>1. Body(q) = Body(r)
      BY <1>6, <2>2 DEF LastOf
    <3>2. q = r
      BY <3>1, BodyCells, Zenon
    <3>3. h.seq = Len(lines') - 1 /\ h.prev = PrevHash(Len(lines'))
      BY <1>3, <1>5 DEF Within
    <3> QED
      BY <3>2, <3>3
  <2> QED
    BY <2>1, <2>2 DEF Landed
<1> QED
  BY <1>9, <1>10

\* The newline that ends the record.
LEMMA RecordEnds ==
  ASSUME TypeOK, IInv, NEW h \in Handles, NEW r \in Records, lines' = Appended(Newline),
         Within(h, Body(r), FALSE, 2)
  PROVE  Within(h, Body(r), TRUE, 3)' /\ Landed(r)
<1>1. LinesOrdered /\ Newline \in Cells \cup {Newline}
  BY DEF IInv
<1>2. NewEnd(Newline)
  BY <1>1, EndGrows
<1>3. Len(lines) \in Nat /\ h.offset \in Nat /\ h.seq \in Nat /\ Size \in Nat
  BY LenProperties, SizeNat DEF TypeOK, Handles
<1>4. /\ Open1 /\ Len(lines) \in DOMAIN lines
      /\ OldBody = Body(r) /\ lines[Len(lines)].body = Body(r)
  <2>1. Len(lines) > 0 /\ lines # <<>>
    BY <1>3, EmptyLines DEF Within
  <2>2. Open1
    BY <2>1 DEF Within, Open1
  <2> QED
    BY <2>1, <2>2, LastLine DEF Within, OldBody
<1>5. /\ Len(lines') = Len(lines) /\ LastOf(lines').nl = TRUE /\ Size' = Size + 1
      /\ LastOf(lines').body = Body(r)
  BY <1>2, <1>4 DEF NewEnd
<1>6. /\ DOMAIN lines' = 1..Len(lines') /\ DOMAIN lines = 1..Len(lines)
      /\ \A i \in DOMAIN lines' : i # Len(lines') => i \in DOMAIN lines /\ lines'[i] = lines[i]
      /\ \A i \in DOMAIN lines' : PrevHash(i)' = PrevHash(i)
  BY <1>1, LineKept
<1>7. PrevHash(Len(lines))' = PrevHash(Len(lines))
  <2>1. PICK n \in DOMAIN lines' : n = Len(lines)
    BY <1>4, <1>5, <1>6
  <2>2. PrevHash(n)' = PrevHash(n)
    BY <1>6
  <2> QED
    BY <1>5, <2>1, <2>2 DEF PrevHash
<1>8. Within(h, Body(r), TRUE, 3)'
  <2>1. Len(lines) = h.seq + 1 /\ h.prev = PrevHash(Len(lines)) /\ h.offset + Extra(h) + 2 = Size
    BY DEF Within
  <2>2. h.offset + Extra(h) + 3 = Size'
    BY <1>3, <1>5, <2>1 DEF Extra
  <2>3. h.prev = PrevHash(Len(lines))'
    BY <1>7, <2>1
  <2> QED
    BY <1>5, <2>1, <2>2, <2>3 DEF Within
<1>9. \A i \in DOMAIN lines' : i \in DOMAIN lines /\ lines'[i].body = lines[i].body
  BY <1>4, <1>5, <1>6 DEF LastOf
<1>10. Landed(r)
  <2>1. ASSUME NEW q \in Records, lines'[Len(lines')].body = Body(q)
        PROVE  stamp[q] = [seq |-> Len(lines') - 1, prev |-> PrevHash(Len(lines'))]
    <3>1. lines[Len(lines)].body = Body(q)
      BY <1>4, <1>5, <2>1 DEF LastOf
    <3> QED
      BY <1>4, <1>5, <3>1 DEF IInv, Chained, Linked
  <2> QED
    BY <1>9, <2>1 DEF Landed
<1> QED
  BY <1>8, <1>10

LEMMA WriteStep ==
  ASSUME TypeOK, IInv, NEW t \in Threads, WriteCell(t)
  PROVE  TypeOK' /\ IInv'
<1> USE SessionAssumption
<1>0. UNCHANGED <<alive, handle, mutex, flock, pc, rec, stamp, given, acked>>
  BY DEF WriteCell
<1>1. /\ handle \in [Sessions -> Handles] /\ SessionOf[t] \in Sessions /\ LinesOrdered
      /\ pending \in [Threads -> Seq(Cells \cup {Newline})]
  BY DEF TypeOK, Handles, IInv
<1>2. PICK h \in Handles, r \in Records : h = handle[SessionOf[t]] /\ r = rec[t]
  BY <1>1 DEF WriteCell, IInv, Entries, TypeOK
<1>3. PICK left \in Seq(Cells \cup {Newline}) : left = pending[t]
  BY <1>1
<1>4. /\ pc[t] = "write" /\ left # <<>> /\ lines' = Appended(Head(left))
      /\ pending' = [pending EXCEPT ![t] = Tail(left)]
  BY <1>3 DEF WriteCell
<1>5. Progress(h, r, left)
  BY <1>2, <1>3, <1>4 DEF IInv, Writing
<1>6. stamp[r] = [seq |-> h.seq, prev |-> h.prev]
  BY <1>5 DEF Progress
<1>7. Head(left) \in Cells \cup {Newline} /\ Tail(left) \in Seq(Cells \cup {Newline})
  BY <1>4, HeadTailProperties
<1>8. Progress(h, r, Tail(left))' /\ Landed(r)
  <2> USE <1>0
  <2>1. CASE /\ Head(left) = Newline /\ Tail(left) = << <<r, 1>>, <<r, 2>>, Newline >>
             /\ Current(h) /\ Open1 /\ Unseen(r)
    <3>1. Before(h, r)' /\ Landed(r)
      BY <1>4, <2>1, TornTailEnds
    <3> QED
      BY <1>6, <2>1, <3>1 DEF Progress
  <2>2. CASE /\ Head(left) = <<r, 1>> /\ Tail(left) = << <<r, 2>>, Newline >> /\ Before(h, r)
    <3>1. Within(h, << <<r, 1>> >>, FALSE, 1)' /\ Landed(r)
      BY <1>4, <2>2, LineOpens
    <3> QED
      BY <1>6, <2>2, <3>1 DEF Progress
  <2>3. CASE /\ Head(left) = <<r, 2>> /\ Tail(left) = << Newline >>
             /\ Within(h, << <<r, 1>> >>, FALSE, 1)
    <3>1. Within(h, Body(r), FALSE, 2)' /\ Landed(r)
      BY <1>4, <1>6, <2>3, RecordCompletes
    <3> QED
      BY <1>6, <2>3, <3>1 DEF Progress
  <2>4. CASE Head(left) = Newline /\ Tail(left) = <<>> /\ Within(h, Body(r), FALSE, 2)
    <3>1. Within(h, Body(r), TRUE, 3)' /\ Landed(r)
      BY <1>4, <2>4, RecordEnds
    <3> QED
      BY <1>6, <2>4, <3>1 DEF Progress
  <2> QED
    BY <1>4, <1>5, <2>1, <2>2, <2>3, <2>4, Heads
<1>9. LinesOrdered' /\ Size' = Size + 1 /\ Size \in Nat
  BY <1>1, <1>4, <1>7, OrderedStep, SizeNat
<1>10. /\ Len(lines) \in Nat /\ Len(lines') \in Nat /\ Len(lines) <= Len(lines')
       /\ DOMAIN lines' = 1..Len(lines') /\ DOMAIN lines = 1..Len(lines) /\ Len(lines') > 0
       /\ \A i \in DOMAIN lines : lines[i].nl => i < Len(lines') /\ lines'[i] = lines[i]
       /\ \A i \in DOMAIN lines' : i # Len(lines') => i \in DOMAIN lines /\ lines'[i] = lines[i]
       /\ \A i \in DOMAIN lines' : PrevHash(i)' = PrevHash(i)
  BY <1>1, <1>4, <1>7, LineKept
<1>11. lines' \in Seq(Line)
  BY <1>1, <1>4, <1>7, Growth
<1>12. ASSUME NEW u \in Sessions PROVE handle'[u] \in Handles' /\ HandleTrue(handle[u])'
  <2>1. PICK g \in Handles : g = handle[u]
    BY <1>1
  <2>2. HandleTrue(g)
    BY <2>1 DEF IInv
  <2>3. g \in Handles' /\ HandleTrue(g)'
    BY <1>1, <1>4, <1>7, <2>2, HandleKept
  <2> QED
    BY <1>0, <2>1, <2>3
<1>13. TypeOK'
  <2>1. handle' \in [Sessions -> Handles']
    BY <1>0, <1>1, <1>12
  <2>2. pending' \in [Threads -> Seq(Cells \cup {Newline})]
    BY <1>1, <1>4, <1>7
  <2> QED
    BY <1>0, <1>11, <2>1, <2>2 DEF TypeOK, Handles, Line
<1>14. Locks' /\ Entries'
  BY <1>0 DEF IInv, Locks, Entries
<1>15. Placed'
  <2>1. stamp[r] # NoStamp
    BY <1>6 DEF NoStamp, Handles
  <2>2. ASSUME NEW q \in Records, stamp'[q] = NoStamp PROVE Unseen(q)'
    <3>1. Unseen(q) /\ q # r
      BY <1>0, <2>1, <2>2 DEF IInv, Placed
    <3> QED
      BY <1>8, <3>1 DEF Landed, Unseen
  <2>3. ASSUME NEW q \in Records, NEW i \in DOMAIN lines', NEW j \in DOMAIN lines',
               In(q, lines'[i].body), In(q, lines'[j].body)
        PROVE  i = j
    <3>1. \/ i \in DOMAIN lines /\ In(q, lines[i].body)
          \/ q = r /\ i = Len(lines') /\ Unseen(r)
      BY <1>8, <2>3 DEF Landed
    <3>2. \/ j \in DOMAIN lines /\ In(q, lines[j].body)
          \/ q = r /\ j = Len(lines') /\ Unseen(r)
      BY <1>8, <2>3 DEF Landed
    <3> QED
      BY <3>1, <3>2 DEF IInv, Placed, Unseen
  <2> QED
    BY <2>2, <2>3 DEF Placed
<1>16. Chained'
  <2> SUFFICES ASSUME NEW i \in DOMAIN lines', NEW q \in Records, lines'[i].body = Body(q)
               PROVE  stamp[q] = [seq |-> i - 1, prev |-> PrevHash(i)]
    BY <1>0, <1>10 DEF Chained, Linked
  <2>1. CASE i = Len(lines')
    BY <1>8, <2>1 DEF Landed
  <2>2. CASE i # Len(lines')
    BY <1>10, <2>2 DEF IInv, Chained, Linked
  <2> QED
    BY <2>1, <2>2
<1>17. Kept'
  <2> SUFFICES ASSUME NEW q \in acked
               PROVE  \E i \in DOMAIN lines' : lines'[i].body = Body(q) /\ lines'[i].nl
    BY <1>0 DEF Kept
  <2>1. PICK i \in DOMAIN lines : lines[i].body = Body(q) /\ lines[i].nl
    BY DEF IInv, Kept
  <2>2. i \in DOMAIN lines' /\ lines'[i] = lines[i]
    BY <1>10, <2>1
  <2> QED
    BY <2>1, <2>2
<1>18. Writing'
  <2> SUFFICES ASSUME NEW u \in Threads, pc'[u] = "write"
               PROVE  Progress(handle[SessionOf[u]], rec[u], pending[u])'
    BY DEF Writing
  <2>1. u = t
    BY <1>0, <1>4, OnlyWriter DEF IInv
  <2>2. handle'[SessionOf[u]] = h /\ rec'[u] = r /\ pending'[u] = Tail(left)
    BY <1>0, <1>1, <1>2, <1>4, <2>1
  <2> QED
    BY <1>8, <2>2
<1> QED
  BY <1>9, <1>12, <1>13, <1>14, <1>15, <1>16, <1>17, <1>18 DEF IInv

----------------------------------------------------------------------------
\* The theorems.

LEMMA InitHolds == Init => TypeOK /\ IInv
<1> SUFFICES ASSUME Init PROVE TypeOK /\ IInv
  OBVIOUS
<1>1. /\ alive = {} /\ handle = [s \in Sessions |-> Fresh] /\ mutex = [s \in Sessions |-> NoThread]
      /\ flock = NoSession /\ pc = [t \in Threads |-> "idle"] /\ rec = [t \in Threads |-> NoRecord]
      /\ pending = [t \in Threads |-> <<>>] /\ stamp = [r \in Records |-> NoStamp]
      /\ given = {} /\ acked = {}
  BY DEF Init
<1>2. CASE lines = <<>>
  <2>1. Size = 0 /\ Len(lines) = 0 /\ DOMAIN lines = {}
    BY <1>2, EmptyLines
  <2>2. TypeOK
    BY <1>1, <1>2, <2>1, EmptySeq DEF TypeOK, Fresh, Points, NoStamp
  <2>3. IInv
    BY <1>1, <2>1 DEF IInv, LinesOrdered, HandleTrue, Fresh, EndOf, PrevHash, Locks, Entries, Placed,
       Unseen, Chained, Kept, Writing
  <2> QED
    BY <2>2, <2>3
<1>3. ASSUME NEW k \in 1..2, NEW nl \in BOOLEAN,
             lines = <<[body |-> SubSeq(Body(Legacy), 1, k), nl |-> nl,
                        end |-> IF nl THEN k + 1 ELSE k]>>
      PROVE  TypeOK /\ IInv
  <2>1. Body(Legacy) \in Seq(Cells) /\ Len(Body(Legacy)) = 2
        /\ Body(Legacy)[1] = <<Legacy, 1>> /\ Body(Legacy)[2] = <<Legacy, 2>>
    BY DEF Body, Cells
  <2> DEFINE body == SubSeq(Body(Legacy), 1, k)
             end == IF nl THEN k + 1 ELSE k
  <2>2. body \in Seq(Cells) /\ Len(body) = k /\ DOMAIN body = 1..k
        /\ \A n \in 1..k : body[n] = Body(Legacy)[n]
    <3>1. \A n \in 1..k : Body(Legacy)[n] \in Cells
      BY <2>1 DEF Cells
    <3>2. body \in Seq(Cells) /\ Len(body) = k /\ \A n \in 1..k : body[n] = Body(Legacy)[n]
      BY <2>1, <3>1, SubSeqProperties
    <3> QED
      BY <3>2, LenProperties
  <2>3. end \in Nat /\ end > 0
    OBVIOUS
  <2> HIDE DEF body, end
  <2>4. /\ lines = <<[body |-> body, nl |-> nl, end |-> end]>> /\ Len(lines) = 1
        /\ lines # <<>> /\ DOMAIN lines = {1}
        /\ lines[1] = [body |-> body, nl |-> nl, end |-> end]
    BY <1>3 DEF body, end
  <2>5. lines \in Seq(Line)
    BY <2>2, <2>3, <2>4 DEF Line
  <2>6. Size = end
    BY <2>4 DEF Size, LastOf
  <2>7. \A r \in Records : Unseen(r)
    <3> SUFFICES ASSUME NEW r \in Records, In(r, body) PROVE FALSE
      BY <2>4 DEF Unseen
    <3>1. PICK n \in 1..k : body[n][1] = r
      BY <2>2 DEF In
    <3>2. body[n][1] = Legacy
      BY <2>1, <2>2
    <3> QED
      BY <3>1, <3>2, NamesAssumption
  <2>8. TypeOK
    BY <1>1, <2>3, <2>4, <2>5, <2>6, EmptySeq DEF TypeOK, Line, Fresh, Points, NoStamp
  <2>9. LinesOrdered
    BY <2>3, <2>4 DEF LinesOrdered
  <2>10. Chained
    <3> SUFFICES ASSUME NEW r \in Records, lines[1].body = Body(r) PROVE FALSE
      BY <2>4 DEF Chained, Linked
    <3>1. In(r, Body(r))
      BY BodyCells, Zenon
    <3> QED
      BY <2>4, <2>7, <3>1 DEF Unseen
  <2>11. Placed
    BY <2>4, <2>7 DEF Placed
  <2>12. \A s \in Sessions : HandleTrue(handle[s])
    BY <1>1 DEF HandleTrue, Fresh, EndOf, PrevHash
  <2> QED
    BY <1>1, <2>8, <2>9, <2>10, <2>11, <2>12 DEF IInv, Locks, Entries, Kept, Writing
<1> QED
  BY <1>2, <1>3 DEF Init, InitialLogs

LEMMA NextKeeps == TypeOK /\ IInv /\ [Next]_vars => TypeOK' /\ IInv'
<1> SUFFICES ASSUME TypeOK, IInv, [Next]_vars PROVE TypeOK' /\ IInv'
  OBVIOUS
<1>1. ASSUME NEW t \in Threads, Call(t) \/ Step(t) \/ FlockFails(t) PROVE TypeOK' /\ IInv'
  <2>1. CASE QuietStep(t)
    BY <2>1, QuietSteps
  <2>2. CASE Refresh(t)
    BY <2>2, RefreshStep
  <2>3. CASE WriteCell(t)
    BY <2>3, WriteStep
  <2>4. CASE Commit(t)
    BY <2>4, CommitStep
  <2> QED
    BY <1>1, <2>1, <2>2, <2>3, <2>4 DEF Step, QuietStep
<1>2. ASSUME NEW s \in Sessions, Open(s) \/ Die(s) PROVE TypeOK' /\ IInv'
  BY <1>2, SessionSteps
<1>3. CASE UNCHANGED vars
  <2> USE <1>3 DEF vars
  <2>1. TypeOK'
    BY DEF TypeOK, Size, LastOf
  <2>2. FileInv'
    BY FileKept DEF IInv, FileInv
  <2>3. Locks' /\ Entries'
    BY DEF IInv, Locks, Entries
  <2>4. Writing'
    <3> SUFFICES ASSUME NEW t \in Threads, pc[t] = "write"
                 PROVE  Progress(handle[SessionOf[t]], rec[t], pending[t])'
      BY DEF Writing
    <3>1. Progress(handle[SessionOf[t]], rec[t], pending[t])
      BY DEF IInv, Writing
    <3> QED
      BY <3>1 DEF Progress, Current, Before, Within, Unseen, Open1, PrevHash, Size, LastOf
  <2> QED
    BY <2>1, <2>2, <2>3, <2>4 DEF IInv, FileInv
<1> QED
  BY <1>1, <1>2, <1>3 DEF Next

LEMMA Inductive == Spec => [](TypeOK /\ IInv)
<1>1. Init => TypeOK /\ IInv
  BY InitHolds
<1>2. (TypeOK /\ IInv) /\ [Next]_vars => (TypeOK /\ IInv)'
  BY NextKeeps
<1> QED
  BY <1>1, <1>2, PTL DEF Spec

\* Every handle stays within the file whatever its session missed, fails to
\* write or leaves behind.
THEOREM TypeCorrect == Spec => []TypeOK
BY Inductive, PTL

\* Concurrent sessions and threads, failed appends and crashes never make a
\* whole record break the chain.
THEOREM OnlyTornLinesBreakTheChain == Spec => []OnlyTornLinesBreak
<1>1. IInv => OnlyTornLinesBreak
  BY DEF IInv, Chained, OnlyTornLinesBreak, Breaks
<1> QED
  BY <1>1, Inductive, PTL

\* A record whose write succeeded keeps a line of its own for ever.
THEOREM AckedRecordsStay == Spec => []AckedRecordsKept
<1>1. TypeOK /\ IInv => AckedRecordsKept
  <2> SUFFICES ASSUME TypeOK, IInv, NEW r \in acked
               PROVE  \E i \in DOMAIN lines :
                        /\ lines[i].body = Body(r) /\ lines[i].nl
                        /\ \A j \in DOMAIN lines : In(r, lines[j].body) => j = i
    BY DEF AckedRecordsKept, In
  <2>1. PICK i \in DOMAIN lines : lines[i].body = Body(r) /\ lines[i].nl
    BY DEF IInv, Kept
  <2>2. In(r, Body(r))
    BY BodyCells, Zenon
  <2>3. In(r, lines[i].body) /\ r \in Records
    BY <2>1, <2>2 DEF TypeOK
  <2>4. \A j \in DOMAIN lines : In(r, lines[j].body) => j = i
    BY <2>3 DEF IInv, Placed
  <2> QED
    BY <2>1, <2>4
<1> QED
  BY <1>1, Inductive, PTL

=============================================================================

------------------------------ MODULE AuditLog ------------------------------
(***************************************************************************)
(* The launch audit log of src/audit.rs: several ai-jail sessions append   *)
(* hash-chained records to one history.jsonl.  In a session the main       *)
(* thread and the proxy threads share a handle behind a mutex; sessions    *)
(* exclude each other with flock; a session may die between any two steps. *)
(*                                                                         *)
(* A record's line is two cells and a newline, so that a write can be cut  *)
(* short; the file is the lines those cells make.  A hash is the body it   *)
(* is taken of (SHA-256 without collisions), and an Option is a set of at  *)
(* most one value.                                                         *)
(***************************************************************************)
EXTENDS Integers, Sequences, FiniteSets

CONSTANTS Sessions, Threads,
          SessionOf,    \* the session of each thread
          Records,      \* the entries that are passed to record(), each once
          Legacy,       \* an unchained line of an ai-jail 2.x log
          NoThread, NoSession, NoRecord

ASSUME SessionAssumption == SessionOf \in [Threads -> Sessions]
ASSUME NamesAssumption ==
    /\ NoThread \notin Threads /\ NoSession \notin Sessions
    /\ NoRecord \notin Records /\ Legacy \notin Records

Newline == <<NoRecord, 0>>
Cells == (Records \cup {Legacy}) \X {1, 2}
Body(r) == << <<r, 1>>, <<r, 2>> >>
NoStamp == [seq |-> -1, prev |-> {}]
Fresh == [offset |-> 0, prev |-> {}, seq |-> 0, needsNewline |-> FALSE]
Points == {"idle", "mutex", "flock", "refresh", "write", "release", "return"}

VARIABLES
    lines,      \* history.jsonl: each line's body, whether a newline ends it, where it ends
    alive,      \* the sessions that have the log open
    handle,     \* ChainState of each session
    mutex,      \* AuditLog::chain: the thread that holds it
    flock,      \* the session that holds the file lock
    pc, rec,    \* each thread in record(), and its entry
    pending,    \* what write_all still has to write
    stamp,      \* the chain fields put into each record
    given,      \* entries passed to record() so far
    acked       \* records whose write succeeded

vars == <<lines, alive, handle, mutex, flock, pc, rec, pending, stamp, given, acked>>

LastOf(ls) == ls[Len(ls)]
Size == IF lines = <<>> THEN 0 ELSE LastOf(lines).end

TypeOK ==
    /\ lines \in Seq([body : Seq(Cells), nl : BOOLEAN, end : Nat])
    /\ alive \subseteq Sessions
    /\ handle \in [Sessions -> [offset : 0..Size, prev : SUBSET Seq(Cells),
                              seq : 0..Len(lines), needsNewline : BOOLEAN]]
    /\ mutex \in [Sessions -> Threads \cup {NoThread}]
    /\ flock \in Sessions \cup {NoSession}
    /\ pc \in [Threads -> Points]
    /\ rec \in [Threads -> Records \cup {NoRecord}]
    /\ pending \in [Threads -> Seq(Cells \cup {Newline})]
    /\ stamp \in [Records -> [seq : Nat \cup {-1}, prev : SUBSET Seq(Cells)]]
    /\ given \subseteq Records
    /\ acked \subseteq given

\* No log yet, or one an older ai-jail left: a whole line or a torn tail.
InitialLogs ==
    {<<>>} \cup {<<[body |-> SubSeq(Body(Legacy), 1, k), nl |-> nl, end |-> IF nl THEN k + 1 ELSE k]>> :
                     k \in 1..2, nl \in BOOLEAN}

Init ==
    /\ lines \in InitialLogs
    /\ alive = {}
    /\ handle = [s \in Sessions |-> Fresh]
    /\ mutex = [s \in Sessions |-> NoThread]
    /\ flock = NoSession
    /\ pc = [t \in Threads |-> "idle"]
    /\ rec = [t \in Threads |-> NoRecord]
    /\ pending = [t \in Threads |-> <<>>]
    /\ stamp = [r \in Records |-> NoStamp]
    /\ given = {}
    /\ acked = {}

Goto(t, point) == pc' = [pc EXCEPT ![t] = point]

----------------------------------------------------------------------------
\* Sessions.

Open(s) ==
    /\ s \notin alive
    /\ alive' = alive \cup {s}
    /\ handle' = [handle EXCEPT ![s] = Fresh]
    /\ UNCHANGED <<lines, mutex, flock, pc, rec, pending, stamp, given, acked>>

\* The process ends, whatever its threads were doing (the main thread exits
\* without joining the proxy's); the kernel drops its file lock.
Die(s) ==
    /\ s \in alive
    /\ alive' = alive \ {s}
    /\ mutex' = [mutex EXCEPT ![s] = NoThread]
    /\ flock' = IF flock = s THEN NoSession ELSE flock
    /\ pc' = [t \in Threads |-> IF SessionOf[t] = s THEN "idle" ELSE pc[t]]
    /\ rec' = [t \in Threads |-> IF SessionOf[t] = s THEN NoRecord ELSE rec[t]]
    /\ pending' = [t \in Threads |-> IF SessionOf[t] = s THEN <<>> ELSE pending[t]]
    /\ UNCHANGED <<lines, handle, stamp, given, acked>>

----------------------------------------------------------------------------
\* AuditLog::record.

Call(t) ==
    /\ pc[t] = "idle"
    /\ SessionOf[t] \in alive
    /\ \E r \in Records \ given :
         /\ rec' = [rec EXCEPT ![t] = r]
         /\ given' = given \cup {r}
    /\ Goto(t, "mutex")
    /\ UNCHANGED <<lines, alive, handle, mutex, flock, pending, stamp, acked>>

\* A handle its threads share without a mutex.
TakeShared(t) ==
    /\ pc[t] = "mutex"
    /\ mutex' = [mutex EXCEPT ![SessionOf[t]] = t]
    /\ Goto(t, "flock")
    /\ UNCHANGED <<lines, alive, handle, flock, rec, pending, stamp, given, acked>>

TakeMutex(t) ==
    /\ pc[t] = "mutex"
    /\ mutex[SessionOf[t]] = NoThread
    /\ mutex' = [mutex EXCEPT ![SessionOf[t]] = t]
    /\ Goto(t, "flock")
    /\ UNCHANGED <<lines, alive, handle, flock, rec, pending, stamp, given, acked>>

\* AppendLock::acquire.  The lock belongs to the open file, so it does not
\* exclude a thread of the session that holds it.
TakeFlock(t) ==
    /\ pc[t] = "flock"
    /\ flock \in {NoSession, SessionOf[t]}
    /\ flock' = SessionOf[t]
    /\ Goto(t, "refresh")
    /\ UNCHANGED <<lines, alive, handle, mutex, rec, pending, stamp, given, acked>>

FlockFails(t) ==
    /\ pc[t] = "flock"
    /\ Goto(t, "return")
    /\ UNCHANGED <<lines, alive, handle, mutex, flock, rec, pending, stamp, given, acked>>

\* What a reader that starts at an offset finds: the lines that end after it,
\* the first of them perhaps only in part.
Unread(offset) == {i \in DOMAIN lines : lines[i].end > offset}
Start(i) == IF i = 1 THEN 0 ELSE lines[i - 1].end
ReadBody(i, offset) ==
    LET from == IF offset > Start(i) THEN offset - Start(i) ELSE 0
    IN  SubSeq(lines[i].body, from + 1, Len(lines[i].body))

\* A refresh that only rescans after a truncation.
RefreshedOnward(h) ==
    LET restart == Size < h.offset
        offset  == IF restart THEN 0 ELSE h.offset
        unread  == Unread(offset)
    IN  IF Size = h.offset THEN h
        ELSE [offset |-> Size,
              prev |-> IF unread = {} THEN {} ELSE {ReadBody(Len(lines), offset)},
              seq |-> (IF restart THEN 0 ELSE h.seq) + Cardinality(unread),
              needsNewline |-> unread # {} /\ ~LastOf(lines).nl]

\* ChainState::refresh: nothing when the size is the offset; from the start
\* after a truncation or an unterminated tail; else only the new bytes.
Refreshed(h) ==
    LET restart == Size < h.offset \/ h.needsNewline
        offset  == IF restart THEN 0 ELSE h.offset
        unread  == Unread(offset)
    IN  IF Size = h.offset THEN h
        ELSE [offset |-> Size,
              prev |-> IF unread = {} THEN {} ELSE {ReadBody(Len(lines), offset)},
              seq |-> (IF restart THEN 0 ELSE h.seq) + Cardinality(unread),
              needsNewline |-> unread # {} /\ ~LastOf(lines).nl]

\* The bytes of one append: a torn tail is terminated first.
Entry(h, r) ==
    LET line == << <<r, 1>>, <<r, 2>>, Newline >>
    IN  IF h.needsNewline THEN <<Newline>> \o line ELSE line

\* Refresh the handle, put the chain fields into the entry and serialize it.
Refresh(t) ==
    /\ pc[t] = "refresh"
    /\ LET s == SessionOf[t]
           h == Refreshed(handle[s])
       IN  /\ handle' = [handle EXCEPT ![s] = h]
           /\ stamp' = [stamp EXCEPT ![rec[t]] = [seq |-> h.seq, prev |-> h.prev]]
           /\ pending' = [pending EXCEPT ![t] = Entry(h, rec[t])]
    /\ Goto(t, "write")
    /\ UNCHANGED <<lines, alive, mutex, flock, rec, given, acked>>

RefreshFails(t) ==
    /\ pc[t] = "refresh"
    /\ Goto(t, "release")
    /\ UNCHANGED <<lines, alive, handle, mutex, flock, rec, pending, stamp, given, acked>>

\* The file with one more cell (the descriptor is O_APPEND).
Appended(cell) ==
    LET open  == lines # <<>> /\ ~LastOf(lines).nl
        kept  == IF open THEN SubSeq(lines, 1, Len(lines) - 1) ELSE lines
        tail  == IF open THEN LastOf(lines) ELSE [body |-> <<>>, nl |-> FALSE, end |-> Size]
    IN  Append(kept, [body |-> IF cell = Newline THEN tail.body ELSE Append(tail.body, cell),
                      nl   |-> cell = Newline,
                      end  |-> tail.end + 1])

WriteCell(t) ==
    /\ pc[t] = "write"
    /\ pending[t] # <<>>
    /\ lines' = Appended(Head(pending[t]))
    /\ pending' = [pending EXCEPT ![t] = Tail(@)]
    /\ UNCHANGED <<alive, handle, mutex, flock, pc, rec, stamp, given, acked>>

\* An early return that keeps the file lock.
WriteFailsLocked(t) ==
    /\ pc[t] = "write"
    /\ pending[t] # <<>>
    /\ pending' = [pending EXCEPT ![t] = <<>>]
    /\ Goto(t, "return")
    /\ UNCHANGED <<lines, alive, handle, mutex, flock, rec, stamp, given, acked>>

\* write_all gives up (the disk is full) with any part written; the handle
\* keeps what it knew before.
WriteFails(t) ==
    /\ pc[t] = "write"
    /\ pending[t] # <<>>
    /\ pending' = [pending EXCEPT ![t] = <<>>]
    /\ Goto(t, "release")
    /\ UNCHANGED <<lines, alive, handle, mutex, flock, rec, stamp, given, acked>>

Commit(t) ==
    /\ pc[t] = "write"
    /\ pending[t] = <<>>
    /\ handle' = [handle EXCEPT ![SessionOf[t]] =
         [offset |-> @.offset + Len(Entry(@, rec[t])), prev |-> {Body(rec[t])},
          seq |-> @.seq + 1, needsNewline |-> FALSE]]
    /\ acked' = acked \cup {rec[t]}
    /\ Goto(t, "release")
    /\ UNCHANGED <<lines, alive, mutex, flock, rec, pending, stamp, given>>

\* AppendLock drops, then the mutex guard.
ReleaseFlock(t) ==
    /\ pc[t] = "release"
    /\ flock' = NoSession
    /\ Goto(t, "return")
    /\ UNCHANGED <<lines, alive, handle, mutex, rec, pending, stamp, given, acked>>

Return(t) ==
    /\ pc[t] = "return"
    /\ mutex' = [mutex EXCEPT ![SessionOf[t]] = NoThread]
    /\ rec' = [rec EXCEPT ![t] = NoRecord]
    /\ Goto(t, "idle")
    /\ UNCHANGED <<lines, alive, handle, flock, pending, stamp, given, acked>>

Step(t) ==
    \/ TakeMutex(t) \/ TakeFlock(t)
    \/ Refresh(t) \/ RefreshFails(t)
    \/ WriteCell(t) \/ WriteFails(t) \/ Commit(t)
    \/ ReleaseFlock(t) \/ Return(t)

Next ==
    \/ \E t \in Threads : Call(t) \/ Step(t) \/ FlockFails(t)
    \/ \E s \in Sessions : Open(s) \/ Die(s)

Spec == Init /\ [][Next]_vars

\* Threads run; neither lock promises to be fair, and nobody is promised an error
\* that ends a wait.
FairSpec == Spec /\ \A t \in Threads : WF_vars(Step(t))

----------------------------------------------------------------------------
\* verify: a line breaks the chain when it is no record, or when its fields
\* are not its index and the hash of the line before it.
PrevHash(i) == IF i = 1 THEN {} ELSE {lines[i - 1].body}
Parses(body) == \E r \in Records \cup {Legacy} : body = Body(r)
Linked(i) ==
    \A r \in Records : lines[i].body = Body(r) => stamp[r] = [seq |-> i - 1, prev |-> PrevHash(i)]
Breaks == {i \in DOMAIN lines : ~(Parses(lines[i].body) /\ Linked(i))}

----------------------------------------------------------------------------
\* Correctness.

\* The verifier finds fault only with lines that were torn: whatever sessions
\* and threads append concurrently, fail halfway or die, every whole record
\* links to the line in front of it, on the handle that wrote it or another.
OnlyTornLinesBreak == \A i \in Breaks : ~Parses(lines[i].body)

\* A record whose write succeeded is in the log, on a line of its own and
\* once: no other append glues onto it, splits it or terminates it early.
AckedRecordsKept ==
    \A r \in acked : \E i \in DOMAIN lines :
        /\ lines[i].body = Body(r) /\ lines[i].nl
        /\ \A j \in DOMAIN lines : (\E k \in DOMAIN lines[j].body : lines[j].body[k][1] = r) => j = i

\* Logging never holds a session up: a thread that enters record() leaves it,
\* whoever held the two locks and however its own append fails.
RecordReturns == \A t \in Threads : pc[t] # "idle" ~> pc[t] = "idle"
=============================================================================

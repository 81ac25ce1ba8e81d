------------------------ MODULE TerminalLoopProofs ------------------------
(***************************************************************************)
(* Theorems about the PTY proxy and the layout of its status bar, for any  *)
(* set of launches, sizes, read size and queue capacities, and for rows of *)
(* any width.                                                              *)
(***************************************************************************)
EXTENDS TerminalLoop, FiniteSetTheorems, SequenceTheorems, TLAPS

(* What the sizes are worth at each point of the loop when no resize is on   *)
(* its way: the bar from its set-up on, the content and the PTY once they    *)
(* were measured, and the PTY last in a resize.                              *)
BarAt     == active => bar.row = term
ContentAt == content = Content(term) /\ BarAt
AllAt     == ContentAt /\ ptyRows = content
Calm == ~winch /\ ~sig /\ Fits(term)
SizesByPoint ==
    Calm => /\ pc \in {"build", "measure"} => BarAt
            /\ pc = "resize" => ContentAt
            /\ pc \in {"raw", "spawn", "winch", "poll", "read", "reply", "render", "flush",
                       "key", "stdin"} => AllAt
BarWanted == active => opt.bar
SizeTypes == term \in Sizes /\ winch \in BOOLEAN /\ sig \in BOOLEAN /\ opt.bar \in BOOLEAN

SizeInv == SizeTypes /\ BarWanted /\ SizesByPoint

LEMMA SizeInvInit == Init => SizeInv
  BY OptionsAssumption DEF Init, SizeInv, SizeTypes, BarWanted, SizesByPoint

(* A bar that is drawn on a row that fits shows on the last row.             *)
LEMMA DrawnOnLastRow ==
  ASSUME SizeTypes, BarWanted, Fits(term)
  PROVE  active => DrawnBar.row = term
  <1>1. term \in Nat  BY SizesAssumption DEF SizeTypes
  <1>2. active => term >= 2
    BY <1>1 DEF Fits, Reserved, BarWanted
  <1> QED BY <1>2 DEF DrawnBar

LEMMA SizeInvNext == SizeInv /\ [Next]_vars => SizeInv'
  <1> SUFFICES ASSUME SizeInv, [Next]_vars PROVE SizeInv'  OBVIOUS
  <1> USE DEF SizeInv
  <1>1. CASE UNCHANGED vars
    BY <1>1 DEF vars, sizes, bars, screen, pty, user, SizeTypes, BarWanted,
       SizesByPoint, Calm,
       BarAt, ContentAt, AllAt, Fits, Content, Reserved
  <1>2. CASE Setup
    <2>1. active' => bar'.row = term'
      BY <1>2 DEF Setup, sizes
    <2>2. BarWanted' /\ SizeTypes'
      BY <1>2 DEF Setup, sizes, BarWanted, SizeTypes
    <2> QED BY <1>2, <2>1, <2>2 DEF Setup, sizes, SizesByPoint, BarAt
  <1>3. CASE Build
    BY <1>3 DEF Build, sizes, bars, SizeTypes, BarWanted, SizesByPoint, Calm,
       BarAt, ContentAt, AllAt, Fits, Content, Reserved
  <1>4. CASE Measure
    BY <1>4 DEF Measure, bars, SizeTypes, BarWanted, SizesByPoint, Calm,
       BarAt, ContentAt, AllAt, Fits, Content, Reserved
  <1>5. CASE EnterRaw
    BY <1>5 DEF EnterRaw, sizes, bars, SizeTypes, BarWanted, SizesByPoint, Calm,
       BarAt, ContentAt, AllAt, Fits, Content, Reserved
  <1>6. CASE Spawn
    BY <1>6 DEF Spawn, sizes, bars, SizeTypes, BarWanted, SizesByPoint, Calm,
       BarAt, ContentAt, AllAt, Fits, Content, Reserved
  <1>7. CASE TakeWinch
    BY <1>7 DEF TakeWinch, bars, SizeTypes, BarWanted, SizesByPoint, Calm,
       BarAt, ContentAt, AllAt, Fits, Content, Reserved
  <1>8. CASE Repaint
    <2>1. SizeTypes' /\ BarWanted'
      BY <1>8 DEF Repaint, SizeTypes, BarWanted
    <2>2. CASE Fits(term)
      <3>1. active' => bar'.row = term'
        BY <1>8, <2>2, DrawnOnLastRow DEF Repaint, BarWanted
      <3>2. content' = Content(term)'
        BY <1>8, <2>2 DEF Repaint, Content, Reserved
      <3> QED BY <1>8, <2>1, <2>2, <3>1, <3>2 DEF Repaint, SizesByPoint, ContentAt, BarAt
    <2>3. CASE ~Fits(term)
      BY <1>8, <2>1, <2>3 DEF Repaint, SizesByPoint, Calm, Fits, Reserved
    <2> QED BY <2>2, <2>3
  <1>9. CASE ResizePty
    <2>1. SizeTypes' /\ BarWanted'
      BY <1>9 DEF ResizePty, SizeTypes, BarWanted
    <2>2. Calm' => Calm /\ ptyRows' = Content(term)
      BY <1>9 DEF ResizePty, Calm, Fits, Reserved
    <2>3. Calm' => ContentAt'
      BY <1>9, <2>2 DEF ResizePty, SizesByPoint, ContentAt, BarAt, Content, Reserved
    <2>4. Calm' => ptyRows' = content'
      BY <1>9, <2>2 DEF ResizePty, SizesByPoint, ContentAt
    <2> QED BY <1>9, <2>1, <2>3, <2>4 DEF ResizePty, SizesByPoint, AllAt
  <1>10. CASE Poll
    BY <1>10 DEF Poll, sizes, SizeTypes, BarWanted, SizesByPoint, Calm,
       BarAt, ContentAt, AllAt, Fits, Content, Reserved
  <1>11. CASE PollInterrupted
    BY <1>11 DEF PollInterrupted, SizeTypes, BarWanted, SizesByPoint, Calm
  <1>12. CASE ReadMaster
    <2>1. /\ pc = "read" /\ pc' \in {"reply", "render"}
          /\ UNCHANGED <<opt, sizes, bars>>
      BY <1>12 DEF ReadMaster
    <2> QED BY <2>1 DEF sizes, bars, SizeTypes, BarWanted, SizesByPoint, Calm,
       BarAt, ContentAt, AllAt, Fits, Content, Reserved
  <1>13. CASE Reply
    <2>1. /\ pc = "reply" /\ pc' = "render" /\ UNCHANGED <<opt, term, content, ptyRows, bars>>
          /\ UNCHANGED <<sig, winch>> \/ (sig' = FALSE /\ winch' = TRUE)
      BY <1>13 DEF Reply, WriteToChild, Interrupted
    <2> QED BY <2>1 DEF bars, SizeTypes, BarWanted, SizesByPoint, Calm,
       BarAt, ContentAt, AllAt, Fits, Content, Reserved
  <1>14. CASE Render
    <2>1. /\ pc = "render" /\ pc' = "flush"
          /\ UNCHANGED <<opt, sizes, active, bar>>
      BY <1>14 DEF Render
    <2> QED BY <2>1 DEF sizes, SizeTypes, BarWanted, SizesByPoint, Calm,
       BarAt, ContentAt, AllAt, Fits, Content, Reserved
  <1>15. CASE HangUp
    BY <1>15 DEF HangUp, sizes, SizeTypes, BarWanted, SizesByPoint
  <1>16. CASE Idle
    <2>1. /\ pc = "flush" /\ pc' \in {"key", "stdin"}
          /\ UNCHANGED <<opt, sizes, active>> /\ bar' \in {bar, DrawnBar}
      BY <1>16 DEF Idle
    <2>2. SizeTypes' /\ BarWanted'
      BY <2>1 DEF sizes, SizeTypes, BarWanted
    <2>3. Calm' => AllAt /\ Fits(term)
      BY <2>1 DEF sizes, SizesByPoint, Calm, Fits, Reserved
    <2>4. Calm' => (active' => bar'.row = term')
      BY <2>1, <2>3, DrawnOnLastRow DEF sizes, AllAt, ContentAt, BarAt
    <2> QED BY <2>1, <2>2, <2>3, <2>4 DEF sizes, SizesByPoint, AllAt, ContentAt,
       BarAt, Content,
            Reserved
  <1>17. CASE InjectKey
    <2>1. /\ pc = "key" /\ pc' = "stdin"
          /\ UNCHANGED <<opt, term, content, ptyRows, active, bar>>
          /\ UNCHANGED <<sig, winch>> \/ (sig' = FALSE /\ winch' = TRUE)
      BY <1>17 DEF InjectKey, WriteToChild, Interrupted
    <2> QED BY <2>1 DEF SizeTypes, BarWanted, SizesByPoint, Calm,
       BarAt, ContentAt, AllAt, Fits, Content, Reserved
  <1>18. CASE ReadStdin
    <2>1. /\ pc = "stdin" /\ pc' \in {"winch", "leave"}
          /\ UNCHANGED <<opt, term, content, ptyRows, active, bar>>
          /\ UNCHANGED <<sig, winch>> \/ (sig' = FALSE /\ winch' = TRUE)
      <3>1. CASE pc' = "winch" /\ UNCHANGED <<typed, in, sig, winch>>
        BY <1>18, <3>1 DEF ReadStdin, bars
      <3>2. CASE pc' = "leave" /\ UNCHANGED <<typed, in, sig, winch>>
        BY <1>18, <3>2 DEF ReadStdin, bars
      <3>3. CASE pc' = "winch" /\ IF Accepted THEN WriteToChild ELSE UNCHANGED <<in, sig, winch>>
        BY <1>18, <3>3 DEF ReadStdin, bars, WriteToChild, Interrupted
      <3> QED BY <1>18, <3>1, <3>2, <3>3 DEF ReadStdin, bars
    <2>2. SizeTypes' /\ BarWanted'
      BY <2>1 DEF SizeTypes, BarWanted
    <2>3. Calm' => Calm
      BY <2>1 DEF Calm, Fits, Reserved
    <2>4. Calm => AllAt
      BY <2>1 DEF SizesByPoint
    <2>5. AllAt /\ Calm' => AllAt'
      BY <2>1 DEF AllAt, ContentAt, BarAt, Content, Reserved
    <2> QED BY <2>1, <2>2, <2>3, <2>4, <2>5 DEF SizesByPoint
  <1>19. CASE Leave \/ WaitChild
    BY <1>19 DEF Leave, WaitChild, sizes, bars, SizeTypes, BarWanted, SizesByPoint
  <1>20. CASE Teardown
    BY <1>20 DEF Teardown, sizes, SizeTypes, BarWanted, SizesByPoint
  <1>21. CASE Resize
    BY <1>21 DEF Resize, bars, SizeTypes, BarWanted, SizesByPoint, Calm
  <1>22. CASE HandleWinch
    BY <1>22 DEF HandleWinch, bars, SizeTypes, BarWanted, SizesByPoint, Calm
  <1>23. CASE Tick
    BY <1>23 DEF Tick, sizes, SizeTypes, BarWanted, SizesByPoint, Calm,
       BarAt, ContentAt, AllAt, Fits, Content, Reserved
  <1>24. CASE Checked \/ RequestRedraw \/ ChildWrites \/ ChildReads \/ ChildExits \/ Types
    <2>1. UNCHANGED <<pc, opt, sizes, active, bar>>
      BY <1>24 DEF Checked, RequestRedraw, ChildWrites, ChildReads, ChildExits,
         Types, bars
    <2> QED BY <2>1 DEF sizes, SizeTypes, BarWanted, SizesByPoint, Calm,
       BarAt, ContentAt, AllAt, Fits, Content, Reserved
  <1> QED
    BY <1>1, <1>2, <1>3, <1>4, <1>5, <1>6, <1>7, <1>8, <1>9, <1>10, <1>11, <1>12,
       <1>13, <1>14,
       <1>15, <1>16, <1>17, <1>18, <1>19, <1>20, <1>21, <1>22, <1>23, <1>24
       DEF Next, Proxy, Others

(* Between two turns of the loop the screen, the PTY and the bar have the    *)
(* terminal's size, wherever resizes fall, for any sizes and any child.      *)
THEOREM SizesStayInStep == Spec => []SizesAgree
  <1>1. SizeInv => SizesAgree
    BY DEF SizeInv, SizesByPoint, Calm, AllAt, ContentAt, BarAt, SizesAgree
  <1> QED BY <1>1, SizeInvInit, SizeInvNext, PTL DEF Spec

------------------------------------------------------------------------------
(* Questions and titles, with filtered output.  Nothing is owed but between  *)
(* a read and its reply, and the forwarder is given every byte the scanner   *)
(* of questions is given.                                                    *)
Owing ==
    ~opt.passthrough =>
        /\ pc = "reply" => owed = Questions(scan, chunk)
        /\ pc # "reply" => owed = 0
SameBytes == ~opt.passthrough => osc = scan
OutTyped == out \in Seq(Bytes) /\ chunk \in Seq(Bytes)
Followed == opt.passthrough \in BOOLEAN /\ OutTyped /\ Owing /\ SameBytes

LEMMA QuestionsAreCounted ==
  ASSUME NEW s, NEW bs, Len(bs) \in Nat
  PROVE  Questions(s, bs) \in Nat
  <1> DEFINE Asked == {i \in 1..Len(bs) : bs[i] = "ask2" /\ Along(s, bs)[i - 1] = "ask"}
  <1>1. IsFiniteSet(1..Len(bs))  BY FS_Interval
  <1>2. IsFiniteSet(Asked)  BY <1>1, FS_Subset
  <1>3. Cardinality(Asked) \in Nat  BY <1>2, FS_CardinalityType
  <1> QED BY <1>3 DEF Questions

LEMMA FollowedInit == Init => Followed
  BY OptionsAssumption DEF Init, Followed, Owing, SameBytes, OutTyped

LEMMA FollowedNext == Followed /\ [Next]_vars => Followed'
  <1> SUFFICES ASSUME Followed, [Next]_vars PROVE Followed'  OBVIOUS
  <1> USE DEF Followed
  <1>1. CASE ReadMaster
    <2> DEFINE n  == IF Len(out) < ReadSize THEN Len(out) ELSE ReadSize
               bs == SubSeq(out, 1, n)
    <2>1. n \in Nat /\ n <= Len(out) /\ Len(out) \in Nat
      BY BoundsAssumption DEF OutTyped
    <2> HIDE DEF n
    <2>2. bs \in Seq(Bytes) /\ Len(bs) \in Nat
      BY <2>1, SubSeqProperties DEF OutTyped
    <2>3. SubSeq(out, n + 1, Len(out)) \in Seq(Bytes)
      BY <2>1, SubSeqProperties DEF OutTyped
    <2>4. Questions(scan, bs) \in Nat
      BY <2>2, QuestionsAreCounted
    <2>5. /\ pc = "read" /\ chunk' = bs /\ out' = SubSeq(out, n + 1, Len(out))
          /\ owed' = owed + Questions(scan, bs)
          /\ pc' = IF Questions(scan, bs) > 0 /\ ~Raw(bs) THEN "reply" ELSE "render"
          /\ UNCHANGED <<opt, scan, osc>>
      BY <1>1 DEF ReadMaster, n, sizes
    <2> HIDE DEF bs
    <2>6. ~opt.passthrough => ~Raw(bs)
      BY DEF Raw
    <2>7. ~opt.passthrough => owed = 0
      BY <2>5 DEF Owing
    <2>8. OutTyped' /\ SameBytes'
      BY <2>2, <2>3, <2>5 DEF OutTyped, SameBytes
    <2>9. ~opt.passthrough => owed' = Questions(scan, bs)
      BY <2>4, <2>5, <2>7
    <2>10. ~opt.passthrough /\ pc' # "reply" => Questions(scan, bs) = 0
      BY <2>4, <2>5, <2>6
    <2>11. Owing'
      BY <2>5, <2>9, <2>10 DEF Owing
    <2> QED BY <2>5, <2>8, <2>11
  <1>2. CASE Reply
    <2>1. /\ pc = "reply" /\ pc' = "render" /\ owed' = owed - Questions(scan, chunk)
          /\ UNCHANGED <<opt, scan, osc, out, chunk>>
      BY <1>2 DEF Reply
    <2>2. Questions(scan, chunk) \in Nat
      BY QuestionsAreCounted DEF OutTyped
    <2> HIDE DEF Followed
    <2>3. ~opt.passthrough => owed = Questions(scan, chunk)
      BY <2>1 DEF Followed, Owing
    <2>4. ~opt.passthrough => owed' = 0
      BY <2>1, <2>2, <2>3
    <2> QED BY <2>1, <2>4 DEF Followed, Owing, SameBytes, OutTyped
  <1>3. CASE Render
    <2>1. /\ pc = "render" /\ pc' = "flush" /\ UNCHANGED <<opt, out>> /\ chunk' = <<>>
          /\ scan' = After(scan, chunk)
          /\ ~opt.passthrough => osc' = After(osc, chunk) /\ owed' = owed
      BY <1>3 DEF Render, ForwarderAfter, Raw
    <2> QED BY <2>1 DEF Owing, SameBytes, OutTyped
  <1>4. CASE HangUp
    <2>1. pc = "flush" /\ pc' = "leave" /\ out' = <<>>
          /\ UNCHANGED <<opt, scan, osc, owed, chunk>>
      BY <1>4 DEF HangUp, screen
    <2> QED BY <2>1 DEF Owing, SameBytes, OutTyped
  <1>5. CASE ChildWrites
    <2>1. /\ UNCHANGED <<pc, opt, scan, osc, owed, chunk>>
          /\ \E b \in Bytes : out' = Append(out, b)
      BY <1>5 DEF ChildWrites, screen
    <2>2. out' \in Seq(Bytes)
      BY <2>1 DEF OutTyped
    <2> QED BY <2>1, <2>2 DEF Owing, SameBytes, OutTyped
  <1>6. ASSUME UNCHANGED <<opt, scan, osc, owed, chunk, out>>,
               (pc # "reply" /\ pc' # "reply") \/ pc' = pc
        PROVE  Followed'
    BY <1>6 DEF Owing, SameBytes, OutTyped
  <1>7. CASE Setup \/ Build \/ Measure \/ EnterRaw \/ Spawn \/ TakeWinch
    BY <1>7, <1>6 DEF Setup, Build, Measure, EnterRaw, Spawn, TakeWinch, screen, pty
  <1>8. CASE Repaint \/ ResizePty \/ Poll \/ PollInterrupted
    BY <1>8, <1>6 DEF Repaint, ResizePty, Poll, PollInterrupted, screen, pty
  <1>9. CASE Idle \/ InjectKey \/ ReadStdin
    BY <1>9, <1>6 DEF Idle, InjectKey, ReadStdin, screen, pty
  <1>10. CASE Leave \/ WaitChild \/ Teardown
    BY <1>10, <1>6 DEF Leave, WaitChild, Teardown, screen, pty
  <1>11. CASE Resize \/ HandleWinch \/ Tick \/ Checked \/ RequestRedraw \/ ChildReads
              \/ ChildExits \/ Types
    BY <1>11, <1>6 DEF Resize, HandleWinch, Tick, Checked, RequestRedraw, ChildReads,
       ChildExits,
       Types, screen, pty
  <1>12. CASE UNCHANGED vars
    BY <1>12, <1>6 DEF vars, screen, pty
  <1> QED
    BY <1>1, <1>2, <1>3, <1>4, <1>5, <1>7, <1>8, <1>9, <1>10, <1>11, <1>12 DEF Next,
       Proxy, Others

(* With filtered output every question has been answered (or its answer      *)
(* given up to a signal) when the loop waits again, however reads cut it.    *)
THEOREM QuestionsAreAnswered == Spec => []AllAnswered
  <1>1. Followed => AllAnswered
    BY DEF Followed, Owing, AllAnswered
  <1> QED BY <1>1, FollowedInit, FollowedNext, PTL DEF Spec

(* With filtered output the forwarder of titles is where the child's output  *)
(* is, on both screens and across every switch between them.                 *)
THEOREM TitlesStayInStep == Spec => []TitlesInStep
  <1>1. Followed => TitlesInStep
    BY DEF Followed, SameBytes, TitlesInStep
  <1> QED BY <1>1, FollowedInit, FollowedNext, PTL DEF Spec

------------------------------------------------------------------------------
(* The type invariant is inductive.                                          *)
LEMMA TypesNext == TypeOK /\ [Next]_vars => TypeOK'
  <1> SUFFICES ASSUME TypeOK, [Next]_vars PROVE TypeOK'  OBVIOUS
  <1>1. opt.bar \in BOOLEAN /\ term \in Nat \ {0}
    BY OptionsAssumption, SizesAssumption DEF TypeOK
  <1>2. InCap \in Nat /\ OutCap \in Nat /\ MaxEvents \in Nat
    BY BoundsAssumption
  <1>3. CASE Setup
    BY <1>3 DEF Setup, TypeOK, Points, sizes, screen, bars, pty, user
  <1>4. CASE Build
    BY <1>4 DEF Build, TypeOK, Points, sizes, screen, bars, pty, user
  <1>5. CASE Measure
    BY <1>1, <1>5 DEF Measure, TypeOK, Points, sizes, screen, bars, pty, user, Fits,
       Content, Reserved
  <1>6. CASE EnterRaw
    BY <1>6 DEF EnterRaw, TypeOK, Points, sizes, screen, bars, pty, user
  <1>7. CASE Spawn
    BY <1>7 DEF Spawn, TypeOK, Points, sizes, screen, bars, pty, user
  <1>8. CASE TakeWinch
    BY <1>8 DEF TakeWinch, TypeOK, Points, sizes, screen, bars, pty, user
  <1>9. CASE Repaint
    BY <1>1, <1>9 DEF Repaint, TypeOK, Points, sizes, screen, bars, pty, user, Fits,
       Content, Reserved
  <1>10. CASE ResizePty
    BY <1>1, <1>10 DEF ResizePty, TypeOK, Points, sizes, screen, bars, pty, user,
       Fits, Content, Reserved
  <1>11. CASE Poll
    BY <1>11 DEF Poll, TypeOK, Points, sizes, screen, bars, pty, user
  <1>12. CASE PollInterrupted
    BY <1>12 DEF PollInterrupted, TypeOK, Points, sizes, screen, bars, pty, user
  <1>13. CASE ReadMaster
    <2> DEFINE n == IF Len(out) < ReadSize THEN Len(out) ELSE ReadSize
               bs == SubSeq(out, 1, n)
    <2>1. n \in Nat /\ n <= Len(out) /\ Len(out) \in Nat
      BY BoundsAssumption, LenProperties DEF TypeOK
    <2>2. bs \in Seq(Bytes) /\ SubSeq(out, n + 1, Len(out)) \in Seq(Bytes)
          /\ Len(SubSeq(out, n + 1, Len(out))) <= OutCap
      BY <2>1, BoundsAssumption, SubSeqProperties DEF TypeOK
    <2>3. Questions(scan, bs) \in Nat
      BY <2>2, LenProperties, QuestionsAreCounted
    <2>4. /\ chunk' = bs /\ out' = SubSeq(out, n + 1, Len(out))
          /\ owed' = owed + Questions(scan, bs) /\ pc' \in {"reply", "render"}
      BY <1>13 DEF ReadMaster
    <2> HIDE DEF n, bs
    <2>5. owed' \in Int
      BY <2>3, <2>4 DEF TypeOK
    <2>6. UNCHANGED <<opt, term, content, ptyRows, keyAt, up, in, typed, events>>
      BY <1>13 DEF ReadMaster, sizes, bars, user
    <2> QED BY <2>2, <2>4, <2>5, <2>6 DEF TypeOK, Points
  <1>14. CASE Reply
    <2>1. Questions(scan, chunk) \in Nat
      BY LenProperties, QuestionsAreCounted DEF TypeOK
    <2>2. owed' \in Int
      BY <1>14, <2>1 DEF Reply, TypeOK
    <2> QED BY <1>2, <1>14, <2>2 DEF Reply, TypeOK, Points, sizes, screen, bars, pty,
       user, WriteToChild, Interrupted
  <1>15. CASE Render
    <2>1. Questions(host, chunk) \in Nat
      BY LenProperties, QuestionsAreCounted DEF TypeOK
    <2>2. owed' \in Int
      BY <1>15, <2>1 DEF Render, TypeOK
    <2>3. chunk' = <<>> /\ pc' = "flush" /\ keyAt' \in {"off", "armed"}
      BY <1>15 DEF Render
    <2>4. UNCHANGED <<opt, term, content, ptyRows, up, out, in, typed, events>>
      BY <1>15 DEF Render, sizes, user
    <2>5. <<>> \in Seq(Bytes)
      OBVIOUS
    <2> QED BY <2>2, <2>3, <2>4, <2>5 DEF TypeOK, Points
  <1>16. CASE HangUp
    BY <1>2, <1>16 DEF HangUp, TypeOK, Points, sizes, screen, user
  <1>17. CASE Idle
    BY <1>17 DEF Idle, TypeOK, Points, sizes, screen, bars, pty, user
  <1>18. CASE InjectKey
    BY <1>2, <1>18 DEF InjectKey, TypeOK, Points, sizes, screen, bars, pty, user,
       WriteToChild, Interrupted
  <1>19. CASE ReadStdin
    BY <1>2, <1>19 DEF ReadStdin, TypeOK, Points, sizes, screen, bars, pty, user,
       Nothing, WriteToChild, Interrupted
  <1>20. CASE Leave
    BY <1>20 DEF Leave, TypeOK, Points, sizes, screen, bars, pty, user
  <1>21. CASE WaitChild
    BY <1>21 DEF WaitChild, TypeOK, Points, sizes, screen, bars, pty, user
  <1>22. CASE Teardown
    BY <1>22 DEF Teardown, TypeOK, Points, sizes, screen, bars, pty, user, Undrawn
  <1>23. CASE Resize
    BY <1>2, <1>23 DEF Resize, TypeOK, Points, sizes, screen, bars, pty, user, Happens
  <1>24. CASE HandleWinch
    BY <1>24 DEF HandleWinch, TypeOK, Points, sizes, screen, bars, pty, user
  <1>25. CASE Tick
    BY <1>25 DEF Tick, TypeOK, Points, sizes, screen, bars, pty, user
  <1>26. CASE Checked
    BY <1>2, <1>26 DEF Checked, TypeOK, Points, sizes, screen, bars, pty, user, Happens
  <1>27. CASE RequestRedraw
    BY <1>27 DEF RequestRedraw, TypeOK, Points, sizes, screen, bars, pty, user
  <1>28. CASE ChildWrites
    <2>1. PICK b \in Bytes : out' = Append(out, b)
      BY <1>28 DEF ChildWrites
    <2>2. out' \in Seq(Bytes) /\ Len(out') <= OutCap
      BY <1>28, <2>1, AppendProperties, BoundsAssumption DEF ChildWrites, TypeOK
    <2> QED BY <1>2, <1>28, <2>2 DEF ChildWrites, Happens, TypeOK, Points, sizes,
       screen, bars
  <1>29. CASE ChildReads
    BY <1>2, <1>29 DEF ChildReads, TypeOK, Points, sizes, screen, bars, pty, user
  <1>30. CASE ChildExits
    BY <1>30 DEF ChildExits, TypeOK, Points, sizes, screen, bars, pty, user
  <1>31. CASE Types
    BY <1>2, <1>31 DEF Types, TypeOK, Points, sizes, screen, bars, pty, user, Happens
  <1>32. CASE UNCHANGED vars
    BY <1>32 DEF vars, TypeOK, Points, sizes, screen, bars, pty, user
  <1> QED BY <1>3, <1>4, <1>5, <1>6, <1>7, <1>8, <1>9, <1>10, <1>11, <1>12,
     <1>13, <1>14, <1>15, <1>16, <1>17, <1>18, <1>19, <1>20, <1>21, <1>22,
     <1>23, <1>24, <1>25, <1>26, <1>27, <1>28, <1>29, <1>30, <1>31, <1>32
     DEF Next, Proxy, Others

(* Every variable of the proxy stays in its type and every queue in its      *)
(* capacity (src/pty.rs).                                                    *)
THEOREM ProxyIsTyped == Spec => []TypeOK
  <1>1. Init => TypeOK
    BY SizesAssumption, BoundsAssumption DEF Init, TypeOK, Points, Nothing, Undrawn
  <1> QED BY <1>1, TypesNext, PTL DEF Spec

------------------------------------------------------------------------------
(* The layout of the bar, for rows and texts of any length.                  *)
LEMMA RowFits ==
  ASSUME NEW cols \in Nat, cols >= 2, NEW right \in Nat, NEW dir \in Nat, NEW cmd \in Nat,
         NEW seg \in Int, seg >= -1, seg < dir
  PROVE  FitsAt(cols, right, dir, seg, cmd)
  <1> DEFINE budget == LeftBudget(cols, right)
             d      == DirWidth(budget, dir, seg)
             c      == CmdWidth(Minus(budget, d), cmd)
  <1>1. /\ budget \in Nat
        /\ ShowRight(cols, right) => budget + 1 <= Target(cols, right)
        /\ ~ShowRight(cols, right) => budget + 1 <= Target(cols, right)
        /\ Target(cols, right) \in Nat
    BY DEF LeftBudget, ShowRight, Usable, Minus, Target
  <1> HIDE DEF budget
  <1>2. d \in Nat /\ d <= budget
    BY <1>1 DEF DirWidth
  <1> HIDE DEF d
  <1>3. c \in Nat /\ d + c <= budget
    BY <1>1, <1>2 DEF CmdWidth, Minus
  <1>4. LeftWidth(cols, right, dir, seg, cmd) = 1 + d + c
    BY DEF LeftWidth, budget, d
  <1> HIDE DEF c
  <1>5. LeftWidth(cols, right, dir, seg, cmd) <= Target(cols, right)
    BY <1>1, <1>2, <1>3, <1>4
  <1>6. AtLeast(LeftWidth(cols, right, dir, seg, cmd), Target(cols, right)) = Target(cols, right)
    BY <1>1, <1>2, <1>3, <1>4, <1>5 DEF AtLeast
  <1>7. RowWidth(cols, right, dir, seg, cmd) = cols - 1
    BY <1>6 DEF RowWidth, Target, ShowRight, Usable, Minus, AtLeast
  <1>8. budget > 1 /\ dir > budget =>
            /\ seg >= 0 /\ seg + 2 > budget => SliceLength(budget) <= seg
            /\ SliceLength(budget) <= dir
    BY <1>1 DEF SliceLength
  <1> QED BY <1>5, <1>7, <1>8 DEF FitsAt, budget

LEMMA RightIsCounted ==
  ASSUME NEW ssh \in BOOLEAN, NEW pics \in BOOLEAN, NEW ro \in Nat, NEW rw \in Nat,
         NEW ver \in Nat, NEW update \in BOOLEAN
  PROVE  Right(Badges(ssh, pics, ro, rw), ver, update) \in Nat
  <1>1. \A n : Digits(n) \in Nat
    BY DEF Digits
  <1>2. Badges(ssh, pics, ro, rw) \in Nat
    BY <1>1 DEF Badges
  <1> QED BY <1>2 DEF Right

(* What the bar shows of a newer release is yes or no.                       *)
BarTyped == bar.new \in BOOLEAN

LEMMA BarTypedNext == BarTyped /\ [Next]_vars => BarTyped'
  <1> SUFFICES ASSUME BarTyped, [Next]_vars PROVE BarTyped'  OBVIOUS
  <1> DEFINE drawn(new) == [row |-> term, new |-> new]
  <1>0. \A new \in BOOLEAN : drawn(new).new \in BOOLEAN
    OBVIOUS
  <1>1. DrawnBar.new \in BOOLEAN
    <2>1. UpdateAvailable \in BOOLEAN
      BY DEF UpdateAvailable
    <2>2. DrawnBar = drawn(UpdateAvailable) \/ DrawnBar = bar
      BY DEF DrawnBar
    <2> HIDE DEF drawn
    <2> QED BY <1>0, <2>1, <2>2 DEF BarTyped
  <1>2. CASE bar' = bar
    BY <1>2 DEF BarTyped
  <1>3. CASE Setup
    <2>1. bar' = [row |-> term, new |-> FALSE] \/ bar' = bar
      BY <1>3 DEF Setup
    <2>2. CASE bar' = drawn(FALSE)
      <3>1. drawn(FALSE).new \in BOOLEAN
        BY <1>0
      <3> HIDE DEF drawn
      <3> QED BY <2>2, <3>1 DEF BarTyped
    <2> QED BY <2>1, <2>2, <1>2
  <1>4. CASE Repaint \/ HangUp \/ Idle
    <2>1. bar' = DrawnBar \/ bar' = bar
      BY <1>4 DEF Repaint, HangUp, Idle
    <2> QED BY <2>1, <1>1, <1>2 DEF BarTyped
  <1>5. CASE Teardown
    <2>1. bar' = Undrawn \/ bar' = bar
      BY <1>5 DEF Teardown
    <2>2. Undrawn.new \in BOOLEAN
      BY DEF Undrawn
    <2> QED BY <2>1, <2>2, <1>2 DEF BarTyped
  <1>6. CASE Build \/ Measure \/ EnterRaw \/ Spawn \/ TakeWinch \/ ResizePty \/ Poll
             \/ PollInterrupted \/ ReadMaster \/ Reply \/ Render
    BY <1>6, <1>2 DEF Build, Measure, EnterRaw, Spawn, TakeWinch, ResizePty, Poll,
       PollInterrupted, ReadMaster, Reply, Render, bars
  <1>7. CASE InjectKey \/ ReadStdin \/ Leave \/ WaitChild \/ Others \/ UNCHANGED vars
    BY <1>7, <1>2 DEF InjectKey, ReadStdin, Leave, WaitChild, Others, Resize,
       HandleWinch, Tick,
       Checked, RequestRedraw, ChildWrites, ChildReads, ChildExits, Types, vars, bars
  <1> QED BY <1>3, <1>4, <1>5, <1>6, <1>7 DEF Next, Proxy

(* The bar fills its row up to the last column and cuts no text beyond its   *)
(* end, for any width, texts and badges.                                     *)
THEOREM BarAlwaysFits == Spec => []BarFits
  <1>1. Init => BarTyped
    BY DEF Init, BarTyped, Undrawn
  <1>2. BarTyped => BarFits
    <2> SUFFICES ASSUME BarTyped PROVE LayoutFits[bar.new]
      BY DEF BarFits
    <2>1. ASSUME NEW cols \in 2..MaxCols, NEW ssh \in BOOLEAN, NEW pics \in BOOLEAN,
                 NEW ro \in {0, 12}, NEW dir \in 0..MaxCols, NEW cmd \in 0..4,
                 NEW seg \in -1..(dir - 1)
          PROVE  FitsAt(cols, Right(Badges(ssh, pics, ro, 0), 2, bar.new), dir, seg, cmd)
      <3>1. Right(Badges(ssh, pics, ro, 0), 2, bar.new) \in Nat
        BY RightIsCounted DEF BarTyped
      <3> QED BY <3>1, RowFits
    <2> QED BY <2>1 DEF LayoutFits, BarTyped
  <1> QED BY <1>1, <1>2, BarTypedNext, PTL DEF Spec
------------------------------------------------------------------------------
(* Scanners, byte by byte.                                                  *)
(* Induction over the naturals, from the finite subsets of them: a set that  *)
(* has no least element is empty.                                            *)
LEMMA Least ==
  ASSUME NEW T \in SUBSET Nat, T # {}
  PROVE  \E x \in T : \A y \in T : x <= y
  <1> DEFINE Below(n) == 0 .. (n - 1)
             Belows == {Below(n) : n \in T}
  <1>1. \A n \in T : Below(n) \in FiniteSubsetsOf(Nat)
    <2> TAKE n \in T
    <2>1. IsFiniteSet(0 .. (n - 1))
      BY FS_Interval
    <2>2. 0 .. (n - 1) \subseteq Nat
      OBVIOUS
    <2> QED BY <2>1, <2>2 DEF FiniteSubsetsOf
  <1>2. Belows \subseteq FiniteSubsetsOf(Nat) /\ Belows # {}
    BY <1>1
  <1> HIDE DEF Belows
  <1>3. PICK b \in Belows : \A a \in Belows : <<a, b>> \notin StrictSubsetOrdering(Nat)
    BY <1>2, FS_StrictSubsetOrderingWellFounded, WFMin, Zenon
  <1>4. PICK x \in T : b = Below(x)
    BY <1>3 DEF Belows
  <1>5. ASSUME NEW y \in T, y < x PROVE FALSE
    <2>1. Below(y) \in Belows /\ Below(y) \in FiniteSubsetsOf(Nat) /\ b \in FiniteSubsetsOf(Nat)
      BY <1>1, <1>4 DEF Belows
    <2>2. Below(y) \subseteq b /\ y \in b /\ y \notin Below(y)
      BY <1>4, <1>5
    <2> HIDE DEF Below
    <2>3. Below(y) \in SUBSET Nat /\ b \in SUBSET Nat /\ Below(y) # b
      BY <2>1, <2>2 DEF FiniteSubsetsOf
    <2>4. <<Below(y), b>> \in StrictSubsetOrdering(Nat)
      BY <2>2, <2>3 DEF StrictSubsetOrdering
    <2> QED BY <1>3, <2>1, <2>4
  <1> QED BY <1>5

(* What holds of 0 and is handed on holds of every number.  The sets of this *)
(* lemma are where an induction over the bytes read takes place.             *)
LEMMA Inductive ==
  ASSUME NEW S \in SUBSET Nat, 0 \in S, \A n \in S : n + 1 \in S
  PROVE  S = Nat
  <1> SUFFICES ASSUME Nat \ S # {} PROVE FALSE
    OBVIOUS
  <1>1. PICK x \in Nat \ S : \A y \in Nat \ S : x <= y
    <2> DEFINE T == Nat \ S
    <2>1. T \in SUBSET Nat /\ T # {}
      OBVIOUS
    <2> HIDE DEF T
    <2>2. \E x \in T : \A y \in T : x <= y
      BY <2>1, Least
    <2> QED BY <2>2 DEF T
  <1>2. x # 0 /\ x - 1 \in Nat
    BY <1>1
  <1>3. x - 1 \in S
    BY <1>1, <1>2
  <1> QED BY <1>1, <1>3

(* What the recursion over the bytes computes, for any number of them.       *)
LEMMA AlongIs ==
  ASSUME NEW s, NEW bs, Len(bs) \in Nat
  PROVE  /\ DOMAIN Along(s, bs) = 0..Len(bs)
         /\ Along(s, bs)[0] = s
         /\ \A i \in 1..Len(bs) : Along(s, bs)[i] = Move(Along(s, bs)[i - 1], bs[i])
  <1> DEFINE Body(f, i) == IF i = 0 THEN s ELSE Move(f[i - 1], bs[i])
             Is(f, n) == f = [i \in 0..n |-> Body(f, i)]
             S == {n \in Nat : \E f : Is(f, n)}
  <1>1. 0 \in S
    <2> DEFINE f == [i \in 0..0 |-> s]
    <2>1. Is(f, 0)
      OBVIOUS
    <2> QED BY <2>1
  <1>2. ASSUME NEW n \in S PROVE n + 1 \in S
    <2>1. PICK f : Is(f, n)
      OBVIOUS
    <2> DEFINE g == [i \in 0..(n + 1) |-> IF i = n + 1 THEN Move(f[n], bs[n + 1]) ELSE f[i]]
    <2>2. \A i \in 0..n : f[i] = Body(f, i)
      BY <2>1
    <2>3. \A i \in 0..n : g[i] = f[i]
      OBVIOUS
    <2>4. \A i \in 0..(n + 1) : g[i] = Body(g, i)
      <3> TAKE i \in 0..(n + 1)
      <3>1. CASE i = n + 1
        BY <2>3, <3>1
      <3>2. CASE i # n + 1
        <4>1. i \in 0..n /\ (i # 0 => i - 1 \in 0..n)
          BY <3>2
        <4> HIDE DEF g
        <4> QED BY <2>2, <2>3, <4>1
      <3> QED BY <3>1, <3>2
    <2>5. g = [i \in 0..(n + 1) |-> g[i]]
      OBVIOUS
    <2> HIDE DEF g
    <2>6. g = [i \in 0..(n + 1) |-> Body(g, i)]
      <3> HIDE DEF Body
      <3> QED BY <2>4, <2>5
    <2>7. Is(g, n + 1)
      BY <2>6
    <2>8. \E h : Is(h, n + 1)
      <3> HIDE DEF Is
      <3> QED BY <2>7
    <2>9. n + 1 \in Nat
      OBVIOUS
    <2> HIDE DEF Is
    <2> QED BY <2>8, <2>9
  <1>3. S = Nat
    <2> HIDE DEF S
    <2>1. S \in SUBSET Nat
      BY DEF S
    <2> QED BY <1>1, <1>2, <2>1, Inductive
  <1>4. \E f : Is(f, Len(bs))
    BY <1>3
  <1>5. Along(s, bs) = CHOOSE f : Is(f, Len(bs))
    BY DEF Along
  <1>6. Is(Along(s, bs), Len(bs))
    BY <1>4, <1>5
  <1> QED BY <1>6

\* What is written later does not change where a scanner was.
LEMMA AlongBefore ==
  ASSUME NEW s, NEW S, NEW a \in Seq(S), NEW b \in Seq(S)
  PROVE  \A i \in 0..Len(a) : Along(s, a \o b)[i] = Along(s, a)[i]
  <1> DEFINE c == a \o b
             f == Along(s, c)
             g == Along(s, a)
             T == {i \in Nat : i <= Len(a) => f[i] = g[i]}
  <1>1. /\ Len(a) \in Nat /\ Len(b) \in Nat /\ Len(c) = Len(a) + Len(b)
        /\ \A i \in 1..Len(a) : c[i] = a[i]
    OBVIOUS
  <1> HIDE DEF c
  <1>2. f[0] = g[0] /\ \A i \in 1..Len(a) : f[i] = Move(f[i - 1], a[i]) /\ g[i] = Move(g[i - 1], a[i])
    <2>1. f[0] = s /\ \A i \in 1..Len(c) : f[i] = Move(f[i - 1], c[i])
      BY <1>1, AlongIs
    <2>2. g[0] = s /\ \A i \in 1..Len(a) : g[i] = Move(g[i - 1], a[i])
      BY <1>1, AlongIs
    <2> HIDE DEF f, g
    <2> QED BY <1>1, <2>1, <2>2
  <1> HIDE DEF f, g
  <1>3. 0 \in T
    BY <1>2
  <1>4. ASSUME NEW n \in T PROVE n + 1 \in T
    <2> SUFFICES ASSUME n + 1 <= Len(a) PROVE f[n + 1] = g[n + 1]
      OBVIOUS
    <2>1. n + 1 \in 1..Len(a) /\ (n + 1) - 1 = n /\ f[n] = g[n]
      BY <1>1
    <2>2. f[n + 1] = Move(f[n], a[n + 1]) /\ g[n + 1] = Move(g[n], a[n + 1])
      BY <1>2, <2>1
    <2> QED BY <2>1, <2>2
  <1>5. T = Nat
    <2>1. T \in SUBSET Nat
      OBVIOUS
    <2> HIDE DEF T
    <2> QED BY <1>3, <1>4, <2>1, Inductive
  <1> QED BY <1>1, <1>5 DEF c, f, g

\* A scanner that goes on where another stopped is where the one that saw
\* everything is.
LEMMA AlongAfter ==
  ASSUME NEW s, NEW S, NEW a \in Seq(S), NEW b \in Seq(S)
  PROVE  \A i \in 0..Len(b) : Along(s, a \o b)[Len(a) + i] = Along(After(s, a), b)[i]
  <1> DEFINE c == a \o b
             f == Along(s, c)
             g == Along(After(s, a), b)
             T == {i \in Nat : i <= Len(b) => f[Len(a) + i] = g[i]}
  <1>1. /\ Len(a) \in Nat /\ Len(b) \in Nat /\ Len(c) = Len(a) + Len(b)
        /\ \A i \in 1..Len(b) : c[Len(a) + i] = b[i]
    OBVIOUS
  <1>2. f[Len(a)] = After(s, a) /\ g[0] = After(s, a)
    <2>1. f[Len(a)] = Along(s, a)[Len(a)]
      BY <1>1, AlongBefore
    <2>2. g[0] = After(s, a)
      BY <1>1, AlongIs
    <2> QED BY <2>1, <2>2 DEF After
  <1>3. \A i \in 1..Len(b) : g[i] = Move(g[i - 1], b[i])
    BY <1>1, AlongIs
  <1>4. \A i \in 1..Len(b) : f[Len(a) + i] = Move(f[Len(a) + i - 1], b[i])
    <2> HIDE DEF c
    <2>1. \A i \in 1..Len(c) : f[i] = Move(f[i - 1], c[i])
      BY <1>1, AlongIs
    <2> HIDE DEF f
    <2>2. \A i \in 1..Len(b) : Len(a) + i \in 1..Len(c)
      BY <1>1
    <2> QED BY <1>1, <2>1, <2>2
  <1> HIDE DEF c, f, g
  <1>5. 0 \in T
    BY <1>1, <1>2
  <1>6. ASSUME NEW n \in T PROVE n + 1 \in T
    <2> SUFFICES ASSUME n + 1 <= Len(b) PROVE f[Len(a) + (n + 1)] = g[n + 1]
      OBVIOUS
    <2>1. n + 1 \in 1..Len(b) /\ (n + 1) - 1 = n /\ Len(a) + (n + 1) - 1 = Len(a) + n
          /\ f[Len(a) + n] = g[n]
      BY <1>1
    <2>2. f[Len(a) + (n + 1)] = Move(f[Len(a) + n], b[n + 1]) /\ g[n + 1] = Move(g[n], b[n + 1])
      BY <1>3, <1>4, <2>1
    <2> QED BY <2>1, <2>2
  <1>7. T = Nat
    <2>1. T \in SUBSET Nat
      OBVIOUS
    <2> HIDE DEF T
    <2> QED BY <1>5, <1>6, <2>1, Inductive
  <1> QED BY <1>1, <1>7 DEF c, f, g

(* The child's output is well formed for a scanner that starts at s.         *)
WellFormed(s, bs) == \A i \in 1..Len(bs) : bs[i] \in BytesAt(Along(s, bs)[i - 1])

\* A scanner that was put back to the ground, within a string or a question,
\* never is where the child's own place is not, but on the ground.
LEMMA Shadow ==
  ASSUME NEW s \in Places, NEW h \in {s, "ground"}, NEW bs \in Seq(Bytes), WellFormed(s, bs)
  PROVE  \A i \in 0..Len(bs) : /\ Along(s, bs)[i] \in Places
                               /\ Along(h, bs)[i] \in {Along(s, bs)[i], "ground"}
  <1> DEFINE f == Along(s, bs)
             g == Along(h, bs)
             T == {i \in Nat : i <= Len(bs) => f[i] \in Places /\ g[i] \in {f[i], "ground"}}
  <1>1. Len(bs) \in Nat /\ \A i \in 1..Len(bs) : bs[i] \in Bytes
    OBVIOUS
  <1>2. f[0] = s /\ g[0] = h
        /\ \A i \in 1..Len(bs) : f[i] = Move(f[i - 1], bs[i]) /\ g[i] = Move(g[i - 1], bs[i])
    BY <1>1, AlongIs
  <1>3. \A i \in 1..Len(bs) : bs[i] \in BytesAt(f[i - 1])
    BY DEF WellFormed
  <1> HIDE DEF f, g
  <1>4. 0 \in T
    BY <1>2
  <1>5. ASSUME NEW n \in T PROVE n + 1 \in T
    <2> SUFFICES ASSUME n + 1 <= Len(bs)
                 PROVE  f[n + 1] \in Places /\ g[n + 1] \in {f[n + 1], "ground"}
      OBVIOUS
    <2>1. n + 1 \in 1..Len(bs) /\ (n + 1) - 1 = n /\ f[n] \in Places /\ g[n] \in {f[n], "ground"}
      BY <1>1
    <2>2. /\ f[n + 1] = Move(f[n], bs[n + 1]) /\ g[n + 1] = Move(g[n], bs[n + 1])
          /\ bs[n + 1] \in Bytes /\ bs[n + 1] \in BytesAt(f[n])
      BY <1>1, <1>2, <1>3, <2>1
    <2>3. \A p \in Places, b \in Bytes : b \in BytesAt(p) =>
            /\ Move(p, b) \in Places
            /\ Move("ground", b) \in {Move(p, b), "ground"}
      BY DEF Places, Bytes, BytesAt, Move
    <2> QED BY <2>1, <2>2, <2>3
  <1>6. T = Nat
    <2>1. T \in SUBSET Nat
      OBVIOUS
    <2> HIDE DEF T
    <2> QED BY <1>4, <1>5, <2>1, Inductive
  <1> QED BY <1>1, <1>6 DEF f, g

\* The terminal so never meets a question that the child did not ask.
LEMMA FewerQuestions ==
  ASSUME NEW s \in Places, NEW h \in {s, "ground"}, NEW bs \in Seq(Bytes), WellFormed(s, bs)
  PROVE  /\ Questions(h, bs) \in Nat /\ Questions(s, bs) \in Nat
         /\ Questions(h, bs) <= Questions(s, bs)
  <1> DEFINE Asked(p) == {i \in 1..Len(bs) : bs[i] = "ask2" /\ Along(p, bs)[i - 1] = "ask"}
  <1>1. Len(bs) \in Nat
    OBVIOUS
  <1>2. Asked(h) \subseteq Asked(s)
    <2>1. ASSUME NEW i \in 1..Len(bs) PROVE Along(h, bs)[i - 1] = "ask" => Along(s, bs)[i - 1] = "ask"
      <3>1. i - 1 \in 0..Len(bs)
        BY <1>1
      <3>2. Along(h, bs)[i - 1] \in {Along(s, bs)[i - 1], "ground"}
        BY <3>1, Shadow
      <3> QED BY <3>2
    <2> QED BY <2>1
  <1>3. IsFiniteSet(Asked(s))
    <2>1. IsFiniteSet(1..Len(bs))
      BY <1>1, FS_Interval
    <2> QED BY <2>1, FS_Subset
  <1> HIDE DEF Asked
  <1>4. Cardinality(Asked(h)) \in Nat /\ Cardinality(Asked(s)) \in Nat
        /\ Cardinality(Asked(h)) <= Cardinality(Asked(s))
    BY <1>2, <1>3, FS_Subset, FS_CardinalityType
  <1> QED BY <1>4 DEF Questions, Asked

------------------------------------------------------------------------------
(* Questions with raw output: what is read and what waits is well formed for *)
(* the scanner, the terminal is where the scanner is or on the ground, and   *)
(* a read that the terminal will get has its questions on the books.         *)
Heard ==
    /\ OutTyped /\ scan \in Places /\ WellFormed(scan, chunk \o out)
    /\ pc \notin {"reply", "render"} => chunk = <<>>
    /\ opt.passthrough =>
        /\ host \in {scan, "ground"} /\ owed >= 0
        /\ pc = "reply" => ~Raw(chunk)
        /\ pc = "reply" \/ (pc = "render" /\ Raw(chunk)) => owed >= Questions(scan, chunk)

\* A prefix of well-formed output is, and so is the rest for a scanner that has
\* seen the prefix.
LEMMA WellFormedParts ==
  ASSUME NEW s, NEW S, NEW a \in Seq(S), NEW b \in Seq(S), WellFormed(s, a \o b)
  PROVE  WellFormed(s, a) /\ WellFormed(After(s, a), b)
  <1> DEFINE c == a \o b
             f == Along(s, c)
  <1>1. /\ Len(a) \in Nat /\ Len(b) \in Nat /\ Len(c) = Len(a) + Len(b)
        /\ \A i \in 1..Len(a) : c[i] = a[i]
        /\ \A i \in 1..Len(b) : c[Len(a) + i] = b[i]
    OBVIOUS
  <1>2. \A i \in 1..Len(c) : c[i] \in BytesAt(f[i - 1])
    BY DEF WellFormed
  <1>3. /\ \A i \in 0..Len(a) : f[i] = Along(s, a)[i]
        /\ \A i \in 0..Len(b) : f[Len(a) + i] = Along(After(s, a), b)[i]
    BY AlongBefore, AlongAfter
  <1> HIDE DEF c, f
  <1>4. ASSUME NEW i \in 1..Len(a) PROVE a[i] \in BytesAt(Along(s, a)[i - 1])
    <2>1. i \in 1..Len(c) /\ i - 1 \in 0..Len(a) /\ c[i] = a[i]
      BY <1>1
    <2> QED BY <1>2, <1>3, <2>1
  <1>5. ASSUME NEW i \in 1..Len(b) PROVE b[i] \in BytesAt(Along(After(s, a), b)[i - 1])
    <2> DEFINE k == Len(a) + i
    <2>1. k \in 1..Len(c) /\ i - 1 \in 0..Len(b) /\ k - 1 = Len(a) + (i - 1) /\ c[k] = b[i]
      BY <1>1
    <2> HIDE DEF k
    <2>2. c[k] \in BytesAt(f[k - 1])
      BY <1>2, <2>1
    <2> QED BY <1>3, <2>1, <2>2
  <1> QED BY <1>4, <1>5 DEF WellFormed

\* The child goes on where it is.
LEMMA WellFormedOn ==
  ASSUME NEW s, NEW bs \in Seq(Bytes), WellFormed(s, bs), NEW b \in Bytes, b \in BytesAt(After(s, bs))
  PROVE  WellFormed(s, bs \o <<b>>)
  <1> DEFINE c == bs \o <<b>>
             f == Along(s, c)
             g == Along(s, bs)
  <1>1. /\ Len(bs) \in Nat /\ Len(c) = Len(bs) + 1 /\ <<b>> \in Seq(Bytes)
        /\ \A i \in 1..Len(bs) : c[i] = bs[i]
        /\ c[Len(bs) + 1] = b
    OBVIOUS
  <1>2. \A i \in 0..Len(bs) : f[i] = g[i]
    <2> DEFINE more == <<b>>
    <2>1. more \in Seq(Bytes)
      OBVIOUS
    <2> HIDE DEF more
    <2>2. \A i \in 0..Len(bs) : Along(s, bs \o more)[i] = Along(s, bs)[i]
      BY <2>1, AlongBefore
    <2> QED BY <2>2 DEF more
  <1>3. (\A i \in 1..Len(bs) : bs[i] \in BytesAt(g[i - 1])) /\ b \in BytesAt(g[Len(bs)])
    BY DEF WellFormed, After
  <1> HIDE DEF c, f, g
  <1>4. ASSUME NEW i \in 1..Len(c) PROVE c[i] \in BytesAt(f[i - 1])
    <2>1. CASE i = Len(bs) + 1
      <3>1. i - 1 = Len(bs) /\ i - 1 \in 0..Len(bs)
        BY <1>1, <2>1
      <3> QED BY <1>1, <1>2, <1>3, <2>1, <3>1
    <2>2. CASE i # Len(bs) + 1
      <3>1. i \in 1..Len(bs) /\ i - 1 \in 0..Len(bs)
        BY <1>1, <2>2
      <3> QED BY <1>1, <1>2, <1>3, <3>1
    <2> QED BY <2>1, <2>2
  <1> QED BY <1>4 DEF WellFormed, c, f

LEMMA HeardInit == Init => Heard
  <1> SUFFICES ASSUME Init PROVE Heard
    OBVIOUS
  <1>1. chunk \o out = <<>> /\ Len(<<>>) = 0
    BY DEF Init
  <1>2. WellFormed(scan, <<>>)
    BY <1>1 DEF WellFormed
  <1> QED BY <1>1, <1>2 DEF Init, Heard, OutTyped, Places

LEMMA HeardNext == TypeOK /\ Heard /\ [Next]_vars => Heard'
  <1> SUFFICES ASSUME TypeOK, Heard, [Next]_vars PROVE Heard'
    OBVIOUS
  <1>1. CASE ReadMaster
    <2> DEFINE n  == IF Len(out) < ReadSize THEN Len(out) ELSE ReadSize
               bs == SubSeq(out, 1, n)
               rest == SubSeq(out, n + 1, Len(out))
               asked == Questions(scan, bs)
    <2>1. n \in Nat /\ n <= Len(out) /\ Len(out) \in Nat
      BY BoundsAssumption DEF Heard, OutTyped
    <2> HIDE DEF n
    <2>2. bs \in Seq(Bytes) /\ rest \in Seq(Bytes) /\ Len(bs) \in Nat
      BY <2>1, SubSeqProperties DEF Heard, OutTyped
    <2>3. bs \o rest = out /\ chunk \o out = out
      <3>1. chunk = <<>> /\ out \in Seq(Bytes)
        BY <1>1 DEF ReadMaster, Heard, OutTyped
      <3>2. /\ Len(bs) = n /\ Len(rest) = Len(out) - n
            /\ \A i \in 1..n : bs[i] = out[i]
            /\ \A i \in 1..(Len(out) - n) : rest[i] = out[n + i]
        BY <2>1, <3>1, SubSeqProperties
      <3> DEFINE c == bs \o rest
      <3> HIDE DEF bs, rest
      <3>3. /\ c \in Seq(Bytes) /\ Len(c) = Len(out)
            /\ \A i \in 1..n : c[i] = out[i]
            /\ \A i \in 1..(Len(out) - n) : c[n + i] = out[n + i]
        <4>1. c \in Seq(Bytes) /\ Len(c) = Len(bs) + Len(rest)
          BY <2>2
        <4>2. \A i \in 1..Len(bs) : c[i] = bs[i]
          BY <2>2
        <4>3. \A i \in 1..Len(rest) : c[Len(bs) + i] = rest[i]
          BY <2>2
        <4> HIDE DEF c
        <4> QED BY <2>1, <3>2, <4>1, <4>2, <4>3
      <3>4. \A i \in 1..Len(out) : i > n => i - n \in 1..(Len(out) - n) /\ n + (i - n) = i
        BY <2>1
      <3> HIDE DEF c
      <3>5. \A i \in 1..Len(out) : c[i] = out[i]
        BY <2>1, <3>3, <3>4
      <3>6. c = out
        BY <3>1, <3>3, <3>5
      <3> QED BY <3>1, <3>6 DEF c
    <2>4. asked \in Nat
      BY <2>2, QuestionsAreCounted
    <2>5. /\ chunk' = bs /\ out' = rest /\ owed' = owed + asked
          /\ pc' = IF asked > 0 /\ ~Raw(bs) THEN "reply" ELSE "render"
          /\ UNCHANGED <<opt, wasAlt, scan, host>>
      BY <1>1 DEF ReadMaster, n, sizes
    <2> HIDE DEF bs, rest
    <2>6. (Raw(chunk)' <=> Raw(bs)) /\ Questions(scan, chunk)' = asked
      BY <2>5 DEF Raw, AltAfter
    <2> HIDE DEF asked
    <2>7. WellFormed(scan, chunk \o out)'
      BY <2>3, <2>5 DEF Heard
    <2>8. owed \in Int
      BY DEF TypeOK
    <2>9. opt.passthrough => owed' >= asked /\ owed' >= 0
      BY <2>4, <2>5, <2>8 DEF Heard
    <2>10. pc' = "reply" => ~Raw(bs)
      BY <2>5
    <2> QED BY <2>2, <2>5, <2>6, <2>7, <2>9, <2>10 DEF Heard, OutTyped
  <1>2. CASE Reply
    <2>1. /\ pc = "reply" /\ pc' = "render" /\ owed' = owed - Questions(scan, chunk)
          /\ UNCHANGED <<opt, wasAlt, scan, host, chunk, out>>
      BY <1>2 DEF Reply
    <2>2. Questions(scan, chunk) \in Nat /\ owed \in Int
      BY QuestionsAreCounted DEF Heard, OutTyped, TypeOK
    <2>3. opt.passthrough => owed' >= 0 /\ ~Raw(chunk)
      BY <2>1, <2>2 DEF Heard
    <2>4. (Raw(chunk)' <=> Raw(chunk)) /\ (WellFormed(scan, chunk \o out)' <=> WellFormed(scan, chunk \o out))
      BY <2>1 DEF Raw, AltAfter
    <2> QED BY <2>1, <2>3, <2>4 DEF Heard, OutTyped
  <1>3. CASE Render
    <2>1. /\ pc = "render" /\ pc' = "flush" /\ UNCHANGED <<opt, out>> /\ chunk' = <<>>
          /\ scan' = After(scan, chunk)
          /\ owed' = IF Raw(chunk) THEN owed - Questions(host, chunk) ELSE owed
          /\ host' \in {"ground", After(host, chunk)} \/ ~(~AltAfter(chunk) /\ ~wasAlt) \/ ~Raw(chunk)
      BY <1>3 DEF Render
    <2>2. opt.passthrough => host' \in {"ground", After(host, chunk)}
      BY <1>3 DEF Render, Raw
    <2>3. chunk \in Seq(Bytes) /\ out \in Seq(Bytes) /\ scan \in Places /\ Len(chunk) \in Nat
      BY DEF Heard, OutTyped
    <2>4. WellFormed(scan, chunk) /\ WellFormed(After(scan, chunk), out)
      BY <2>3, WellFormedParts DEF Heard
    <2>5. After(scan, chunk) \in Places
      BY <2>3, <2>4, Shadow DEF After
    <2>6. opt.passthrough => After(host, chunk) \in {After(scan, chunk), "ground"}
                             /\ Questions(host, chunk) \in Nat
                             /\ Questions(host, chunk) <= Questions(scan, chunk)
                             /\ Questions(scan, chunk) \in Nat
      <3> SUFFICES ASSUME opt.passthrough PROVE /\ After(host, chunk) \in {After(scan, chunk), "ground"}
                                                /\ Questions(host, chunk) \in Nat
                                                /\ Questions(host, chunk) <= Questions(scan, chunk)
                                                /\ Questions(scan, chunk) \in Nat
        OBVIOUS
      <3>1. host \in {scan, "ground"}
        BY DEF Heard
      <3> QED BY <2>3, <2>4, <3>1, Shadow, FewerQuestions DEF After
    <2>7. opt.passthrough => owed' >= 0
      BY <2>1, <2>6 DEF Heard, TypeOK
    <2>8. <<>> \o out = out /\ <<>> \in Seq(Bytes)
      BY <2>3
    <2>9. WellFormed(scan, chunk \o out)'
      BY <2>1, <2>4, <2>8
    <2> QED BY <2>1, <2>2, <2>3, <2>5, <2>6, <2>7, <2>8, <2>9 DEF Heard, OutTyped
  <1>4. CASE HangUp
    <2>1. /\ pc = "flush" /\ pc' = "leave" /\ out' = <<>>
          /\ UNCHANGED <<opt, scan, host, owed, chunk>>
      BY <1>4 DEF HangUp, screen
    <2>2. chunk' = <<>> /\ (chunk \o out)' = <<>> /\ Len(<<>>) = 0 /\ <<>> \in Seq(Bytes)
      BY <2>1 DEF Heard
    <2>3. WellFormed(scan, chunk \o out)'
      BY <2>2 DEF WellFormed
    <2> QED BY <2>1, <2>2, <2>3 DEF Heard, OutTyped
  <1>5. CASE ChildWrites
    <2>1. UNCHANGED <<pc, opt, scan, host, wasAlt, owed, chunk>>
      BY <1>5 DEF ChildWrites, screen
    <2>2. PICK b \in Bytes : b \in BytesAt(After(scan, chunk \o out)) /\ out' = Append(out, b)
      BY <1>5 DEF ChildWrites
    <2> DEFINE bs == chunk \o out
    <2>3. chunk \in Seq(Bytes) /\ out \in Seq(Bytes) /\ bs \in Seq(Bytes) /\ out' \in Seq(Bytes)
          /\ (chunk \o out)' = bs \o <<b>>
      BY <2>1, <2>2 DEF Heard, OutTyped
    <2>4. WellFormed(scan, bs) /\ b \in BytesAt(After(scan, bs))
      BY <2>2 DEF Heard
    <2> HIDE DEF bs
    <2>5. WellFormed(scan, bs \o <<b>>)
      BY <2>3, <2>4, WellFormedOn
    <2>6. WellFormed(scan, chunk \o out)'
      BY <2>1, <2>3, <2>5
    <2>7. (Raw(chunk)' <=> Raw(chunk)) /\ Questions(scan, chunk)' = Questions(scan, chunk)
      BY <2>1 DEF Raw, AltAfter
    <2> QED BY <2>1, <2>3, <2>6, <2>7 DEF Heard, OutTyped
  <1>6. ASSUME UNCHANGED <<opt, scan, owed, chunk, out, wasAlt>>, host' \in {host, "ground"},
               (pc \notin {"reply", "render"} /\ pc' \notin {"reply", "render"}) \/ pc' = pc
        PROVE  Heard'
    <2>1. /\ (Raw(chunk)' <=> Raw(chunk)) /\ Questions(scan, chunk)' = Questions(scan, chunk)
          /\ (WellFormed(scan, chunk \o out)' <=> WellFormed(scan, chunk \o out))
      BY <1>6 DEF Raw, AltAfter
    <2> QED BY <1>6, <2>1 DEF Heard, OutTyped
  <1>7. CASE Setup \/ Build \/ Measure \/ EnterRaw \/ Spawn \/ TakeWinch
    BY <1>7, <1>6 DEF Setup, Build, Measure, EnterRaw, Spawn, TakeWinch, screen, pty
  <1>8. CASE Repaint \/ ResizePty \/ Poll \/ PollInterrupted
    <2>1. pc # "read" /\ pc \notin {"reply", "render"}
      BY <1>8 DEF Repaint, ResizePty, Poll, PollInterrupted
    <2> QED BY <1>8, <1>6 DEF Repaint, ResizePty, Poll, PollInterrupted, screen, pty
  <1>9. CASE Idle \/ InjectKey \/ ReadStdin
    BY <1>9, <1>6 DEF Idle, InjectKey, ReadStdin, screen, pty
  <1>10. CASE Leave \/ WaitChild \/ Teardown
    BY <1>10, <1>6 DEF Leave, WaitChild, Teardown, screen, pty
  <1>11. CASE Resize \/ HandleWinch \/ Tick \/ Checked \/ RequestRedraw \/ ChildReads
              \/ ChildExits \/ Types
    BY <1>11, <1>6 DEF Resize, HandleWinch, Tick, Checked, RequestRedraw, ChildReads,
       ChildExits,
       Types, screen, pty
  <1>12. CASE UNCHANGED vars
    BY <1>12, <1>6 DEF vars, screen, pty
  <1> QED
    BY <1>1, <1>2, <1>3, <1>4, <1>5, <1>7, <1>8, <1>9, <1>10, <1>11, <1>12 DEF Next,
       Proxy, Others

(* No question of the child is answered by both the proxy and the terminal,  *)
(* and with filtered output none is left: however reads cut the output and   *)
(* whenever the screen is switched, repainted or resized between two reads.  *)
THEOREM AnsweredExactlyOnce == Spec => []AnsweredOnce
  <1>1. Heard /\ Followed => NeverTwice
    <2> SUFFICES ASSUME Heard, Followed PROVE owed >= 0
      BY DEF NeverTwice
    <2>1. Questions(scan, chunk) \in Nat
      BY QuestionsAreCounted DEF Heard, OutTyped
    <2> QED BY <2>1 DEF Heard, Followed, Owing
  <1>2. Followed => AllAnswered
    BY DEF Followed, Owing, AllAnswered
  <1> QED BY <1>1, <1>2, FollowedInit, FollowedNext, HeardInit, HeardNext, ProxyIsTyped, PTL
      DEF Spec, AnsweredOnce
=============================================================================

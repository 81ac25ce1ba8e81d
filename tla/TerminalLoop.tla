---------------------------- MODULE TerminalLoop ----------------------------
(***************************************************************************)
(* The PTY proxy of src/pty.rs with the status bar of src/statusbar.rs:    *)
(* one thread moves bytes between the user's terminal and the sandboxed    *)
(* child, repaints after a resize and keeps the bar on the last row; the   *)
(* SIGWINCH handler and the update check only set flags for it.            *)
(*                                                                         *)
(* A byte of the child's output is one of the few kinds the proxy tells    *)
(* apart: plain text, the two ends of a control string (a window title),   *)
(* the two halves of a cursor question (CSI 6 n), and the entry and exit   *)
(* of the alternate screen.  The child writes them in a well-formed order, *)
(* but a read of the PTY may cut the stream anywhere.  The steps of the    *)
(* loop that no other party can tell apart are one action.                 *)
(***************************************************************************)
EXTENDS Integers, Sequences, FiniteSets, SequencesExt, StatusBar

CONSTANTS Options,      \* the launches: [bar, passthrough, key : BOOLEAN]
          Sizes,        \* rows the user's terminal may have
          ReadSize,     \* bytes one read of the PTY returns at most
          OutCap,       \* bytes of output the kernel holds for the proxy
          InCap,        \* writes to the child the kernel holds for it
          MaxEvents     \* bound on what happens around the proxy: bytes written by
                        \* the child, resizes, input and a release that is found

ASSUME OptionsAssumption == Options \subseteq [bar : BOOLEAN, passthrough : BOOLEAN, key : BOOLEAN]
ASSUME SizesAssumption == Sizes \subseteq Nat \ {0}
ASSUME BoundsAssumption == /\ ReadSize \in Nat \ {0} /\ OutCap \in Nat \ {0} /\ InCap \in Nat \ {0}
                           /\ MaxEvents \in Nat

Bytes  == {"text", "open", "close", "ask1", "ask2", "alt", "primary"}
Places == {"ground", "string", "ask"}     \* where a scanner is in the stream
Points == {"setup", "build", "measure", "raw", "spawn",
           "winch", "repaint", "resize", "poll", "read", "reply", "render", "flush", "key",
           "stdin", "leave", "wait", "teardown", "exit"}

VARIABLES
    pc,             \* the proxy's main thread
    opt,            \* the options of this launch
    term, sig,      \* the terminal's rows; a SIGWINCH waits in the kernel
    winch,          \* SIGWINCH_PENDING
    content,        \* IoLoop::content_rows, also the size of the vt100 screen
    ptyRows,        \* the rows of the PTY
    wasAlt,         \* was_alt_screen: the vt100 screen is the alternate one
    scan, filter, osc, host,    \* the scanners' and the terminal's place in the stream
    pendingRedraw, keyAt,
    dirty, active,  \* DIRTY and ACTIVE of the status bar
    bar,            \* what the bar on the terminal shows
    up,             \* the update check
    ready,          \* what poll reported in this turn
    chunk,          \* bytes read from the PTY, until they are handled
    out, in,        \* the PTY's two queues
    closed,         \* the child has hung up
    cooked,         \* the terminal's line mode is the user's own
    typed,          \* what waits on stdin
    owed,           \* history: questions of the child that nobody answered
    events          \* counts against MaxEvents

sizes  == <<term, sig, winch, content, ptyRows>>
screen == <<wasAlt, scan, filter, osc, host, owed>>
bars   == <<pendingRedraw, keyAt, dirty, active, bar>>
pty    == <<chunk, out, in, closed>>
user   == <<typed, events>>
vars   == <<pc, opt, sizes, screen, bars, up, ready, pty, cooked, user>>

------------------------------------------------------------------------------
(* The scanners.  They all follow control strings and questions in the same  *)
(* way and differ in which bytes they are given.                             *)

Move(s, b) ==
    CASE s = "string" /\ b # "close"  -> "string"
      [] s = "string" /\ b = "close"  -> "ground"
      [] s # "string" /\ b = "open"   -> "string"
      [] s # "string" /\ b = "ask1"   -> "ask"
      [] s # "string" /\ b \notin {"open", "ask1"} -> "ground"

(* Where a scanner that starts at s is after each of the bytes.              *)
Along(s, bs) ==
    LET at[i \in 0..Len(bs)] == IF i = 0 THEN s ELSE Move(at[i - 1], bs[i])
    IN  at
After(s, bs) == Along(s, bs)[Len(bs)]

FilterAfter(s, bs)    == After(s, bs)             \* TerminalFilter
ForwarderAfter(s, bs) == After(s, bs)             \* OscForwarder
EndsAtGround(bs)      == After("ground", bs) = "ground"

(* The completed cursor questions that a scanner which starts at s meets.    *)
Questions(s, bs) ==
    Cardinality({i \in 1..Len(bs) : bs[i] = "ask2" /\ Along(s, bs)[i - 1] = "ask"})

(* The vt100 screen after bs.                                                *)
Switches(bs) == SelectSeq(bs, LAMBDA b : b \in {"alt", "primary"})
AltAfter(bs) == IF Switches(bs) = <<>> THEN wasAlt ELSE Last(Switches(bs)) = "alt"

(* Whether the terminal gets bs as the child wrote it.                       *)
Raw(bs) == opt.passthrough /\ ~wasAlt /\ ~AltAfter(bs)

------------------------------------------------------------------------------
(* Sizes and the bar.                                                        *)

Reserved == IF opt.bar THEN 1 ELSE 0
Fits(n)  == n >= 1 + Reserved
Content(n) == n - Reserved

Undrawn == [row |-> 0, new |-> FALSE]
UpdateAvailable == up \in {"found", "done"}
DrawnBar == IF active /\ term >= 2 THEN [row |-> term, new |-> UpdateAvailable] ELSE bar
Nothing == [output |-> FALSE, hangup |-> FALSE, input |-> FALSE]

Init ==
    /\ pc = "setup" /\ opt \in Options
    /\ term \in Sizes /\ sig = FALSE /\ winch = FALSE /\ content = 0 /\ ptyRows = 0
    /\ wasAlt = FALSE /\ owed = 0
    /\ scan = "ground" /\ filter = "ground" /\ osc = "ground" /\ host = "ground"
    /\ pendingRedraw = FALSE /\ keyAt = "off" /\ dirty = FALSE /\ active = FALSE
    /\ bar = Undrawn /\ up = "off" /\ ready = Nothing
    /\ chunk = <<>> /\ out = <<>> /\ in = 0 /\ closed = FALSE
    /\ cooked = TRUE /\ typed = "nothing" /\ events = 0

------------------------------------------------------------------------------
(* Before the loop: the bar is drawn, the sandbox command is built, and the  *)
(* terminal is handed to the child.                                          *)

Setup ==
    /\ pc = "setup" /\ pc' = "build"
    /\ active' = (opt.bar /\ term >= 2)
    /\ bar' = IF active' THEN [row |-> term, new |-> FALSE] ELSE bar
    /\ up' \in IF opt.bar THEN {"off", "checking"} ELSE {"off"}
    /\ UNCHANGED <<opt, sizes, screen, pendingRedraw, keyAt, dirty, ready, pty, cooked, user>>

(* An error between the bar's set-up and the PTY run returns without the     *)
(* teardown.                                                                 *)
Build ==
    /\ pc = "build" /\ pc' \in {"measure", "exit"}
    /\ UNCHANGED <<opt, sizes, screen, bars, up, ready, pty, cooked, user>>

Measure ==
    /\ pc = "measure"
    /\ IF Fits(term)
       THEN pc' = "raw" /\ content' = Content(term) /\ ptyRows' = Content(term)
       ELSE pc' = "teardown" /\ UNCHANGED <<content, ptyRows>>
    /\ UNCHANGED <<opt, term, sig, winch, screen, bars, up, ready, pty, cooked, user>>

EnterRaw ==
    /\ pc = "raw"
    /\ \/ pc' = "spawn" /\ cooked' = FALSE
       \/ pc' = "teardown" /\ UNCHANGED cooked
    /\ UNCHANGED <<opt, sizes, screen, bars, up, ready, pty, user>>

Spawn ==
    /\ pc = "spawn"
    /\ \/ pc' = "winch" /\ UNCHANGED cooked
       \/ pc' = "teardown" /\ cooked' = TRUE     \* RawModeGuard is dropped
    /\ UNCHANGED <<opt, sizes, screen, bars, up, ready, pty, user>>

------------------------------------------------------------------------------
(* IoLoop::handle_sigwinch.                                                  *)

TakeWinch ==
    /\ pc = "winch" /\ pc' = IF winch THEN "repaint" ELSE "poll"
    /\ winch' = FALSE
    /\ UNCHANGED <<opt, term, sig, content, ptyRows, screen, bars, up, ready, pty, cooked, user>>

(* The vt100 screen is resized and the terminal repainted, the bar last.     *)
Repaint ==
    /\ pc = "repaint"
    /\ IF Fits(term)
       THEN /\ pc' = "resize"
            /\ content' = Content(term) /\ host' = "ground"
            /\ bar' = IF opt.bar THEN DrawnBar ELSE bar
       ELSE pc' = "poll" /\ UNCHANGED <<content, host, bar>>
    /\ UNCHANGED <<opt, term, sig, winch, ptyRows, wasAlt, scan, filter, osc, owed,
                   pendingRedraw, keyAt, dirty, active, up, ready, pty, cooked, user>>

(* The flag cleared once the resize is done, with the size read before it.   *)
ResizeClears ==
    /\ pc = "resize" /\ pc' = "poll"
    /\ winch' = FALSE
    /\ ptyRows' = content
    /\ keyAt' = IF ~wasAlt /\ opt.key THEN "armed" ELSE keyAt
    /\ dirty' = IF opt.bar THEN FALSE ELSE dirty
    /\ pendingRedraw' = FALSE
    /\ UNCHANGED <<opt, term, sig, content, screen, active, bar, up, ready, pty, cooked, user>>

(* resize_pty, which reads the terminal's size again, forward_sigwinch, and  *)
(* the requests for which the redraw just made is taken to stand.            *)
ResizePty ==
    /\ pc = "resize" /\ pc' = "poll"
    /\ ptyRows' = IF Fits(term) THEN Content(term) ELSE ptyRows
    /\ keyAt' = IF ~wasAlt /\ opt.key THEN "armed" ELSE keyAt
    /\ dirty' = IF opt.bar THEN FALSE ELSE dirty
    /\ pendingRedraw' = FALSE
    /\ UNCHANGED <<opt, term, sig, winch, content, screen, active, bar, up, ready, pty,
                   cooked, user>>

------------------------------------------------------------------------------
(* One turn of io_loop.                                                      *)

(* Requests that replace the pending redraw instead of adding to it.         *)
PollAssigns ==
    /\ pc = "poll" /\ pc' = IF out # <<>> THEN "read" ELSE "flush"
    /\ pendingRedraw' = (opt.bar /\ dirty)
    /\ dirty' = IF opt.bar THEN FALSE ELSE dirty
    /\ ready' = [output |-> out # <<>>, hangup |-> closed, input |-> typed # "nothing"]
    /\ UNCHANGED <<opt, sizes, screen, keyAt, active, bar, up, pty, cooked, user>>

(* take_requests, then poll, which reports what is ready or, after 100 ms,   *)
(* nothing.                                                                  *)
Poll ==
    /\ pc = "poll" /\ pc' = IF out # <<>> THEN "read" ELSE "flush"
    /\ pendingRedraw' = (pendingRedraw \/ (opt.bar /\ dirty))
    /\ dirty' = IF opt.bar THEN FALSE ELSE dirty
    /\ ready' = [output |-> out # <<>>, hangup |-> closed, input |-> typed # "nothing"]
    /\ UNCHANGED <<opt, sizes, screen, keyAt, active, bar, up, pty, cooked, user>>

(* The handler has no SA_RESTART: poll fails with EINTR.                     *)
PollInterrupted ==
    /\ pc = "poll" /\ sig /\ pc' = "winch"
    /\ sig' = FALSE /\ winch' = TRUE
    /\ pendingRedraw' = (pendingRedraw \/ (opt.bar /\ dirty))
    /\ dirty' = IF opt.bar THEN FALSE ELSE dirty
    /\ UNCHANGED <<opt, term, content, ptyRows, screen, keyAt, active, bar, up, ready, pty,
                   cooked, user>>

(* Answering whether or not the terminal got the question raw.               *)
ReadAnswers ==
    /\ pc = "read"
    /\ LET n  == IF Len(out) < ReadSize THEN Len(out) ELSE ReadSize
           bs == SubSeq(out, 1, n)
           asked == Questions(scan, bs)
       IN /\ chunk' = bs /\ out' = SubSeq(out, n + 1, Len(out))
          /\ owed' = owed + asked
          /\ pc' = IF asked > 0 THEN "reply" ELSE "render"
    /\ UNCHANGED <<opt, sizes, wasAlt, scan, filter, osc, host, bars, up, ready, in, closed,
                   cooked, user>>

ReadMaster ==
    /\ pc = "read"
    /\ LET n  == IF Len(out) < ReadSize THEN Len(out) ELSE ReadSize
           bs == SubSeq(out, 1, n)
           asked == Questions(scan, bs)
       IN /\ chunk' = bs /\ out' = SubSeq(out, n + 1, Len(out))
          /\ owed' = owed + asked
          /\ pc' = IF asked > 0 /\ ~Raw(bs) THEN "reply" ELSE "render"
    /\ UNCHANGED <<opt, sizes, wasAlt, scan, filter, osc, host, bars, up, ready, in, closed,
                   cooked, user>>

(* write_all_raw waits for room, and gives its bytes up when the handler     *)
(* interrupts it.                                                            *)
Interrupted == sig /\ sig' = FALSE /\ winch' = TRUE
WriteToChild ==
    \/ in < InCap /\ in' = in + 1 /\ UNCHANGED <<sig, winch>>
    \/ in = InCap /\ Interrupted /\ UNCHANGED in

(* A question is off the books when its answer was sent or given up.         *)
Reply ==
    /\ pc = "reply" /\ pc' = "render"
    /\ WriteToChild
    /\ owed' = owed - Questions(scan, chunk)
    /\ UNCHANGED <<opt, term, content, ptyRows, wasAlt, scan, filter, osc, host, bars, up,
                   ready, chunk, out, closed, cooked, user>>

(* The forwarder fed on the alternate screen only.                           *)
RenderTitlesAlt ==
    /\ pc = "render" /\ pc' = "flush"
    /\ LET alt     == AltAfter(chunk)
           primary == ~alt /\ ~wasAlt
       IN /\ wasAlt' = alt
          /\ scan' = After(scan, chunk)
          /\ osc' = IF alt THEN ForwarderAfter(osc, chunk) ELSE osc
          /\ filter' = IF primary /\ ~opt.passthrough THEN FilterAfter(filter, chunk) ELSE filter
          /\ host' = "ground"
          /\ owed' = IF Raw(chunk) THEN owed - Questions(host, chunk) ELSE owed
    /\ chunk' = <<>> /\ pendingRedraw' = (pendingRedraw \/ opt.bar)
    /\ UNCHANGED <<opt, sizes, keyAt, dirty, active, bar, up, ready, out, in, closed, cooked, user>>

(* The rest of handle_master_read.                                           *)
Render ==
    /\ pc = "render" /\ pc' = "flush"
    /\ LET alt     == AltAfter(chunk)
           primary == ~alt /\ ~wasAlt
           repair  == opt.bar /\ primary /\ EndsAtGround(chunk)
       IN /\ wasAlt' = alt
          /\ scan' = After(scan, chunk)
          /\ osc' = IF alt \/ ~opt.passthrough THEN ForwarderAfter(osc, chunk) ELSE osc
          /\ filter' = IF primary /\ ~opt.passthrough THEN FilterAfter(filter, chunk) ELSE filter
          /\ host' = IF repair \/ ~primary THEN "ground"
                     ELSE IF Raw(chunk) THEN After(host, chunk) ELSE host
          /\ owed' = IF Raw(chunk) THEN owed - Questions(host, chunk) ELSE owed
    /\ chunk' = <<>>
    /\ pendingRedraw' = (pendingRedraw \/ opt.bar)
    /\ keyAt' = IF keyAt = "off" THEN "off" ELSE "armed"
    /\ UNCHANGED <<opt, sizes, dirty, active, bar, up, ready, out, in, closed,
                   cooked, user>>

(* drain_on_hup: the rest of the output only reaches the vt100 screen.       *)
HangUp ==
    /\ pc = "flush" /\ ready.hangup /\ pc' = "leave"
    /\ out' = <<>> /\ bar' = IF opt.bar THEN DrawnBar ELSE bar
    /\ ready' = Nothing
    /\ UNCHANGED <<opt, sizes, screen, pendingRedraw, keyAt, dirty, active, up, chunk, in,
                   closed, cooked, user>>

(* flush_when_idle, if poll saw the child quiet.                             *)
Idle ==
    /\ pc = "flush" /\ ~ready.hangup
    /\ pc' = IF ~ready.output /\ keyAt = "due" THEN "key" ELSE "stdin"
    /\ IF ~ready.output /\ opt.bar /\ pendingRedraw
       THEN /\ pendingRedraw' = FALSE /\ bar' = DrawnBar
            /\ host' = IF active /\ term >= 2 THEN "ground" ELSE host
       ELSE UNCHANGED <<pendingRedraw, bar, host>>
    /\ UNCHANGED <<opt, sizes, wasAlt, scan, filter, osc, owed, keyAt, dirty, active, up,
                   ready, pty, cooked, user>>

InjectKey ==
    /\ pc = "key" /\ pc' = "stdin"
    /\ WriteToChild /\ keyAt' = "off"
    /\ UNCHANGED <<opt, term, content, ptyRows, screen, pendingRedraw, dirty, active, bar, up,
                   ready, chunk, out, closed, cooked, user>>

(* What looks like a terminal's reply is dropped unless queries were passed. *)
Accepted == opt.passthrough \/ typed = "keys"
ReadStdin ==
    /\ pc = "stdin"
    /\ ready' = Nothing
    /\ \/ ~ready.input /\ pc' = "winch" /\ UNCHANGED <<typed, in, sig, winch>>
       \/ ready.input /\ typed = "eof" /\ pc' = "leave" /\ UNCHANGED <<typed, in, sig, winch>>
       \/ /\ ready.input /\ typed # "eof" /\ pc' = "winch" /\ typed' = "nothing"
          /\ IF Accepted THEN WriteToChild ELSE UNCHANGED <<in, sig, winch>>
    /\ UNCHANGED <<opt, term, content, ptyRows, screen, bars, up, chunk, out, closed,
                   cooked, events>>

------------------------------------------------------------------------------
(* After the loop.                                                           *)

(* The line mode left as it is when the loop ends.                           *)
LeaveRaw ==
    /\ pc = "leave" /\ pc' = "wait"
    /\ UNCHANGED <<opt, sizes, screen, bars, up, ready, pty, cooked, user>>

(* The terminal is reset, the master closed and the line mode restored.      *)
Leave ==
    /\ pc = "leave" /\ pc' = "wait"
    /\ cooked' = TRUE
    /\ UNCHANGED <<opt, sizes, screen, bars, up, ready, pty, user>>

WaitChild ==
    /\ pc = "wait" /\ closed /\ pc' = "teardown"
    /\ UNCHANGED <<opt, sizes, screen, bars, up, ready, pty, cooked, user>>

Teardown ==
    /\ pc = "teardown" /\ pc' = "exit"
    /\ active' = FALSE
    /\ dirty' = IF active THEN FALSE ELSE dirty
    /\ bar' = IF active THEN Undrawn ELSE bar
    /\ UNCHANGED <<opt, sizes, screen, pendingRedraw, keyAt, up, ready, pty, cooked, user>>

Proxy == \/ Setup \/ Build \/ Measure \/ EnterRaw \/ Spawn
         \/ TakeWinch \/ Repaint \/ ResizePty
         \/ Poll \/ PollInterrupted \/ ReadMaster \/ Reply \/ Render
         \/ HangUp \/ Idle \/ InjectKey \/ ReadStdin
         \/ Leave \/ WaitChild \/ Teardown

------------------------------------------------------------------------------
(* The others.                                                               *)

Happens == events < MaxEvents /\ events' = events + 1

Resize ==
    /\ Happens
    /\ term' \in Sizes \ {term} /\ sig' = TRUE
    /\ UNCHANGED <<pc, opt, winch, content, ptyRows, screen, bars, up, ready, pty, cooked,
                   typed>>

(* forward_signal, between two steps of the proxy or in another thread.      *)
HandleWinch ==
    /\ sig /\ sig' = FALSE /\ winch' = TRUE
    /\ UNCHANGED <<pc, opt, term, content, ptyRows, screen, bars, up, ready, pty, cooked, user>>

(* RESIZE_REDRAW_DELAY has passed.                                           *)
Tick ==
    /\ keyAt = "armed" /\ keyAt' = "due"
    /\ UNCHANGED <<pc, opt, sizes, screen, pendingRedraw, dirty, active, bar, up, ready, pty,
                   cooked, user>>

(* The thread of check_update_background.                                    *)
Checked ==
    /\ up = "checking"
    /\ \/ up' = "off" /\ UNCHANGED events
       \/ up' = "found" /\ Happens
    /\ UNCHANGED <<pc, opt, sizes, screen, bars, ready, pty, cooked, typed>>
RequestRedraw ==
    /\ up = "found" /\ up' = "done"
    /\ dirty' = TRUE
    /\ UNCHANGED <<pc, opt, sizes, screen, pendingRedraw, keyAt, active, bar, ready, pty,
                   cooked, user>>

Looping == pc \in {"winch", "repaint", "resize", "poll", "read", "reply", "render", "flush",
                   "key", "stdin"}

(* The child writes the next byte of well-formed output.                     *)
BytesAt(place) ==
    CASE place = "ground" -> {"text", "open", "ask1", "alt", "primary"}
      [] place = "string" -> {"text", "close"}
      [] place = "ask"    -> {"ask2"}
ChildWrites ==
    /\ Looping /\ ~closed /\ Len(out) < OutCap /\ Happens
    /\ \E b \in Bytes : b \in BytesAt(After(scan, chunk \o out)) /\ out' = Append(out, b)
    /\ UNCHANGED <<pc, opt, sizes, screen, bars, up, ready, chunk, in, closed, cooked, typed>>

ChildReads ==
    /\ in > 0 /\ in' = in - 1
    /\ UNCHANGED <<pc, opt, sizes, screen, bars, up, ready, chunk, out, closed,
                   cooked, user>>

ChildExits ==
    /\ Looping \/ pc \in {"leave", "wait"}
    /\ ~closed /\ closed' = TRUE
    /\ UNCHANGED <<pc, opt, sizes, screen, bars, up, ready, chunk, out, in, cooked,
                   user>>

(* Keys, a reply of the terminal, or its end.                                *)
Types ==
    /\ Looping /\ typed = "nothing" /\ Happens
    /\ typed' \in {"keys", "reply", "eof"}
    /\ UNCHANGED <<pc, opt, sizes, screen, bars, up, ready, pty, cooked>>

Others == \/ Resize \/ HandleWinch \/ Tick \/ Checked \/ RequestRedraw
          \/ ChildWrites \/ ChildReads \/ ChildExits \/ Types

Next == Proxy \/ Others

Spec == Init /\ [][Next]_vars

(* The kernel runs the proxy, its handler and the update thread; the child   *)
(* keeps reading what it is sent.  Nobody need type, resize, write or exit.  *)
FairSpec ==
    /\ Spec
    /\ WF_vars(Proxy) /\ WF_vars(HandleWinch) /\ WF_vars(RequestRedraw) /\ WF_vars(ChildReads)

------------------------------------------------------------------------------
(* Every counter, size and queue of the proxy stays in its type, and every   *)
(* queue in its capacity.  (A flag is a flag, and a place in the stream is   *)
(* whatever After makes of it.)                                              *)
TypeOK ==
    /\ pc \in Points /\ opt \in Options
    /\ term \in Sizes /\ content \in Nat /\ ptyRows \in Nat
    /\ owed \in Int /\ keyAt \in {"off", "armed", "due"}
    /\ up \in {"off", "checking", "found", "done"}
    /\ chunk \in Seq(Bytes) /\ out \in Seq(Bytes) /\ Len(out) <= OutCap
    /\ in \in 0..InCap /\ typed \in {"nothing", "keys", "reply", "eof"}
    /\ events \in 0..MaxEvents

(* When the loop waits with no resize on its way, the vt100 screen, the PTY  *)
(* and the bar have the size the terminal has, however the resizes fell      *)
(* between the steps of handle_sigwinch (src/pty.rs).                        *)
SizesAgree ==
    pc = "poll" /\ ~winch /\ ~sig /\ Fits(term) =>
        content = Content(term) /\ ptyRows = content /\ (active => bar.row = term)

(* No cursor question is answered twice, by the proxy and by the terminal;   *)
(* and with filtered output every one is answered (or its answer given up to *)
(* a signal) by the time the loop waits again, however reads cut it.         *)
NeverTwice   == owed >= 0
AllAnswered  == pc = "poll" /\ ~opt.passthrough => owed = 0
AnsweredOnce == NeverTwice /\ AllAnswered

(* With filtered output the forwarder of window titles follows the child's   *)
(* output through every read and every switch of the screen (OscForwarder).  *)
TitlesInStep == pc = "poll" /\ ~opt.passthrough => osc = scan

(* The filter of the primary screen, when that screen is shown, takes no     *)
(* plain text for a part of a control string (TerminalFilter: "It retains    *)
(* normal text").                                                            *)
FilterKeepsText ==
    pc = "poll" /\ ~opt.passthrough /\ ~wasAlt /\ scan = "ground" => filter = "ground"

(* What is drawn fills the last row exactly, leaving its last column blank,  *)
(* whatever the width and the texts (draw: "Leave the final terminal column  *)
(* blank").                                                                  *)
BarFits == bar.row > 0 => LayoutFits[bar.new]

(* A redraw asked for after a newer release was found is made, unless it was *)
(* asked for between a resize's redraw and its take_requests.                *)
NoticeShown ==
    (dirty /\ up = "done" /\ pc # "resize") ~> (bar.new \/ ~active \/ term < 2 \/ ~Looping)

(* A resize reaches the PTY even though signals merge and the flag is taken  *)
(* before the size is read.                                                  *)
ResizeArrives ==
    (Looping /\ ptyRows # Content(term)) ~>
        (ptyRows = Content(term) \/ ~Fits(term) \/ ~Looping)

(* Once the child has hung up the session ends, with the user's line mode    *)
(* back and the bar gone.                                                    *)
SessionEnds == closed ~> (pc = "exit" /\ cooked /\ ~active)
=============================================================================

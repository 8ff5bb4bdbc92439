----------------------------- MODULE LocalPane -----------------------------
(***************************************************************************)
(* One pane with its child process and the threads that serve it:          *)
(* mux/src/localpane.rs, the reading and the parsing thread of             *)
(* mux/src/lib.rs, and the task of mux/src/command_injection.rs that types *)
(* the default command of a workspace into a new shell.                    *)
(*                                                                         *)
(* The child writes to a pty; a thread copies that to a socket, another    *)
(* parses it and applies it to the terminal, holding it back between the   *)
(* two marks of a synchronized update.  A third waits for the child.  All  *)
(* of them post closures to the main thread, which alone removes the pane. *)
(*                                                                         *)
(* The pane is alone in its tab, and no Activity is held: module Mux has   *)
(* the other tabs and what an Activity delays.  Of time there is only      *)
(* whether a delay is over.  Splitting what is written into bytes, the     *)
(* size of the parser's buffer, and failing to make the socket are left    *)
(* out.                                                                    *)
(***************************************************************************)
EXTENDS Naturals, Sequences

CONSTANTS
    Budgets,        \* bounds of a behaviour: pieces of output, and upsets, which
                    \* are resizes, reloads, connections and other processes
    Behaviors       \* values that exit_behavior takes

ASSUME PaneAssumption ==
    /\ Budgets \subseteq [command : BOOLEAN, connecting : BOOLEAN, output : Nat, upsets : Nat]
    /\ Behaviors \subseteq {"Close", "CloseOnCleanExit", "Hold"}

\* Text, and the marks that begin and end a synchronized update (a soft reset ends
\* one too).
Piece == {"text", "begin", "end"}
Held == "DeadPendingClose"

VARIABLES
    child,      \* the shell: starting until it has flushed its input
    writers,    \* who has the pty open
    out,        \* output: written, and where it is on its way to the terminal
    reader,     \* the thread in read_from_pane_pty
    parser,     \* the thread in parse_buffered_data
    waiter,     \* the thread of split_child
    pane,       \* the LocalPane, its place in the mux, the queued closures
    main,       \* "tabs": in the middle of a prune
    config,     \* exit_behavior
    inject,     \* inject_text_after_first_output
    past,       \* history: what has happened to the pane
    left        \* of the bounds

vars == <<child, writers, out, reader, parser, waiter, pane, main, config,
          inject, past, left>>

Exited == {"clean", "unclean"}
Waiting == {"queued", "armed", "due"}

Init ==
    /\ child = "starting" /\ writers = {"child"}
    /\ out = [written |-> <<>>, pty |-> <<>>, socket |-> <<>>, buffer |-> <<>>,
              actions |-> <<>>, hold |-> FALSE, shown |-> <<>>]
    /\ reader = [at |-> "starting", override |-> FALSE, dead |-> FALSE]
    /\ parser = "reading" /\ waiter = "waiting"
    /\ left \in Budgets
    /\ pane = [proc |-> "Running", killed |-> FALSE, status |-> "empty",
               override |-> left.connecting, inMux |-> TRUE, inTab |-> TRUE,
               queue |-> IF left.command THEN <<"inject">> ELSE <<>>]
    /\ inject = [at |-> IF left.command THEN "queued" ELSE "none",
                 changed |-> FALSE, late |-> FALSE, into |-> "none"]
    /\ main = "free"
    /\ config \in Behaviors
    /\ past = [closed |-> FALSE, disturbed |-> FALSE,
               behaviors |-> {config} \cup IF pane.override THEN {"CloseOnCleanExit"} ELSE {}]

----------------------------------------------------------------------------
(* The pane: pure operators on the record "pane".                          *)

Post(p, closure) == [p EXCEPT !.queue = Append(@, closure)]

ExitBehavior(override) == IF override THEN "CloseOnCleanExit" ELSE config

\* is_dead: the first to ask after the exit decides what becomes of the pane, and
\* explains it in the pane if that is held.
IsDead(p) ==
    LET behavior == ExitBehavior(p.override)
        held == \/ behavior = "CloseOnCleanExit" /\ p.status = "unclean"
                \/ behavior = "Hold" /\ ~p.killed
    IN  IF p.proc = "Running" /\ p.status # "empty"
        THEN IF held THEN Post([p EXCEPT !.proc = Held, !.killed = FALSE], "message")
             ELSE [p EXCEPT !.proc = "Dead", !.killed = FALSE]
        ELSE IF p.proc = Held /\ p.killed THEN [p EXCEPT !.proc = "Dead", !.killed = FALSE]
        ELSE p

RemovePaneInternal(p) ==
    IF p.inMux THEN [p EXCEPT !.inMux = FALSE, !.killed = p.proc # "Dead"] ELSE p

\* The first half of a prune: Tab::prune_dead_panes.
PruneDeadPanes(p) ==
    LET q == IF p.inTab THEN IsDead(p) ELSE p IN
    IF q.inTab /\ (q.proc = "Dead" \/ ~q.inMux)
    THEN Post([q EXCEPT !.inTab = FALSE], "remove") ELSE q

\* The second half: the tab is removed with its pane if that has died meanwhile.
PruneDeadTabs(p) ==
    LET q == IF p.inTab THEN IsDead(p) ELSE p IN
    IF q.inTab /\ q.proc = "Dead"
    THEN [RemovePaneInternal(q) EXCEPT !.inTab = FALSE] ELSE q

\* The threads have weak references only; the task that types a command has a
\* strong one.
Alive == pane.inMux \/ pane.inTab \/ inject.at \in Waiting

----------------------------------------------------------------------------
(* The child, and who else has its pty.                                    *)

Upset == left.upsets > 0 /\ left' = [left EXCEPT !.upsets = @ - 1]

\* The shell is set up: what was typed before is flushed (tcflush).
ChildReady ==
    /\ child = "starting" /\ child' = "running"
    /\ UNCHANGED <<writers, out, reader, parser, waiter, pane, main, config, inject, past, left>>

Write(x) ==
    /\ writers # {} /\ child # "starting"
    /\ left.output > 0 /\ left' = [left EXCEPT !.output = @ - 1]
    /\ out' = [out EXCEPT !.written = Append(@, x), !.pty = Append(@, x)]
    /\ UNCHANGED <<child, writers, reader, parser, waiter, pane, main, config, inject, past>>

ChildExits(status) ==
    /\ child \notin Exited /\ child' = status
    /\ writers' = writers \ {"child"}
    /\ UNCHANGED <<out, reader, parser, waiter, pane, main, config, inject, past, left>>

\* It goes on without its terminal, or leaves that to a process of its own.
ChildCloses ==
    /\ Upset /\ child = "running" /\ "child" \in writers
    /\ writers' \in {{}, {"other"}}
    /\ UNCHANGED <<child, out, reader, parser, waiter, pane, main, config, inject, past>>

ChildForks ==
    /\ Upset /\ child = "running" /\ "child" \in writers
    /\ writers' = {"child", "other"}
    /\ UNCHANGED <<child, out, reader, parser, waiter, pane, main, config, inject, past>>

OtherExits ==
    /\ "other" \in writers /\ writers' = writers \ {"other"}
    /\ UNCHANGED <<child, out, reader, parser, waiter, pane, main, config, inject, past, left>>

----------------------------------------------------------------------------
(* The threads.                                                            *)

\* The exit status is sent before the main thread is told to look for it.
WaiterSends ==
    /\ waiter = "waiting" /\ child \in Exited
    /\ waiter' = "sent" /\ pane' = [pane EXCEPT !.status = child]
    /\ UNCHANGED <<child, writers, out, reader, parser, main, config, inject, past, left>>

\* Mutant: the main thread is left to notice by itself.
WaiterKeepsQuiet ==
    /\ waiter = "sent" /\ waiter' = "done"
    /\ UNCHANGED <<child, writers, out, reader, parser, pane, main, config, inject, past, left>>

WaiterPosts ==
    /\ waiter = "sent"
    /\ waiter' = "done" /\ pane' = Post(pane, "prune")
    /\ UNCHANGED <<child, writers, out, reader, parser, main, config, inject, past, left>>

\* read_from_pane_pty: there may be a banner, which is the first output then.
ReaderStarts(banner) ==
    /\ reader.at = "starting"
    /\ banner => left.output > 0
    /\ left' = [left EXCEPT !.output = IF banner THEN @ - 1 ELSE @]
    /\ IF Alive
       THEN /\ reader' = [reader EXCEPT !.at = "reading", !.override = pane.override]
            /\ parser' = parser
            /\ out' = IF banner THEN [out EXCEPT !.socket = <<"text">>] ELSE out
            /\ past' = [past EXCEPT !.disturbed = @ \/ banner]
       ELSE /\ reader' = [reader EXCEPT !.at = "done"]
            /\ parser' = "done"
            /\ UNCHANGED <<out, past>>
    /\ UNCHANGED <<child, writers, waiter, pane, main, config, inject>>

ReaderReads(n) ==
    /\ reader.at = "reading" /\ n \in DOMAIN out.pty
    /\ out' = [out EXCEPT !.pty = SubSeq(@, n + 1, Len(@)),
                          !.socket = @ \o SubSeq(out.pty, 1, n)]
    /\ reader' = [reader EXCEPT !.at = IF reader.dead THEN "ended" ELSE "reading"]
    /\ UNCHANGED <<child, writers, parser, waiter, pane, main, config, inject, past, left>>

ReaderEnds ==
    /\ reader.at = "reading" /\ out.pty = <<>> /\ writers = {}
    /\ reader' = [reader EXCEPT !.at = "ended"]
    /\ UNCHANGED <<child, writers, out, parser, waiter, pane, main, config, inject, past, left>>

\* Mutant: the end of the output is taken for the clean exit of the child.
ReaderPostsRemove ==
    /\ reader.at = "ended"
    /\ pane' = Post(pane, IF ExitBehavior(reader.override) = "Hold" THEN "prune" ELSE "remove")
    /\ reader' = [reader EXCEPT !.at = "done", !.dead = TRUE]
    /\ UNCHANGED <<child, writers, out, parser, waiter, main, config, inject, past, left>>

\* What it posts depends on the override it read when it started and on the
\* configuration now.  The parser sees the end of the socket after that.
ReaderPosts ==
    /\ reader.at = "ended"
    /\ pane' = Post(pane, IF ExitBehavior(reader.override) = "Close" THEN "remove" ELSE "prune")
    /\ reader' = [reader EXCEPT !.at = "done", !.dead = TRUE]
    /\ UNCHANGED <<child, writers, out, parser, waiter, main, config, inject, past, left>>

\* send_actions_to_mux, of all actions there are then.
SendActions(o) ==
    IF Alive
    THEN /\ out' = [o EXCEPT !.shown = @ \o o.actions, !.actions = <<>>]
         /\ inject' = [inject EXCEPT !.changed = TRUE]
         /\ UNCHANGED reader
    ELSE /\ out' = [o EXCEPT !.actions = <<>>]
         /\ reader' = [reader EXCEPT !.dead = TRUE]
         /\ UNCHANGED inject

ParserReads(n) ==
    /\ parser = "reading" /\ n \in DOMAIN out.socket
    /\ parser' = "parsing"
    /\ out' = [out EXCEPT !.socket = SubSeq(@, n + 1, Len(@)),
                          !.buffer = SubSeq(out.socket, 1, n)]
    /\ UNCHANGED <<child, writers, reader, waiter, pane, main, config, inject, past, left>>

\* A mark starts or ends the hold, and flushes what came up to it.
ParsePiece ==
    /\ parser = "parsing" /\ out.buffer # <<>>
    /\ LET x == Head(out.buffer)
           o == [out EXCEPT !.buffer = Tail(@), !.actions = Append(@, x),
                            !.hold = IF x = "text" THEN @ ELSE x = "begin"]
       IN  IF x = "text" THEN out' = o /\ UNCHANGED <<reader, inject>> ELSE SendActions(o)
    /\ UNCHANGED <<child, writers, parser, waiter, pane, main, config, past, left>>

\* Mutant: the hold is forgotten when the delay is over.
ParserFlushesAll ==
    /\ parser = "parsing" /\ out.buffer = <<>>
    /\ parser' = "reading"
    /\ IF out.actions = <<>> THEN UNCHANGED <<out, reader, inject>> ELSE SendActions(out)
    /\ UNCHANGED <<child, writers, waiter, pane, main, config, past, left>>

\* The buffer is through: what is not held goes to the terminal, unless more can
\* be read within the delay.
ParserFlushes ==
    /\ parser = "parsing" /\ out.buffer = <<>>
    /\ parser' = "reading"
    /\ IF out.actions = <<>> \/ out.hold THEN UNCHANGED <<out, reader, inject>>
       ELSE SendActions(out)
    /\ UNCHANGED <<child, writers, waiter, pane, main, config, past, left>>

ParserGoesOn ==
    /\ parser = "parsing" /\ out.buffer = <<>>
    /\ out.actions # <<>> /\ ~out.hold
    /\ out.socket # <<>> \/ reader.at = "done"
    /\ parser' = "reading"
    /\ UNCHANGED <<child, writers, out, reader, waiter, pane, main, config, inject, past, left>>

\* Mutant: what is still held is forgotten.
ParserStops ==
    /\ parser = "reading" /\ out.socket = <<>> /\ reader.at = "done"
    /\ parser' = "done"
    /\ UNCHANGED <<child, writers, out, reader, waiter, pane, main, config, inject, past, left>>

\* "Don't forget to send anything that we might have buffered".
ParserEnds ==
    /\ parser = "reading" /\ out.socket = <<>> /\ reader.at = "done"
    /\ parser' = "done"
    /\ IF out.actions = <<>> THEN UNCHANGED <<out, reader, inject>> ELSE SendActions(out)
    /\ UNCHANGED <<child, writers, waiter, pane, main, config, past, left>>

----------------------------------------------------------------------------
(* The main thread.                                                        *)

Dequeued == [pane EXCEPT !.queue = Tail(@)]
Runs(closure) == main = "free" /\ pane.queue # <<>> /\ Head(pane.queue) = closure

RunPrune ==
    /\ Runs("prune")
    /\ pane' = PruneDeadPanes(Dequeued) /\ main' = "tabs"
    /\ UNCHANGED <<child, writers, out, reader, parser, waiter, config, inject, past, left>>

\* remove_pane.
RunRemove ==
    /\ Runs("remove")
    /\ pane' = PruneDeadPanes(RemovePaneInternal(Dequeued)) /\ main' = "tabs"
    /\ UNCHANGED <<child, writers, out, reader, parser, waiter, config, inject, past, left>>

FinishPrune ==
    /\ main = "tabs" /\ main' = "free"
    /\ pane' = PruneDeadTabs(pane)
    /\ UNCHANGED <<child, writers, out, reader, parser, waiter, config, inject, past, left>>

\* emit_output_for_pane, whose output nobody has written.
RunMessage ==
    /\ Runs("message")
    /\ pane' = Dequeued
    /\ IF pane.inMux
       THEN /\ inject' = [inject EXCEPT !.changed = TRUE]
            /\ past' = [past EXCEPT !.disturbed = TRUE]
       ELSE UNCHANGED <<inject, past>>
    /\ UNCHANGED <<child, writers, out, reader, parser, waiter, main, config, left>>

\* One turn of the loop of inject_text_after_first_output.  The first notes the
\* sequence number that the terminal has then.
InjectTurn(output, expired) ==
    /\ Runs("inject")
    /\ pane' = IsDead(Dequeued)
    /\ inject' = IF pane'.proc = "Dead" THEN [inject EXCEPT !.at = "gave up"]
                 ELSE IF inject.at = "queued"
                 THEN [inject EXCEPT !.at = "armed", !.changed = FALSE]
                 ELSE IF output THEN [inject EXCEPT !.at = "typed", !.into = child]
                 ELSE IF expired THEN [inject EXCEPT !.at = "gave up"]
                 ELSE [inject EXCEPT !.at = "armed"]
    /\ UNCHANGED <<child, writers, out, reader, parser, waiter, main, config, past, left>>

\* Mutants: to type when the time is up, and to wait for the output for ever.
InjectAnyway == InjectTurn(inject.changed \/ inject.late, FALSE)
InjectPatiently == InjectTurn(inject.changed, FALSE)

RunInject == InjectTurn(inject.changed, inject.late)

TimerFires ==
    /\ inject.at = "armed"
    /\ inject' = [inject EXCEPT !.at = "due"] /\ pane' = Post(pane, "inject")
    /\ UNCHANGED <<child, writers, out, reader, parser, waiter, main, config, past, left>>

TimeIsUp ==
    /\ inject.at \in {"armed", "due"} /\ ~inject.late
    /\ inject' = [inject EXCEPT !.late = TRUE]
    /\ UNCHANGED <<child, writers, out, reader, parser, waiter, pane, main, config, past, left>>

----------------------------------------------------------------------------
(* Users.                                                                  *)

\* CloseCurrentPane, or KillPane of a client.
UserCloses ==
    /\ Upset /\ main = "free" /\ pane.inMux
    /\ pane' = PruneDeadPanes(RemovePaneInternal(pane)) /\ main' = "tabs"
    /\ past' = [past EXCEPT !.closed = TRUE]
    /\ UNCHANGED <<child, writers, out, reader, parser, waiter, config, inject>>

\* A resize counts as a change of the terminal.
Resize ==
    /\ Upset /\ main = "free" /\ pane.inTab
    /\ inject' = [inject EXCEPT !.changed = TRUE]
    /\ past' = [past EXCEPT !.disturbed = TRUE]
    /\ UNCHANGED <<child, writers, out, reader, parser, waiter, pane, main, config>>

ReloadConfig(behavior) ==
    /\ Upset /\ behavior # config
    /\ config' = behavior
    /\ past' = [past EXCEPT !.behaviors = @ \cup {behavior}]
    /\ UNCHANGED <<child, writers, out, reader, parser, waiter, pane, main, inject>>

\* An ssh session is connected; a failed spawn never is.
Connects ==
    /\ Upset /\ pane.override /\ pane' = [pane EXCEPT !.override = FALSE]
    /\ UNCHANGED <<child, writers, out, reader, parser, waiter, main, config, inject, past>>

----------------------------------------------------------------------------
Reader == ReaderEnds \/ ReaderPosts
          \/ (\E banner \in BOOLEAN : ReaderStarts(banner))
          \/ (\E n \in DOMAIN out.pty : ReaderReads(n))
Parser == ParsePiece \/ ParserFlushes \/ ParserGoesOn \/ ParserEnds
          \/ (\E n \in DOMAIN out.socket : ParserReads(n))
Waiter == WaiterSends \/ WaiterPosts
Main == RunPrune \/ RunRemove \/ FinishPrune \/ RunMessage \/ RunInject

Next ==
    \/ ChildReady \/ ChildCloses \/ ChildForks \/ OtherExits
    \/ \E x \in Piece : Write(x)
    \/ \E status \in Exited : ChildExits(status)
    \/ Reader \/ Parser \/ Waiter \/ Main \/ TimerFires \/ TimeIsUp
    \/ UserCloses \/ Resize \/ Connects
    \/ \E behavior \in Behaviors : ReloadConfig(behavior)

\* The threads are scheduled, what is queued is run, and timers fire.  Nothing is
\* assumed of the child, of other processes or of users.
Fairness ==
    /\ WF_vars(Reader) /\ WF_vars(Parser) /\ WF_vars(Waiter) /\ WF_vars(Main)
    /\ WF_vars(TimerFires) /\ WF_vars(TimeIsUp)

Spec == Init /\ [][Next]_vars
FairSpec == Spec /\ Fairness

----------------------------------------------------------------------------
\* The threads and the pane are in one of their stages, and a pane leaves the first
\* of its own only with an exit status (is_dead).
TypeOK ==
    /\ child \in {"starting", "running"} \cup Exited
    /\ writers \subseteq {"child", "other"}
    /\ \A f \in {"written", "pty", "socket", "buffer", "actions", "shown"} : out[f] \in Seq(Piece)
    /\ reader.at \in {"starting", "reading", "ended", "done"}
    /\ pane.proc \in {"Running", Held, "Dead"}
    /\ pane.status \in {"empty"} \cup Exited
    /\ pane.proc # "Running" => pane.status # "empty"

Marks(s) == {i \in DOMAIN s : s[i] # "text"}

\* The terminal shows nothing of a synchronized update before it ends, however it
\* arrives and whatever the delay, unless the output ends within it, or another one
\* begins, which flushes what was held (parse_buffered_data).  Checked together with
\* TypeOK.
FramesAreWhole == TypeOK /\
    \A i \in Marks(out.shown) :
        out.shown[i] = "begin" /\ i < Len(out.shown) =>
            parser = "done" \/ \E j \in Marks(out.shown) : j > i

\* The default command of a workspace is not typed into a shell that is going to
\* flush its input, unless the terminal changed by something else than output of
\* the shell (inject_text_after_first_output).
CommandSurvives == inject.into = "starting" => past.disturbed

\* A pane that no user closed goes only when its child has let go of the terminal,
\* and for a reason that exit_behavior gave some time: that it is "Close", or that
\* the child exited cleanly.  In particular a child that goes on without its
\* terminal is not taken for one that exited, except with "Close"
\* (read_from_pane_pty and is_dead, which decide apart from each other).
ClosedForAReason ==
    ~pane.inMux /\ ~past.closed =>
        /\ "child" \notin writers
        /\ \/ "Close" \in past.behaviors
           \/ "CloseOnCleanExit" \in past.behaviors /\ child = "clean"

\* When the child exits, the pane is held or removed in the end, also when another
\* process keeps the pty open, so that the reading thread sees no end of it
\* (split_child).
ExitIsNoticed ==
    child \in Exited ~> pane.proc = Held \/ ~(pane.inMux \/ pane.inTab)

\* When nobody has the pty open any more, what was written is shown in the end, in
\* order, up to the last piece, after the banner if there is one; unless the pane
\* is removed (the end of parse_buffered_data).
LastWordsShown ==
    writers = {} ~> ~pane.inMux \/ \E n \in 0..Len(out.shown) :
                        SubSeq(out.shown, n + 1, Len(out.shown)) = out.written

\* The task that is to type a command does so or gives up in the end, with or
\* without output, and lets go of the pane (inject_text_after_first_output).
InjectionEnds == inject.at \in Waiting ~> inject.at \in {"typed", "gave up"}
=============================================================================

---------------------------- MODULE RemoteLines ----------------------------
(***************************************************************************)
(* A pane on a mux server and the copy of its lines on a client: PerPane   *)
(* of wezterm-mux-server-impl/src/sessionhandler.rs, the connection, and   *)
(* RenderableInner of wezterm-client/src/pane/renderable.rs.               *)
(*                                                                         *)
(* On the server the parser thread changes the terminal while the main     *)
(* thread works out what to push, so that work is several steps here.  On  *)
(* the client everything happens on the main thread, one message at a      *)
(* time.  A message with images in its lines waits for them before it is   *)
(* applied, and later ones overtake it.                                    *)
(*                                                                         *)
(* Left out: title, directory and mouse mode of the pane, whose changes    *)
(* also cause a push; columns; lines that fall off the scrollback; the     *)
(* death of the pane; eviction (the cache holds at least 128 lines).       *)
(***************************************************************************)
EXTENDS LineCache, Sequences, SequencesExt

CONSTANTS
    Screen,         \* rows of the screen (viewport_rows)
    MaxWire,        \* bound on messages on their way to the client
    MaxUpsets,      \* bound on keys, broken connections and messages with
                    \* images over a behaviour
    LocalEcho       \* TRUE: the round trips exceed local_echo_threshold_ms

ASSUME RemoteAssumption ==
    /\ Screen \in 1..Rows
    /\ MaxWire \in Nat /\ MaxUpsets \in Nat
    /\ LocalEcho \in BOOLEAN

VARIABLES
    term,           \* the terminal on the server
    session,        \* what the server has told this client (PerPane)
    job,            \* compute_changes on the server's main thread
    due,            \* what it is to run for: a push, keys to answer
    connected,      \* the client has a connection
    wire,           \* messages to the client, applied ones taken out
    asked,          \* GetLines requests not answered yet
    client,         \* what the client has of the pane
    typed,          \* history: keys typed so far
    upsets,         \* history: keys, broken connections, images
    overtaken       \* history: a delta was applied before an earlier one

server == <<term, session, job, due>>
vars == <<term, session, job, due, connected, wire, asked, client, typed,
          upsets, overtaken>>

\* PerPane::default(): nothing told, dimensions of no screen.
NewSession == [seqno |-> 0, cursor |-> 1, top |-> 0]
NoJob == [stage |-> "none", serial |-> 0, top |-> 0, cursor |-> 0, old |-> 0,
          dirty |-> {}]

LastRow(top) == top + Screen - 1

Delta == [type : {"delta"}, images : BOOLEAN, dirty : SUBSET Row,
          bonus : UNION {[R -> 1..MaxSeq] : R \in SUBSET Row},
          cursor : Row, top : Row, serial : 0..MaxUpsets, seqno : 1..MaxSeq]
Fetch == [at : Instant, rows : SUBSET Row]
Answer == [type : {"lines"}, images : BOOLEAN, at : Instant, rows : SUBSET Row,
           vers : UNION {[R -> 1..MaxSeq] : R \in SUBSET Row}]
          \cup [type : {"failed"}, images : {FALSE}, at : Instant, rows : SUBSET Row]

Init ==
    /\ term = [seqno |-> 1, ver |-> [r \in Row |-> 1], cursor |-> 1, top |-> 1]
    /\ session = NewSession
    /\ job = NoJob
    /\ due = [push |-> FALSE, keys |-> <<>>]
    /\ connected = TRUE
    /\ wire = <<>> /\ asked = {}
    /\ client = [lines |-> [r \in Row |-> Absent], seqno |-> 0, cursor |-> 1,
                 top |-> 1, serial |-> 0]
    /\ typed = 0 /\ upsets = 0 /\ overtaken = FALSE

----------------------------------------------------------------------------
(* The server.                                                             *)

\* The parser applies output: some lines of the screen change, the cursor moves,
\* and the screen may scroll by a line, which the new bottom line counts as.  The
\* sessions are told of the output when there are any.
Output(changed, cursor, scrolls) ==
    LET top == term.top + IF scrolls THEN 1 ELSE 0 IN
    /\ term.seqno < MaxSeq
    /\ LastRow(top) <= Rows
    /\ changed \subseteq top..LastRow(top)
    /\ scrolls => LastRow(top) \in changed
    /\ cursor \in top..LastRow(top)
    /\ term' = [seqno |-> term.seqno + 1, top |-> top, cursor |-> cursor,
                ver |-> [r \in Row |-> IF r \in changed THEN term.seqno + 1
                                       ELSE term.ver[r]]]
    /\ due' = [due EXCEPT !.push = @ \/ connected]
    /\ UNCHANGED <<session, job, connected, wire, asked, client, typed, upsets, overtaken>>

\* compute_changes starts, to push what output or a poll asked for
\* (maybe_push_pane_changes) or to answer a key.  It first reads the dimensions and
\* the cursor.
StartPush(why) ==
    /\ connected /\ job.stage = "none"
    /\ CASE why = "push" -> due.push /\ due' = [due EXCEPT !.push = FALSE]
         [] why = "key" -> due.keys # <<>> /\ due' = [due EXCEPT !.keys = Tail(@)]
    /\ job' = [stage |-> "seqno", top |-> term.top, cursor |-> term.cursor,
               serial |-> IF why = "key" THEN Head(due.keys) ELSE 0,
               old |-> session.seqno, dirty |-> {}]
    /\ UNCHANGED <<term, session, connected, wire, asked, client, typed, upsets, overtaken>>

\* The sequence number is taken before the lines that changed since the last one.
TakeSeqno ==
    /\ job.stage = "seqno"
    /\ session' = [session EXCEPT !.seqno = term.seqno]
    /\ job' = [job EXCEPT !.stage = "dirty"]
    /\ UNCHANGED <<term, due, connected, wire, asked, client, typed, upsets, overtaken>>

ChangedSince(old, top) == {r \in 1..LastRow(top) : term.ver[r] > old}

\* Nothing is sent when nothing changed, unless a key is to be answered.
TakeDirty ==
    LET dirty == ChangedSince(job.old, job.top)
        changed == \/ dirty # {}
                   \/ job.top # session.top \/ job.cursor # session.cursor
    IN
    /\ job.stage = "dirty"
    /\ job' = IF changed \/ job.serial > 0
              THEN [job EXCEPT !.stage = "lines", !.dirty = dirty] ELSE NoJob
    /\ UNCHANGED <<term, session, due, connected, wire, asked, client, typed, upsets, overtaken>>

\* A message has images that the client does not know, and will fetch, or has none.
Loads(images) ==
    /\ images => upsets < MaxUpsets
    /\ upsets' = IF images THEN upsets + 1 ELSE upsets

\* The dirty lines of the screen and the cursor's line go along, as they are now.
SendPush(images) ==
    LET screen == job.top..LastRow(job.top) IN
    /\ job.stage = "lines" /\ Len(wire) < MaxWire
    /\ Loads(images)
    /\ wire' = Append(wire,
          [type |-> "delta", images |-> images, dirty |-> job.dirty \ screen,
           bonus |-> [r \in (job.dirty \cap screen) \cup {job.cursor} |-> term.ver[r]],
           cursor |-> job.cursor, top |-> job.top, serial |-> job.serial,
           seqno |-> session.seqno])
    /\ session' = [session EXCEPT !.cursor = job.cursor, !.top = job.top]
    /\ job' = NoJob
    /\ UNCHANGED <<term, due, connected, asked, client, typed, overtaken>>

\* GetLines, between two pushes.  Rows below the screen do not exist.
AnswerFetch(f, images) ==
    /\ connected /\ job.stage = "none" /\ Len(wire) < MaxWire
    /\ f \in asked
    /\ Loads(images)
    /\ wire' = Append(wire,
          [type |-> "lines", images |-> images, at |-> f.at, rows |-> f.rows,
           vers |-> [r \in f.rows \cap 1..LastRow(term.top) |-> term.ver[r]]])
    /\ asked' = asked \ {f}
    /\ UNCHANGED <<term, session, job, due, connected, client, typed, overtaken>>

----------------------------------------------------------------------------
(* The client.                                                             *)

\* An answer wakes the task that waits for it; a delta takes two turns of the
\* main thread, so the answers behind it may come first.  Whatever waits for
\* images is overtaken by anything.
MayTake(i) ==
    \A j \in 1..(i - 1) :
        wire[j].images \/ (wire[j].type = "delta" /\ wire[i].type # "delta")

\* An instant that tags nothing: no two fetches begin at the same one.
Untagged(t) ==
    /\ t \in Instant
    /\ \A r \in Row : client.lines[r].at # t
    /\ \A f \in asked : f.at # t
    /\ \A i \in DOMAIN wire : wire[i].type # "delta" => wire[i].at # t
Now == IF \E t \in Instant : Untagged(t) THEN CHOOSE t \in Instant : Untagged(t) ELSE 0

\* A fetch of these rows may begin: the bound leaves an instant to tag it with.
ClockRuns(rows) == rows # {} => \E t \in Instant : Untagged(t)

Request(t, rows) == IF rows = {} THEN asked ELSE asked \cup {[at |-> t, rows |-> rows]}

TakeDelta(i, admitted) ==
    /\ i \in DOMAIN wire /\ wire[i].type = "delta" /\ MayTake(i)
    /\ admitted => ClockRuns(RowsToFetch(client, wire[i]))
    /\ client' = ApplyChanges(client, wire[i], Now, admitted)
    /\ asked' = IF admitted THEN Request(Now, RowsToFetch(client, wire[i])) ELSE asked
    /\ wire' = RemoveAt(wire, i)
    /\ overtaken' = (overtaken \/ \E j \in 1..(i - 1) : wire[j].type = "delta")
    /\ UNCHANGED <<term, session, job, due, connected, typed, upsets>>

TakeAnswer(i) ==
    /\ i \in DOMAIN wire /\ wire[i].type # "delta" /\ MayTake(i)
    /\ client' = IF wire[i].type = "lines"
                 THEN PutFetched(client, wire[i].at, wire[i].vers)
                 ELSE FailFetch(client, wire[i].at, wire[i].rows)
    /\ wire' = RemoveAt(wire, i)
    /\ UNCHANGED <<term, session, job, due, connected, asked, typed, upsets, overtaken>>

\* Mutant: painting does not poll.
PaintWithoutPoll(first, polls) ==
    LET rows == first..LastRow(first) IN
    /\ first \in 1..client.top /\ LastRow(first) <= Rows
    /\ ClockRuns(RowsMissing(client, rows))
    /\ client' = GetLines(client, rows, Now)
    /\ asked' = Request(Now, RowsMissing(client, rows))
    /\ UNCHANGED <<term, session, job, due, connected, wire, typed, upsets, overtaken>>

\* The pane is painted, scrolled to where "first" is the first row: get_changed_since
\* polls, if no poll is in progress and the interval is over, and get_lines asks for
\* what is missing.
Paint(first, polls) ==
    LET rows == first..LastRow(first) IN
    /\ first \in 1..client.top /\ LastRow(first) <= Rows
    /\ ClockRuns(RowsMissing(client, rows))
    /\ client' = GetLines(client, rows, Now)
    /\ asked' = Request(Now, RowsMissing(client, rows))
    /\ due' = [due EXCEPT !.push = @ \/ polls]
    /\ UNCHANGED <<term, session, job, connected, wire, typed, upsets, overtaken>>

\* A resize, a zoom or a new palette; the lines it changes on the server are
\* Output.
Invalidate ==
    /\ client' = [client EXCEPT !.lines = MakeAllStale(client.lines)]
    /\ UNCHANGED <<term, session, job, due, connected, wire, asked, typed, upsets, overtaken>>

\* key_down; "key" says what is predicted of it, if anything is.
Type(key) ==
    LET numbered == [client EXCEPT !.serial = typed + 1] IN
    /\ upsets < MaxUpsets /\ upsets' = upsets + 1
    /\ typed' = typed + 1
    /\ key # "none" => LocalEcho
    /\ client' = IF key = "none" THEN numbered ELSE PredictKey(numbered, key)
    /\ client'.cursor <= Rows
    /\ due' = [due EXCEPT !.keys = Append(@, typed + 1)]
    /\ UNCHANGED <<term, session, job, connected, wire, asked, overtaken>>

----------------------------------------------------------------------------
(* The connection.                                                         *)

\* The requests of "lost" and the answers not yet read fail; the other requests
\* had not been written and wait for the next connection, as do the keys after
\* the first "keysLost".  The session goes, with what it was about to send.
Break(kept, lost, pushLost, keysLost) ==
    LET unread == {wire[i] : i \in {j \in DOMAIN wire : j > kept /\ wire[j].type # "delta"}}
        failing == {[at |-> m.at, rows |-> m.rows] : m \in lost \cup unread}
    IN
    /\ connected /\ upsets < MaxUpsets
    /\ kept \in 0..Len(wire) /\ lost \subseteq asked /\ keysLost \in 0..Len(due.keys)
    /\ connected' = FALSE /\ upsets' = upsets + 1
    /\ wire' = SubSeq(wire, 1, kept)
               \o SetToSeq({[type |-> "failed", images |-> FALSE, at |-> f.at,
                             rows |-> f.rows] : f \in failing})
    /\ asked' = asked \ lost
    /\ session' = NewSession /\ job' = NoJob
    /\ due' = [push |-> due.push /\ ~pushLost,
               keys |-> SubSeq(due.keys, keysLost + 1, Len(due.keys))]
    /\ UNCHANGED <<term, client, typed, overtaken>>

Reconnect ==
    /\ ~connected /\ connected' = TRUE
    /\ UNCHANGED <<term, session, job, due, wire, asked, client, typed, upsets, overtaken>>

----------------------------------------------------------------------------
Push == \/ \E why \in {"push", "key"} : StartPush(why)
        \/ TakeSeqno \/ TakeDirty
        \/ \E images \in BOOLEAN : SendPush(images)

Deliver == \E i \in DOMAIN wire :
               TakeAnswer(i) \/ \E admitted \in BOOLEAN : TakeDelta(i, admitted)

Next ==
    \/ \E changed \in SUBSET Row, cursor \in Row, scrolls \in BOOLEAN :
           Output(changed, cursor, scrolls)
    \/ Push
    \/ \E f \in asked, images \in BOOLEAN : AnswerFetch(f, images)
    \/ Deliver
    \/ \E first \in Row, polls \in BOOLEAN : Paint(first, polls)
    \/ Invalidate
    \/ \E key \in {"none", "char", "up", "down"} : Type(key)
    \/ \E kept \in 0..Len(wire), lost \in SUBSET asked, pushLost \in BOOLEAN,
          keysLost \in 0..Len(due.keys) : Break(kept, lost, pushLost, keysLost)
    \/ Reconnect

Spec == Init /\ [][Next]_vars

\* The first delta, or the first answer, on its way.
First(i) == \A j \in 1..(i - 1) : (wire[j].type = "delta") # (wire[i].type = "delta")

\* The server's main thread runs what is posted to it, answers get read and
\* applied, a broken connection is made again (client.rs retries without end), and
\* the pane is painted from time to time, scrolled to the bottom.
Fairness ==
    /\ SF_vars(Push)
    /\ \A t \in Instant : SF_vars(\E f \in asked : f.at = t /\ AnswerFetch(f, FALSE))
    /\ SF_vars(\E i \in DOMAIN wire : First(i) /\ TakeAnswer(i))
    /\ SF_vars(\E i \in DOMAIN wire, admitted \in BOOLEAN :
                  First(i) /\ TakeDelta(i, admitted))
    /\ SF_vars(Paint(client.top, TRUE))
    /\ WF_vars(Reconnect)
FairSpec == Spec /\ Fairness

----------------------------------------------------------------------------
\* What crosses the connection, and what either side keeps, is of this form.  No key
\* is numbered zero, which stands for changes that answer no key.
TypeOK ==
    /\ term \in [seqno : 1..MaxSeq, ver : [Row -> 1..MaxSeq], cursor : Row, top : Row]
    /\ session \in [seqno : 0..MaxSeq, cursor : Row, top : 0..Rows]
    /\ job \in [stage : {"none", "seqno", "dirty", "lines"}, serial : 0..MaxUpsets,
                top : 0..Rows, cursor : 0..Rows, old : 0..MaxSeq, dirty : SUBSET Row]
    /\ due \in [push : BOOLEAN, keys : Seq(1..MaxUpsets)]
    /\ connected \in BOOLEAN
    /\ wire \in Seq(Delta \cup Answer)
    /\ asked \subseteq Fetch
    /\ client \in [lines : [Row -> LineEntry], seqno : 0..MaxSeq, cursor : Row,
                   top : Row, serial : 0..MaxUpsets]
    /\ typed \in 0..MaxUpsets /\ upsets \in 0..MaxUpsets /\ overtaken \in BOOLEAN

\* A change of row r that the client has not got is still to come: the session
\* has not been told of it, the push being worked out will include it, or a
\* delta on its way does.
StillToCome(r) ==
    \/ term.ver[r] > session.seqno
    \/ job.stage = "dirty" /\ term.ver[r] > job.old /\ r <= LastRow(job.top)
    \/ job.stage = "lines" /\ r \in job.dirty \cup {job.cursor}
    \/ \E i \in DOMAIN wire :
           /\ wire[i].type = "delta"
           /\ \/ r \in wire[i].dirty
              \/ r \in DOMAIN wire[i].bonus /\ wire[i].bonus[r] = term.ver[r]

\* A line that the client keeps as LineEntry::Line, which means up to date, is the
\* server's line or will be replaced by what is still to come: the sequence number is
\* taken before the dirty lines are looked up, an answer fills only the rows still
\* tagged with its fetch, and a new session is told everything.  Not so once a delta has overtaken one that
\* waits for its images: the later one goes first and the earlier one undoes it.
LineIsCurrent ==
    ~overtaken =>
        \A r \in Row :
            client.lines[r].kind = "Line" =>
                client.lines[r].ver = term.ver[r] \/ StillToCome(r)

\* A row that the client keeps as being fetched is in a request that is not yet
\* answered, or in an answer not yet applied, whatever was tagged, dropped from the
\* cache or lost with a connection since: get_lines asks for no row that is tagged.
\* Checked together with TypeOK.
NoOrphanFetch == TypeOK /\
    \A r \in Row : client.lines[r].kind \in {"Fetching", "LineAndFetching"} =>
        LET t == client.lines[r].at IN
        \/ \E f \in asked : f.at = t /\ r \in f.rows
        \/ \E i \in DOMAIN wire : wire[i].type # "delta" /\ wire[i].at = t
                                  /\ r \in wire[i].rows

Current(r) == client.lines[r].kind = "Line" /\ client.lines[r].ver = term.ver[r]

\* Once the terminal is quiet the client shows what the server has, on every row of
\* the screen, although fetches are throttled, connections break, and nothing but
\* painting makes the client ask again.
ScreenCatchesUp ==
    []<>(overtaken \/ (client.top = term.top
                       /\ \A r \in client.top..LastRow(client.top) : Current(r)))
=============================================================================

----------------------------- MODULE LineCache -----------------------------
(***************************************************************************)
(* The lines that a client keeps of a remote pane: the map "lines" of      *)
(* RenderableInner in wezterm-client/src/pane/renderable.rs, as pure       *)
(* operators on the map and on the client's other notes about the pane.    *)
(*                                                                         *)
(* What a line says is reduced to the sequence number at which the server  *)
(* last changed it ("ver"); text that the client predicted has Predicted   *)
(* instead.  "seq" is the line's own sequence number, which the client may *)
(* raise, and "at" is the instant that tags a fetch in flight.             *)
(***************************************************************************)
EXTENDS Naturals

CONSTANTS
    Rows,           \* number of stable rows
    MaxSeq,         \* bound on the sequence numbers of the remote terminal
    MaxFetches      \* bound on the instants that tag fetches at one time

ASSUME CacheAssumption ==
    /\ Rows \in Nat \ {0}
    /\ MaxSeq \in Nat \ {0}
    /\ MaxFetches \in Nat \ {0}

Row == 1..Rows
Instant == 1..MaxFetches
Predicted == 0

LineEntry == [kind : {"Absent", "Line", "Stale", "Fetching", "LineAndFetching"},
              ver : 0..MaxSeq, seq : 0..MaxSeq, at : 0..MaxFetches]

Absent == [kind |-> "Absent", ver |-> 0, seq |-> 0, at |-> 0]
Line(ver, seq) == [kind |-> "Line", ver |-> ver, seq |-> seq, at |-> 0]
Fetching(t) == [kind |-> "Fetching", ver |-> 0, seq |-> 0, at |-> t]
Holding(kind, e, t) == [e EXCEPT !.kind = kind, !.at = t]

TaggedAt(e, t) == e.kind \in {"Fetching", "LineAndFetching"} /\ e.at = t

\* The entry of a line that is to be fetched at t, given its entry so far.
Refetch(e, t) ==
    IF e.kind \in {"Absent", "Fetching"} THEN Fetching(t)
    ELSE Holding("LineAndFetching", e, t)

MakeStale(e) ==
    IF e.kind \in {"Absent", "Fetching"} THEN Absent ELSE Holding("Stale", e, 0)

MakeAllStale(lines) ==
    [r \in Row |-> IF lines[r].kind = "Line" THEN Holding("Stale", lines[r], 0)
                   ELSE lines[r]]

----------------------------------------------------------------------------
(* What the client notes about a pane: lines, seqno, cursor (its row), top *)
(* (dimensions.physical_top) and serial (of its latest key event).         *)

\* Rows of a delta the client has to do something about.
DirtyRows(c, delta) ==
    (delta.dirty \cup IF delta.cursor # c.cursor THEN {delta.cursor, c.cursor} ELSE {})
        \ DOMAIN delta.bonus

\* Rows below the top of the screen are fetched at once, the rest when needed.
RowsToFetch(c, delta) == {r \in DirtyRows(c, delta) : r >= delta.top}

\* apply_changes_to_surface at instant t; "admitted" by the rate limiter or not.
ApplyChanges(c, delta, t, admitted) ==
    [c EXCEPT
        !.lines = [r \in Row |->
            IF r \in DOMAIN delta.bonus THEN Line(delta.bonus[r], delta.bonus[r])
            ELSE IF r \notin DirtyRows(c, delta) THEN c.lines[r]
            ELSE IF r \notin RowsToFetch(c, delta) THEN Absent
            ELSE IF admitted THEN Refetch(c.lines[r], t)
            ELSE MakeStale(Refetch(c.lines[r], t))],
        !.seqno = delta.seqno, !.top = delta.top,
        !.cursor = IF delta.serial = 0 \/ delta.serial >= c.serial
                   THEN delta.cursor ELSE c.cursor]

Higher(a, b) == IF a > b THEN a ELSE b

\* Mutant: rows take the lines of an answer whether still tagged or not.
PutUntagged(c, t, vers) ==
    [c EXCEPT !.lines = [r \in Row |->
        IF r \in DOMAIN vers THEN Line(vers[r], Higher(vers[r], c.seqno)) ELSE c.lines[r]]]

\* apply_lines with the lines of an answer: only rows still tagged with the
\* instant of this fetch take them.
PutFetched(c, t, vers) ==
    [c EXCEPT !.lines = [r \in Row |->
        IF r \in DOMAIN vers /\ TaggedAt(c.lines[r], t)
        THEN Line(vers[r], Higher(vers[r], c.seqno))
        ELSE c.lines[r]]]

\* Mutant: an entry without a line stays tagged.
FailKeepingTag(c, t, rows) ==
    [c EXCEPT !.lines = [r \in Row |->
        IF r \in rows /\ TaggedAt(c.lines[r], t) /\ c.lines[r].kind = "LineAndFetching"
        THEN Holding("Line", c.lines[r], 0) ELSE c.lines[r]]]

\* apply_lines with an error: a line that was there is called current again.
FailFetch(c, t, rows) ==
    [c EXCEPT !.lines = [r \in Row |->
        IF r \in rows /\ TaggedAt(c.lines[r], t)
        THEN IF c.lines[r].kind = "Fetching" THEN Absent
             ELSE Holding("Line", c.lines[r], 0)
        ELSE c.lines[r]]]

\* A line from beyond the sequence number of the pane is shown once and
\* fetched again; what the fetch brings is dropped, but the next get_lines
\* finds the line stale and tags it.
Beyond(c, e) == e.kind = "Line" /\ (e.seq = 0 \/ e.seq > c.seqno)

RowsMissing(c, rows) ==
    {r \in rows : c.lines[r].kind \in {"Absent", "Stale"} \/ Beyond(c, c.lines[r])}

\* get_lines for the rows of a window, at instant t.
GetLines(c, rows, t) ==
    [c EXCEPT !.lines = [r \in Row |->
        IF r \notin RowsMissing(c, rows) THEN c.lines[r]
        ELSE IF Beyond(c, c.lines[r]) THEN Holding("Stale", c.lines[r], 0)
        ELSE Refetch(c.lines[r], t)]]

\* predict_from_key_event for a key that writes ("char") or moves the cursor
\* to another row ("up", "down"; Enter is "down").  A row without a line takes no
\* part, and neither does the cursor then.
PredictKey(c, key) ==
    LET e == c.lines[c.cursor]
        kept == IF key = "char" THEN [e EXCEPT !.ver = Predicted] ELSE e
    IN  IF e.kind \in {"Absent", "Fetching"} THEN c
        ELSE [c EXCEPT
                !.lines[c.cursor] = IF e.kind = "LineAndFetching" THEN kept
                                    ELSE Holding("Line", kept, 0),
                !.cursor = IF key = "up" /\ @ > 1 THEN @ - 1
                           ELSE IF key = "down" THEN @ + 1 ELSE @]
=============================================================================

--------------------------- MODULE LocalPaneProofs ---------------------------
(***************************************************************************)
(* Proofs about LocalPane, for any bounds and any use of exit_behavior.    *)
(***************************************************************************)
EXTENDS LocalPane, SequenceTheorems, TLAPS

\* What is queued for the main thread, and where the task that types a command is.
Closure == {"prune", "remove", "message", "inject"}
Stages == {"none", "queued", "armed", "due", "typed", "gave up"}

\* The records, with all their fields.
OutType == [written : Seq(Piece), pty : Seq(Piece), socket : Seq(Piece), buffer : Seq(Piece),
            actions : Seq(Piece), hold : BOOLEAN, shown : Seq(Piece)]
PaneType == [proc : {"Running", Held, "Dead"}, killed : BOOLEAN,
             status : {"empty"} \cup Exited, override : BOOLEAN, inMux : BOOLEAN,
             inTab : BOOLEAN, queue : Seq(Closure)]

ReaderType == [at : {"starting", "reading", "ended", "done"}, override : BOOLEAN, dead : BOOLEAN]
InjectType == [at : Stages, changed : BOOLEAN, late : BOOLEAN,
               into : {"none", "starting", "running"} \cup Exited]
PastType == [closed : BOOLEAN, disturbed : BOOLEAN,
             behaviors : SUBSET {"Close", "CloseOnCleanExit", "Hold"}]
LeftType == [command : BOOLEAN, connecting : BOOLEAN, output : Nat, upsets : Nat]

\* exit_behavior is one of the three that there are.
ConfigType == config \in {"Close", "CloseOnCleanExit", "Hold"}

\* Every component is of its type, the records with all their fields.
TypeInv ==
    /\ child \in {"starting", "running"} \cup Exited
    /\ writers \subseteq {"child", "other"}
    /\ out \in OutType
    /\ reader \in ReaderType
    /\ parser \in {"reading", "parsing", "done"}
    /\ waiter \in {"waiting", "sent", "done"}
    /\ pane \in PaneType
    /\ main \in {"free", "tabs"}
    /\ ConfigType
    /\ inject \in InjectType
    /\ past \in PastType
    /\ left \in LeftType

\* What a queue holds after an append.
LEMMA AppendIs ==
    ASSUME NEW s \in Seq(Closure), NEW c \in Closure
    PROVE  \A i \in DOMAIN Append(s, c) :
              \/ i \in DOMAIN s /\ Append(s, c)[i] = s[i]
              \/ i = Len(s) + 1 /\ Append(s, c)[i] = c
OBVIOUS

\* spawn_into_main_thread adds to the queue and touches nothing else.
LEMMA PostIs ==
    ASSUME NEW p \in PaneType, NEW c \in Closure
    PROVE  /\ Post(p, c) \in PaneType
           /\ Post(p, c) = [p EXCEPT !.queue = Post(p, c).queue]
           /\ Post(p, c).queue = Append(p.queue, c)
           /\ \A i \in DOMAIN Post(p, c).queue :
                 Post(p, c).queue[i] = c \/ \E j \in DOMAIN p.queue : p.queue[j] = Post(p, c).queue[i]
<1>1. p.queue \in Seq(Closure) /\ Append(p.queue, c) \in Seq(Closure)
  BY DEF PaneType
<1>2. /\ Post(p, c) \in PaneType /\ Post(p, c).queue = Append(p.queue, c)
      /\ Post(p, c) = [p EXCEPT !.queue = Append(p.queue, c)]
  BY <1>1 DEF PaneType, Post
<1>3. \A i \in DOMAIN Append(p.queue, c) :
         \/ i \in DOMAIN p.queue /\ Append(p.queue, c)[i] = p.queue[i]
         \/ Append(p.queue, c)[i] = c
  BY <1>1, AppendIs
<1> QED
  BY <1>2, <1>3

\* A new pane is of its type.
LEMMA InitTypes == Init => TypeInv
<1> SUFFICES ASSUME Init PROVE TypeInv
  OBVIOUS
<1>1. left \in LeftType
  BY PaneAssumption DEF Init, LeftType
<1>2. out \in OutType
  BY DEF Init, OutType
<1>3. <<"inject">> \in Seq(Closure) /\ <<>> \in Seq(Closure)
  BY DEF Closure
<1>4. pane \in PaneType
  BY <1>1, <1>3 DEF Init, PaneType, LeftType
<1>5. inject \in InjectType
  BY <1>1 DEF Init, Stages, InjectType, LeftType
<1>6. past \in PastType /\ ConfigType
  BY PaneAssumption DEF Init, PastType, ConfigType
<1> QED
  BY <1>1, <1>2, <1>4, <1>5, <1>6 DEF Init, TypeInv, ReaderType

\* is_dead: it leaves "Running" only with an exit status, posts nothing but the
\* message, and gives a pane up for dead only for one of four reasons.
LEMMA IsDeadIs ==
    ASSUME NEW p \in PaneType, ConfigType
    PROVE  LET q == IsDead(p) IN
           /\ q \in PaneType
           /\ q.status = p.status /\ q.override = p.override
           /\ q.inMux = p.inMux /\ q.inTab = p.inTab
           /\ q.killed => p.killed
           /\ q.queue = p.queue \/ q.queue = Append(p.queue, "message")
           /\ q.proc # "Running" => p.proc # "Running" \/ p.status # "empty"
           /\ q.proc = "Dead" =>
                 \/ p.proc = "Dead" \/ p.killed
                 \/ p.status # "empty" /\ ~p.override /\ config = "Close"
                 \/ p.status = "clean" /\ (p.override \/ config = "CloseOnCleanExit")
<1> DEFINE held == \/ ExitBehavior(p.override) = "CloseOnCleanExit" /\ p.status = "unclean"
                   \/ ExitBehavior(p.override) = "Hold" /\ ~p.killed
           r == [p EXCEPT !.proc = Held, !.killed = FALSE]
           d == [p EXCEPT !.proc = "Dead", !.killed = FALSE]
<1>1. /\ r \in PaneType /\ r.proc = Held /\ ~r.killed /\ r.status = p.status
      /\ r.override = p.override /\ r.inMux = p.inMux /\ r.inTab = p.inTab /\ r.queue = p.queue
  BY DEF PaneType
<1>2. /\ d \in PaneType /\ d.proc = "Dead" /\ ~d.killed /\ d.status = p.status
      /\ d.override = p.override /\ d.inMux = p.inMux /\ d.inTab = p.inTab /\ d.queue = p.queue
  BY DEF PaneType
<1>3. CASE p.proc = "Running" /\ p.status # "empty" /\ held
  <2>1. IsDead(p) = Post(r, "message")
    BY <1>3 DEF IsDead
  <2>2. Post(r, "message") \in PaneType /\ Post(r, "message") = [r EXCEPT !.queue = Append(@, "message")]
    BY <1>1, PostIs DEF Post, Closure
  <2>3. PICK q \in PaneType : q = Post(r, "message") /\ q = [r EXCEPT !.queue = Append(@, "message")]
    BY <2>2
  <2>4. /\ q.proc = Held /\ ~q.killed /\ q.status = p.status /\ q.override = p.override
        /\ q.inMux = p.inMux /\ q.inTab = p.inTab /\ q.queue = Append(p.queue, "message")
    BY <1>1, <2>3 DEF PaneType
  <2>5. IsDead(p) = q /\ Held # "Dead"
    BY <2>1, <2>3 DEF Held
  <2> HIDE DEF r, d, held
  <2> QED
    BY <1>3, <2>3, <2>4, <2>5
<1>4. CASE p.proc = "Running" /\ p.status # "empty" /\ ~held
  <2>1. IsDead(p) = d
    BY <1>4 DEF IsDead
  <2> QED
    BY <1>2, <1>4, <2>1 DEF ConfigType, ExitBehavior, PaneType, Exited
<1>5. CASE ~(p.proc = "Running" /\ p.status # "empty") /\ p.proc = Held /\ p.killed
  <2>1. IsDead(p) = d
    BY <1>5 DEF IsDead
  <2> QED
    BY <1>2, <1>5, <2>1 DEF Held
<1>6. CASE ~(p.proc = "Running" /\ p.status # "empty") /\ ~(p.proc = Held /\ p.killed)
  BY <1>6 DEF IsDead
<1> QED
  BY <1>3, <1>4, <1>5, <1>6

\* What exit_behavior says at some time of a child that has let go.
ReasonToClose ==
    /\ "child" \notin writers
    /\ \/ "Close" \in past.behaviors
       \/ "CloseOnCleanExit" \in past.behaviors /\ child = "clean"

\* The pane has gone, or it is settled that it goes.
Leaving(p) == ~p.inMux \/ p.proc = "Dead" \/ \E i \in DOMAIN p.queue : p.queue[i] = "remove"

\* A turn of inject_text_after_first_output is queued.
Injects(p) == \E i \in DOMAIN p.queue : p.queue[i] = "inject"

\* The pane: one turn of that task is queued at most; the status is the child's;
\* only a pane that was removed is killed; an override is of a connecting pane.
PaneGood(p) ==
    /\ p \in PaneType
    /\ \A i, j \in DOMAIN p.queue : p.queue[i] = "inject" /\ p.queue[j] = "inject" => i = j
    /\ p.proc # "Running" => p.status # "empty"
    /\ p.status # "empty" => p.status = child
    /\ p.killed => ~p.inMux
    /\ p.override => "CloseOnCleanExit" \in past.behaviors

\* The configuration is one that was noted, and no child that exited has the pty.
ExitNoted ==
    /\ ConfigType
    /\ config \in past.behaviors
    /\ child \in Exited => "child" \notin writers

\* The pure operators on the pane keep PaneGood.  None lets it go without a reason
\* but RemovePaneInternal; none queues a turn of the task.
LEMMA PostGood ==
    ASSUME NEW p, PaneGood(p), NEW c \in Closure, c = "inject" => ~Injects(p)
    PROVE  /\ PaneGood(Post(p, c))
           /\ Leaving(Post(p, c)) => c = "remove" \/ Leaving(p)
           /\ Injects(Post(p, c)) => c = "inject" \/ Injects(p)
           /\ Post(p, c).inMux = p.inMux /\ Post(p, c).inTab = p.inTab
<1>1. p \in PaneType
  BY DEF PaneGood
<1>2. /\ Post(p, c) \in PaneType
      /\ Post(p, c).proc = p.proc /\ Post(p, c).killed = p.killed /\ Post(p, c).status = p.status
      /\ Post(p, c).override = p.override /\ Post(p, c).inMux = p.inMux /\ Post(p, c).inTab = p.inTab
      /\ Post(p, c).queue = Append(p.queue, c)
  <2>1. Post(p, c) = [p EXCEPT !.queue = Post(p, c).queue]
    BY <1>1, PostIs
  <2> QED
    BY <1>1, <2>1, PostIs DEF PaneType
<1>3. \A i \in DOMAIN Append(p.queue, c) :
         \/ i \in DOMAIN p.queue /\ Append(p.queue, c)[i] = p.queue[i]
         \/ i = Len(p.queue) + 1 /\ Append(p.queue, c)[i] = c
  BY <1>1, AppendIs DEF PaneType
<1>4. Injects(Post(p, c)) => c = "inject" \/ Injects(p)
  BY <1>2, <1>3 DEF Injects
<1>5. ASSUME NEW i \in DOMAIN Append(p.queue, c), NEW j \in DOMAIN Append(p.queue, c),
             Append(p.queue, c)[i] = "inject", Append(p.queue, c)[j] = "inject"
      PROVE  i = j
  BY <1>3, <1>5 DEF PaneGood, Injects
<1>6. Leaving(Post(p, c)) => c = "remove" \/ Leaving(p)
  BY <1>2, <1>3 DEF Leaving
<1> QED
  BY <1>2, <1>4, <1>5, <1>6 DEF PaneGood

\* The same of is_dead.
LEMMA IsDeadGood ==
    ASSUME NEW p, PaneGood(p), ExitNoted
    PROVE  /\ PaneGood(IsDead(p))
           /\ Leaving(IsDead(p)) => Leaving(p) \/ ReasonToClose
           /\ Injects(IsDead(p)) => Injects(p)
           /\ IsDead(p).inMux = p.inMux /\ IsDead(p).inTab = p.inTab
<1> DEFINE q == IsDead(p)
<1>1. p \in PaneType /\ ConfigType
  BY DEF PaneGood, ExitNoted
<1>2. /\ q \in PaneType
      /\ q.status = p.status /\ q.override = p.override
      /\ q.inMux = p.inMux /\ q.inTab = p.inTab
      /\ q.killed => p.killed
      /\ q.queue = p.queue \/ q.queue = Append(p.queue, "message")
      /\ q.proc # "Running" => p.proc # "Running" \/ p.status # "empty"
      /\ q.proc = "Dead" =>
             \/ p.proc = "Dead" \/ p.killed
             \/ p.status # "empty" /\ ~p.override /\ config = "Close"
             \/ p.status = "clean" /\ (p.override \/ config = "CloseOnCleanExit")
  BY <1>1, IsDeadIs
<1> HIDE DEF q
<1>3. \A i \in DOMAIN q.queue :
         q.queue[i] = "message" \/ (i \in DOMAIN p.queue /\ q.queue[i] = p.queue[i])
  <2>1. CASE q.queue = p.queue
    BY <2>1
  <2>2. CASE q.queue = Append(p.queue, "message")
    BY <1>1, <2>2, AppendIs DEF PaneType, Closure
  <2> QED
    BY <1>2, <2>1, <2>2
<1>4. q.proc = "Dead" => Leaving(p) \/ ReasonToClose
  BY <1>1, <1>2 DEF PaneGood, ExitNoted, Leaving, ReasonToClose, Exited, PaneType
<1>5. Leaving(q) => Leaving(p) \/ ReasonToClose
  BY <1>2, <1>3, <1>4 DEF Leaving
<1>6. Injects(q) => Injects(p)
  BY <1>3 DEF Injects
<1>7. \A i, j \in DOMAIN q.queue : q.queue[i] = "inject" /\ q.queue[j] = "inject" => i = j
  BY <1>3 DEF PaneGood
<1> QED
  BY <1>2, <1>5, <1>6, <1>7 DEF PaneGood, q

\* The same of the first half of a prune.
LEMMA PruneDeadPanesGood ==
    ASSUME NEW p, PaneGood(p), ExitNoted
    PROVE  /\ PaneGood(PruneDeadPanes(p))
           /\ Leaving(PruneDeadPanes(p)) => Leaving(p) \/ ReasonToClose
           /\ Injects(PruneDeadPanes(p)) => Injects(p)
           /\ PruneDeadPanes(p).inMux = p.inMux
           /\ PruneDeadPanes(p).inTab => p.inTab
<1> DEFINE q == IF p.inTab THEN IsDead(p) ELSE p
           r == [q EXCEPT !.inTab = FALSE]
<1>1. /\ PaneGood(q) /\ q.inMux = p.inMux /\ q.inTab = p.inTab
      /\ Injects(q) => Injects(p)
      /\ Leaving(q) => Leaving(p) \/ ReasonToClose
  BY IsDeadGood
<1>2. CASE q.inTab /\ (q.proc = "Dead" \/ ~q.inMux)
  <2>1. PruneDeadPanes(p) = Post(r, "remove")
    BY <1>2 DEF PruneDeadPanes
  <2>2. /\ r \in PaneType /\ r.inTab = FALSE /\ r.inMux = q.inMux /\ r.proc = q.proc
        /\ r.killed = q.killed /\ r.status = q.status /\ r.override = q.override /\ r.queue = q.queue
    BY <1>1 DEF PaneGood, PaneType
  <2>3. PaneGood(r) /\ (Injects(r) => Injects(q)) /\ Leaving(q)
    BY <1>1, <1>2, <2>2 DEF PaneGood, Leaving, Injects
  <2> HIDE DEF r
  <2>4. /\ PaneGood(Post(r, "remove")) /\ (Injects(Post(r, "remove")) => Injects(r))
        /\ Post(r, "remove").inMux = r.inMux /\ Post(r, "remove").inTab = r.inTab
    BY <2>3, PostGood DEF Closure
  <2> QED
    BY <1>1, <2>1, <2>2, <2>3, <2>4
<1>3. CASE ~(q.inTab /\ (q.proc = "Dead" \/ ~q.inMux))
  <2>1. PruneDeadPanes(p) = q
    BY <1>3 DEF PruneDeadPanes
  <2> QED
    BY <1>1, <2>1
<1> QED
  BY <1>2, <1>3

\* The same of remove_pane_internal, which needs no reason.
LEMMA RemovePaneGood ==
    ASSUME NEW p, PaneGood(p)
    PROVE  /\ PaneGood(RemovePaneInternal(p))
           /\ Injects(RemovePaneInternal(p)) => Injects(p)
           /\ RemovePaneInternal(p).inMux = FALSE
           /\ RemovePaneInternal(p).inTab = p.inTab
<1> DEFINE q == [p EXCEPT !.inMux = FALSE, !.killed = p.proc # "Dead"]
<1>1. /\ q \in PaneType /\ q.inTab = p.inTab /\ q.inMux = FALSE /\ q.proc = p.proc
      /\ q.status = p.status /\ q.override = p.override /\ q.queue = p.queue
  BY DEF PaneGood, PaneType
<1>2. PaneGood(q) /\ (Injects(q) => Injects(p))
  BY <1>1 DEF PaneGood, Injects
<1>3. CASE p.inMux
  BY <1>1, <1>2, <1>3 DEF RemovePaneInternal
<1>4. CASE ~p.inMux
  BY <1>4 DEF RemovePaneInternal, PaneGood, PaneType
<1> QED
  BY <1>3, <1>4

\* The same of the second half of a prune.
LEMMA PruneDeadTabsGood ==
    ASSUME NEW p, PaneGood(p), ExitNoted
    PROVE  /\ PaneGood(PruneDeadTabs(p))
           /\ Leaving(PruneDeadTabs(p)) => Leaving(p) \/ ReasonToClose
           /\ Injects(PruneDeadTabs(p)) => Injects(p)
           /\ PruneDeadTabs(p).inMux => p.inMux
           /\ PruneDeadTabs(p).inTab => p.inTab
<1> DEFINE q == IF p.inTab THEN IsDead(p) ELSE p
           r == RemovePaneInternal(q)
           u == [r EXCEPT !.inTab = FALSE]
<1>1. /\ PaneGood(q) /\ q.inMux = p.inMux /\ q.inTab = p.inTab
      /\ Injects(q) => Injects(p)
      /\ Leaving(q) => Leaving(p) \/ ReasonToClose
  BY IsDeadGood
<1>2. CASE q.inTab /\ q.proc = "Dead"
  <2>1. PruneDeadTabs(p) = u
    BY <1>2 DEF PruneDeadTabs
  <2>2. PaneGood(r) /\ r.inMux = FALSE /\ (Injects(r) => Injects(q))
    <3> HIDE DEF q
    <3> QED
      BY <1>1, RemovePaneGood
  <2> HIDE DEF r
  <2>3. /\ u \in PaneType /\ u.inTab = FALSE /\ u.inMux = r.inMux /\ u.proc = r.proc
        /\ u.killed = r.killed /\ u.status = r.status /\ u.override = r.override /\ u.queue = r.queue
    BY <2>2 DEF PaneGood, PaneType
  <2>4. PaneGood(u) /\ (Injects(u) => Injects(r)) /\ Leaving(q)
    BY <1>2, <2>2, <2>3 DEF PaneGood, Leaving, Injects
  <2> QED
    BY <1>1, <2>1, <2>2, <2>3, <2>4
<1>3. CASE ~(q.inTab /\ q.proc = "Dead")
  <2>1. PruneDeadTabs(p) = q
    BY <1>3 DEF PruneDeadTabs
  <2> QED
    BY <1>1, <2>1
<1> QED
  BY <1>2, <1>3

\* The reading thread: what it read of the override was so, it takes the pane for
\* gone only when it is, and it ends only when the child has let go or the pane is
\* gone.
ReaderNoted ==
    /\ reader.override => "CloseOnCleanExit" \in past.behaviors
    /\ reader.dead /\ reader.at # "done" => ~Alive
    /\ reader.at = "ended" => "child" \notin writers \/ ~Alive

\* A turn of the task is queued only when the task waits for it.
InjectNoted == Injects(pane) => inject.at \in {"queued", "due"}

\* A pane leaves because a user closed it, or for a reason.
LeavingNoted == Leaving(pane) => past.closed \/ ReasonToClose

\* The inductive invariant of the life of a pane.
LifeInv == TypeInv /\ PaneGood(pane) /\ ExitNoted /\ ReaderNoted /\ InjectNoted /\ LeavingNoted

\* To take the next closure off the queue keeps PaneGood too.
LEMMA DequeuedGood ==
    ASSUME PaneGood(pane), pane.queue # <<>>
    PROVE  /\ PaneGood(Dequeued)
           /\ Dequeued.inMux = pane.inMux /\ Dequeued.inTab = pane.inTab
           /\ Head(pane.queue) = "remove" => Leaving(pane)
           /\ Leaving(Dequeued) => Leaving(pane)
           /\ Injects(Dequeued) => Injects(pane)
           /\ Head(pane.queue) = "inject" => Injects(pane) /\ ~Injects(Dequeued)
<1>1. pane \in PaneType
  BY DEF PaneGood
<1>2. /\ Dequeued \in PaneType /\ Dequeued.proc = pane.proc /\ Dequeued.killed = pane.killed
      /\ Dequeued.status = pane.status /\ Dequeued.override = pane.override
      /\ Dequeued.inMux = pane.inMux /\ Dequeued.inTab = pane.inTab
      /\ Dequeued.queue = Tail(pane.queue)
  BY <1>1 DEF Dequeued, PaneType
<1>3. \A i \in DOMAIN Tail(pane.queue) :
         i + 1 \in DOMAIN pane.queue /\ i + 1 # 1 /\ pane.queue[i + 1] = Tail(pane.queue)[i]
         /\ i \in Nat
  BY <1>1 DEF PaneType
<1>4. 1 \in DOMAIN pane.queue /\ Head(pane.queue) = pane.queue[1]
  BY <1>1 DEF PaneType
<1>5. Leaving(Dequeued) => Leaving(pane)
  BY <1>2, <1>3 DEF Leaving
<1>6. Head(pane.queue) = "remove" => Leaving(pane)
  BY <1>4 DEF Leaving
<1>7. Injects(Dequeued) => Injects(pane)
  BY <1>2, <1>3 DEF Injects
<1>8. Head(pane.queue) = "inject" => Injects(pane) /\ ~Injects(Dequeued)
  BY <1>2, <1>3, <1>4 DEF Injects, PaneGood
<1>9. ASSUME NEW i \in DOMAIN Tail(pane.queue), NEW j \in DOMAIN Tail(pane.queue),
             Tail(pane.queue)[i] = "inject", Tail(pane.queue)[j] = "inject"
      PROVE  i = j
  <2>1. i + 1 = j + 1
    BY <1>3, <1>9 DEF PaneGood
  <2> QED
    BY <1>3, <2>1
<1> QED
  BY <1>2, <1>5, <1>6, <1>7, <1>8, <1>9 DEF PaneGood

\* PaneGood of the next state, from PaneGood of the new pane.
LEMMA PaneStep ==
    ASSUME PaneGood(pane'), UNCHANGED <<child, past>>
    PROVE  PaneGood(pane)' /\ pane' \in PaneType
BY DEF PaneGood

\* A new pane satisfies the invariant.
LEMMA InitLife == Init => LifeInv
<1> SUFFICES ASSUME Init PROVE LifeInv
  OBVIOUS
<1>1. TypeInv
  BY InitTypes
<1>2. PaneGood(pane)
  <2>1. /\ pane.proc = "Running" /\ pane.status = "empty" /\ ~pane.killed /\ pane.inMux
        /\ pane.override => "CloseOnCleanExit" \in past.behaviors
        /\ pane.queue \in {<<>>, <<"inject">>}
    BY DEF Init
  <2> QED
    BY <1>1, <2>1 DEF PaneGood, TypeInv
<1>3. ExitNoted
  BY <1>1 DEF Init, ExitNoted, ConfigType, TypeInv, Exited
<1>4. ReaderNoted /\ InjectNoted /\ LeavingNoted
  BY DEF Init, ReaderNoted, InjectNoted, Injects, LeavingNoted, Leaving
<1> QED
  BY <1>1, <1>2, <1>3, <1>4 DEF LifeInv

\* Both parts of output that is split are output.
LEMMA SplitIs ==
    ASSUME NEW s \in Seq(Piece), NEW n \in DOMAIN s
    PROVE  SubSeq(s, 1, n) \in Seq(Piece) /\ SubSeq(s, n + 1, Len(s)) \in Seq(Piece)
BY DEF Piece

\* What is written, read and copied is output.
LEMMA OutputTypes ==
    ASSUME out \in OutType
    PROVE  /\ \A x \in Piece : [out EXCEPT !.written = Append(@, x), !.pty = Append(@, x)] \in OutType
           /\ [out EXCEPT !.socket = <<"text">>] \in OutType
           /\ \A n \in DOMAIN out.pty :
                 [out EXCEPT !.pty = SubSeq(@, n + 1, Len(@)),
                             !.socket = @ \o SubSeq(out.pty, 1, n)] \in OutType
           /\ \A n \in DOMAIN out.socket :
                 [out EXCEPT !.socket = SubSeq(@, n + 1, Len(@)),
                             !.buffer = SubSeq(out.socket, 1, n)] \in OutType
<1>1. <<"text">> \in Seq(Piece)
  BY DEF Piece
<1>2. ASSUME NEW n \in DOMAIN out.pty
      PROVE [out EXCEPT !.pty = SubSeq(@, n + 1, Len(@)),
                             !.socket = @ \o SubSeq(out.pty, 1, n)] \in OutType
  <2>1. out.pty \in Seq(Piece) /\ out.socket \in Seq(Piece)
    BY DEF OutType
  <2>2. SubSeq(out.pty, 1, n) \in Seq(Piece) /\ SubSeq(out.pty, n + 1, Len(out.pty)) \in Seq(Piece)
    BY <2>1, SplitIs
  <2>3. out.socket \o SubSeq(out.pty, 1, n) \in Seq(Piece)
    BY <2>1, <2>2
  <2> QED
    BY <2>2, <2>3 DEF OutType
<1>3. ASSUME NEW n \in DOMAIN out.socket
      PROVE [out EXCEPT !.socket = SubSeq(@, n + 1, Len(@)),
                             !.buffer = SubSeq(out.socket, 1, n)] \in OutType
  <2>1. SubSeq(out.socket, 1, n) \in Seq(Piece) /\ SubSeq(out.socket, n + 1, Len(out.socket)) \in Seq(Piece)
    BY SplitIs DEF OutType
  <2> QED
    BY <2>1 DEF OutType
<1>4. ASSUME NEW x \in Piece
      PROVE [out EXCEPT !.written = Append(@, x), !.pty = Append(@, x)] \in OutType
  <2>1. Append(out.written, x) \in Seq(Piece) /\ Append(out.pty, x) \in Seq(Piece)
    BY DEF OutType
  <2> QED
    BY <2>1 DEF OutType
<1>5. [out EXCEPT !.socket = <<"text">>] \in OutType
  BY <1>1 DEF OutType
<1> QED
  BY <1>2, <1>3, <1>4, <1>5

\* send_actions_to_mux: what is sent is shown if the pane is there.
LEMMA SendIs ==
    ASSUME inject \in InjectType, reader \in ReaderType, NEW o \in OutType, SendActions(o)
    PROVE  /\ out' \in OutType
           /\ out' = [o EXCEPT !.shown = IF Alive THEN @ \o o.actions ELSE @, !.actions = <<>>]
           /\ inject' \in InjectType
           /\ inject'.at = inject.at /\ inject'.into = inject.into
           /\ reader' \in ReaderType
           /\ reader'.at = reader.at /\ reader'.override = reader.override
           /\ reader'.dead => reader.dead \/ ~Alive
<1>1. <<>> \in Seq(Piece) /\ o.shown \in Seq(Piece) /\ o.actions \in Seq(Piece)
  BY DEF OutType
<1>2. o.shown \o o.actions \in Seq(Piece)
  BY <1>1
<1>3. CASE Alive
  <2>1. out' = [o EXCEPT !.shown = @ \o o.actions, !.actions = <<>>]
        /\ inject' = [inject EXCEPT !.changed = TRUE] /\ reader' = reader
    BY <1>3 DEF SendActions
  <2>2. out' \in OutType
    BY <1>1, <1>2, <2>1 DEF OutType
  <2>3. inject' \in InjectType /\ inject'.at = inject.at /\ inject'.into = inject.into
    BY <2>1 DEF InjectType
  <2> QED
    BY <1>3, <2>1, <2>2, <2>3
<1>4. CASE ~Alive
  <2>1. out' = [o EXCEPT !.actions = <<>>]
        /\ reader' = [reader EXCEPT !.dead = TRUE] /\ inject' = inject
    BY <1>4 DEF SendActions
  <2>2. out' \in OutType /\ out' = [o EXCEPT !.shown = @, !.actions = <<>>]
    BY <1>1, <2>1 DEF OutType
  <2>3. reader' \in ReaderType /\ reader'.at = reader.at /\ reader'.override = reader.override
    BY <2>1 DEF ReaderType
  <2> QED
    BY <1>4, <2>1, <2>2, <2>3
<1> QED
  BY <1>3, <1>4

\* What is taken off the buffer is output.
LEMMA ParsedType ==
    ASSUME out \in OutType, out.buffer # <<>>
    PROVE  /\ Head(out.buffer) \in Piece
           /\ [out EXCEPT !.buffer = Tail(@), !.actions = Append(@, Head(out.buffer)),
                          !.hold = IF Head(out.buffer) = "text" THEN @ ELSE Head(out.buffer) = "begin"]
                 \in OutType
<1>1. Head(out.buffer) \in Piece /\ Tail(out.buffer) \in Seq(Piece)
  BY DEF OutType
<1>2. Append(out.actions, Head(out.buffer)) \in Seq(Piece)
  BY <1>1 DEF OutType
<1>3. (IF Head(out.buffer) = "text" THEN out.hold ELSE Head(out.buffer) = "begin") \in BOOLEAN
  BY DEF OutType
<1> QED
  BY <1>1, <1>2, <1>3 DEF OutType

\* The bounds stay bounds when one of them is used up.
LEMMA Spent ==
    ASSUME left \in LeftType
    PROVE  /\ Upset => left' \in LeftType
           /\ left.output > 0 => [left EXCEPT !.output = @ - 1] \in LeftType
BY DEF LeftType, Upset

\* The invariant is kept, and a pane that has gone stays so.
LifeKept == LifeInv' /\ (Alive' => Alive)

\* What a step leaves alone.
LEMMA Unmoved ==
    ASSUME LifeInv
    PROVE  /\ UNCHANGED <<child, writers, past, pane>> => PaneGood(pane)' /\ LeavingNoted'
           /\ UNCHANGED <<child, writers, past, config>> => ExitNoted'
           /\ UNCHANGED <<writers, past, reader>> /\ (Alive' => Alive) => ReaderNoted'
           /\ /\ UNCHANGED <<child, writers>>
              /\ past.closed => past'.closed
              /\ past.behaviors \subseteq past'.behaviors
              /\ Leaving(pane') => Leaving(pane) \/ ReasonToClose
              => LeavingNoted'
           /\ UNCHANGED <<pane, inject>> => InjectNoted' /\ Alive' = Alive
           /\ /\ Injects(pane') => Injects(pane)
              /\ inject'.at = inject.at
              => InjectNoted'
           /\ /\ pane'.inMux => pane.inMux
              /\ pane'.inTab => pane.inTab
              /\ inject'.at \in Waiting => inject.at \in Waiting
              => (Alive' => Alive)
<1> USE DEF LifeInv
<1>1. ASSUME UNCHANGED <<child, writers, past, pane>> PROVE PaneGood(pane)' /\ LeavingNoted'
  BY <1>1 DEF PaneGood, LeavingNoted, Leaving, ReasonToClose
<1>2. ASSUME UNCHANGED <<child, writers, past, config>> PROVE ExitNoted'
  BY <1>2 DEF ExitNoted, ConfigType
<1>3. ASSUME UNCHANGED <<writers, past, reader>>, Alive' => Alive PROVE ReaderNoted'
  BY <1>3 DEF ReaderNoted
<1>4. ASSUME UNCHANGED <<pane, inject>> PROVE InjectNoted' /\ Alive' = Alive
  BY <1>4 DEF InjectNoted, Injects, Alive
<1>5. ASSUME Injects(pane') => Injects(pane), inject'.at = inject.at PROVE InjectNoted'
  BY <1>5 DEF InjectNoted, Injects
<1>6. ASSUME pane'.inMux => pane.inMux, pane'.inTab => pane.inTab,
             inject'.at \in Waiting => inject.at \in Waiting
      PROVE  Alive' => Alive
  BY <1>6 DEF Alive
<1>7. ASSUME UNCHANGED <<child, writers>>, past.closed => past'.closed,
             past.behaviors \subseteq past'.behaviors,
             Leaving(pane') => Leaving(pane) \/ ReasonToClose
      PROVE  LeavingNoted'
  BY <1>7 DEF LeavingNoted, ReasonToClose, Leaving
<1> QED
  BY <1>1, <1>2, <1>3, <1>4, <1>5, <1>6, <1>7

\* What the child and the others that have its pty do keeps the invariant.
LEMMA ChildLife ==
    ASSUME LifeInv,
           \/ ChildReady \/ ChildCloses \/ ChildForks \/ OtherExits
           \/ \E x \in Piece : Write(x)
           \/ \E status \in Exited : ChildExits(status)
    PROVE  LifeKept
<1> USE DEF LifeKept
<1>t. TypeInv /\ PaneGood(pane) /\ ExitNoted /\ ReaderNoted /\ InjectNoted /\ LeavingNoted
  BY DEF LifeInv
<1>o. out \in OutType /\ left \in LeftType
  BY <1>t DEF TypeInv
<1>1. ASSUME NEW x \in Piece, Write(x) PROVE LifeKept
  <2>1. out' = [out EXCEPT !.written = Append(@, x), !.pty = Append(@, x)]
        /\ left' = [left EXCEPT !.output = @ - 1] /\ left.output > 0
        /\ UNCHANGED <<child, writers, reader, parser, waiter, pane, main, config, inject, past>>
    BY <1>1 DEF Write
  <2>2. out' \in OutType
    BY <1>o, <2>1, OutputTypes
  <2>3. TypeInv'
    BY <1>t, <1>o, <2>1, <2>2, Spent DEF TypeInv, ConfigType
  <2> QED
    BY <2>1, <2>3, Unmoved DEF LifeInv
<1>2. ASSUME UNCHANGED <<out, reader, parser, waiter, pane, main, config, inject, past>>,
             left' \in LeftType, writers' \subseteq writers \cup {"other"},
             child' \in {"starting", "running"} \cup Exited,
             child \in Exited => child' = child,
             child' \in Exited => "child" \notin writers'
      PROVE  LifeKept
  <2>1. TypeInv'
    BY <1>t, <1>2 DEF TypeInv, ConfigType
  <2>2. PaneGood(pane)' /\ LeavingNoted'
    BY <1>t, <1>2 DEF PaneGood, LeavingNoted, Leaving, ReasonToClose, PaneType, Exited
  <2>3. ExitNoted' /\ ReaderNoted' /\ Alive' = Alive
    BY <1>t, <1>2 DEF ExitNoted, ConfigType, ReaderNoted, Alive
  <2> QED
    BY <1>2, <2>1, <2>2, <2>3, Unmoved DEF LifeInv
<1>3. CASE ChildReady
  BY <1>2, <1>3, <1>t, <1>o DEF ChildReady, TypeInv, Exited
<1>4. ASSUME NEW status \in Exited, ChildExits(status) PROVE LifeKept
  BY <1>2, <1>4, <1>t, <1>o DEF ChildExits, TypeInv, Exited
<1>5. CASE ChildCloses \/ ChildForks
  <2>1. UNCHANGED <<child, out, reader, parser, waiter, pane, main, config, inject, past>>
        /\ child = "running" /\ left' \in LeftType /\ writers' \subseteq writers \cup {"other"}
    BY <1>5, <1>o, Spent DEF ChildCloses, ChildForks
  <2> QED
    BY <1>2, <2>1 DEF Exited
<1>6. CASE OtherExits
  BY <1>2, <1>6, <1>t, <1>o DEF OtherExits, TypeInv, ExitNoted
<1> QED
  BY <1>1, <1>3, <1>4, <1>5, <1>6

\* The waiting and the reading thread.
LEMMA ReaderLife ==
    ASSUME LifeInv, Waiter \/ Reader
    PROVE  LifeKept
<1> USE DEF LifeKept
<1>t. TypeInv /\ PaneGood(pane) /\ ExitNoted /\ ReaderNoted /\ InjectNoted /\ LeavingNoted
  BY DEF LifeInv
<1>o. out \in OutType /\ left \in LeftType /\ reader \in ReaderType
  BY <1>t DEF TypeInv
<1>1. CASE WaiterSends
  <2>1. child \in Exited /\ waiter' = "sent" /\ pane' = [pane EXCEPT !.status = child]
        /\ UNCHANGED <<child, writers, out, reader, parser, main, config, inject, past, left>>
    BY <1>1 DEF WaiterSends
  <2>2. pane' \in PaneType /\ pane'.inMux = pane.inMux /\ pane'.inTab = pane.inTab
        /\ pane'.proc = pane.proc /\ pane'.queue = pane.queue /\ pane'.killed = pane.killed
        /\ pane'.override = pane.override /\ pane'.status = child
    BY <1>t, <2>1 DEF PaneGood, PaneType
  <2>3. TypeInv'
    BY <1>t, <2>1, <2>2 DEF TypeInv, ConfigType
  <2>4. PaneGood(pane)' /\ LeavingNoted'
    BY <1>t, <2>1, <2>2 DEF PaneGood, LeavingNoted, Leaving, ReasonToClose, Exited
  <2>5. Alive' = Alive /\ InjectNoted'
    BY <1>t, <2>1, <2>2 DEF Alive, InjectNoted, Injects
  <2> QED
    BY <2>1, <2>3, <2>4, <2>5, Unmoved DEF LifeInv
<1>2. CASE WaiterPosts
  <2>1. waiter' = "done" /\ pane' = Post(pane, "prune")
        /\ UNCHANGED <<child, writers, out, reader, parser, main, config, inject, past, left>>
    BY <1>2 DEF WaiterPosts
  <2>2. /\ PaneGood(pane')
        /\ Leaving(pane') => Leaving(pane)
        /\ Injects(pane') => Injects(pane)
        /\ pane'.inMux = pane.inMux /\ pane'.inTab = pane.inTab
    BY <1>t, <2>1, PostGood DEF Closure
  <2>3. PaneGood(pane)' /\ pane' \in PaneType
    BY <2>1, <2>2, PaneStep
  <2>4. TypeInv'
    BY <1>t, <2>1, <2>3 DEF TypeInv, ConfigType
  <2>5. Alive' = Alive /\ InjectNoted'
    BY <1>t, <2>1, <2>2 DEF Alive, InjectNoted
  <2> QED
    BY <2>1, <2>2, <2>3, <2>4, <2>5, Unmoved DEF LifeInv
<1>3. ASSUME NEW banner \in BOOLEAN, ReaderStarts(banner) PROVE LifeKept
  <2>1. left' \in LeftType
    BY <1>3, <1>o, Spent DEF ReaderStarts, LeftType
  <2>2. /\ reader' \in ReaderType /\ reader'.at \in {"reading", "done"}
        /\ reader.at = "starting" /\ reader'.dead = reader.dead
        /\ reader'.override => reader.override \/ pane.override
    <3>1. reader \in ReaderType /\ pane.override \in BOOLEAN
      BY <1>t DEF TypeInv, PaneType
    <3>2. /\ reader.at = "starting"
          /\ \/ reader' = [reader EXCEPT !.at = "reading", !.override = pane.override]
             \/ reader' = [reader EXCEPT !.at = "done"]
      BY <1>3 DEF ReaderStarts
    <3> QED
      BY <3>1, <3>2 DEF ReaderType
  <2>3. out' \in OutType
    BY <1>3, <1>o, OutputTypes DEF ReaderStarts
  <2>4. past' \in PastType /\ past'.behaviors = past.behaviors /\ past'.closed = past.closed
    BY <1>3, <1>t DEF ReaderStarts, TypeInv, PastType
  <2>5. parser' \in {"reading", "parsing", "done"}
        /\ UNCHANGED <<child, writers, waiter, pane, main, config, inject>>
    BY <1>3, <1>t DEF ReaderStarts, TypeInv
  <2>6. TypeInv'
    BY <1>t, <2>1, <2>2, <2>3, <2>4, <2>5 DEF TypeInv, ConfigType
  <2>7. PaneGood(pane)' /\ LeavingNoted' /\ ExitNoted' /\ Alive' = Alive
    BY <1>t, <2>4, <2>5 DEF PaneGood, LeavingNoted, Leaving, ReasonToClose, ExitNoted, ConfigType, Alive
  <2>8. ReaderNoted'
    BY <1>t, <2>2, <2>4, <2>7 DEF ReaderNoted, PaneGood
  <2> QED
    BY <2>5, <2>6, <2>7, <2>8, Unmoved DEF LifeInv
<1>4. ASSUME (\E n \in DOMAIN out.pty : ReaderReads(n)) \/ ReaderEnds PROVE LifeKept
  <2>1. /\ out' \in OutType
        /\ reader' \in ReaderType /\ reader'.dead = reader.dead /\ reader'.override = reader.override
        /\ reader.at = "reading" /\ reader'.at \in {"reading", "ended"}
        /\ reader'.at = "ended" => reader.dead \/ writers = {}
        /\ UNCHANGED <<child, writers, parser, waiter, pane, main, config, inject, past, left>>
    <3>1. ASSUME NEW n \in DOMAIN out.pty, ReaderReads(n)
          PROVE  /\ out' \in OutType
                 /\ reader.at = "reading"
                 /\ reader' = [reader EXCEPT !.at = IF reader.dead THEN "ended" ELSE "reading"]
                 /\ UNCHANGED <<child, writers, parser, waiter, pane, main, config, inject, past, left>>
      BY <3>1, <1>o, OutputTypes DEF ReaderReads
    <3>2. CASE \E n \in DOMAIN out.pty : ReaderReads(n)
      BY <3>1, <3>2, <1>o DEF ReaderType
    <3>3. CASE ReaderEnds
      BY <3>3, <1>o DEF ReaderEnds, ReaderType
    <3> QED
      BY <1>4, <3>2, <3>3
  <2>2. TypeInv'
    BY <1>t, <2>1 DEF TypeInv, ConfigType
  <2>3. ReaderNoted'
    BY <1>t, <2>1, Unmoved DEF ReaderNoted
  <2> QED
    BY <2>1, <2>2, <2>3, Unmoved DEF LifeInv
<1>5. CASE ReaderPosts
  <2>1. /\ reader.at = "ended"
        /\ pane' = Post(pane, IF ExitBehavior(reader.override) = "Close" THEN "remove" ELSE "prune")
        /\ reader' = [reader EXCEPT !.at = "done", !.dead = TRUE]
        /\ UNCHANGED <<child, writers, out, parser, waiter, main, config, inject, past, left>>
    BY <1>5 DEF ReaderPosts
  <2>2. ExitBehavior(reader.override) = "Close" => ReasonToClose \/ Leaving(pane)
    BY <1>t, <2>1 DEF ExitBehavior, ReaderNoted, ExitNoted, ReasonToClose, Alive, Leaving
  <2>3. /\ PaneGood(pane')
        /\ Leaving(pane') => Leaving(pane) \/ ReasonToClose
        /\ Injects(pane') => Injects(pane)
        /\ pane'.inMux = pane.inMux /\ pane'.inTab = pane.inTab
    BY <1>t, <2>1, <2>2, PostGood DEF Closure
  <2>4. PaneGood(pane)' /\ pane' \in PaneType
    BY <2>1, <2>3, PaneStep
  <2>5. reader' \in ReaderType /\ reader'.at = "done" /\ reader'.override = reader.override
    BY <1>o, <2>1 DEF ReaderType
  <2>6. TypeInv'
    BY <1>t, <2>1, <2>4, <2>5 DEF TypeInv, ConfigType
  <2>7. Alive' = Alive /\ InjectNoted'
    BY <1>t, <2>1, <2>3 DEF Alive, InjectNoted
  <2>8. ReaderNoted'
    BY <1>t, <2>1, <2>5 DEF ReaderNoted
  <2> QED
    BY <2>1, <2>3, <2>4, <2>6, <2>7, <2>8, Unmoved DEF LifeInv
<1> QED
  BY <1>1, <1>2, <1>3, <1>4, <1>5 DEF Waiter, Reader

\* What any step of the parsing thread does.
LEMMA ParserIs ==
    ASSUME TypeInv, Parser
    PROVE  /\ out' \in OutType /\ parser' \in {"reading", "parsing", "done"}
           /\ inject' \in InjectType /\ inject'.at = inject.at /\ inject'.into = inject.into
           /\ reader' \in ReaderType /\ reader'.at = reader.at /\ reader'.override = reader.override
           /\ reader'.dead => reader.dead \/ ~Alive
           /\ UNCHANGED <<child, writers, waiter, pane, main, config, past, left>>
<1>o. out \in OutType /\ inject \in InjectType /\ reader \in ReaderType
      /\ parser \in {"reading", "parsing", "done"}
  BY DEF TypeInv
<1>1. CASE ParsePiece
  <2>1. parser' = parser /\ UNCHANGED <<child, writers, waiter, pane, main, config, past, left>>
        /\ out.buffer # <<>>
    BY <1>1 DEF ParsePiece
  <2> DEFINE x == Head(out.buffer)
             o == [out EXCEPT !.buffer = Tail(@), !.actions = Append(@, x),
                              !.hold = IF x = "text" THEN @ ELSE x = "begin"]
  <2>2. o \in OutType
    BY <1>o, <2>1, ParsedType
  <2>3. CASE x = "text"
    BY <1>1, <1>o, <2>1, <2>2, <2>3 DEF ParsePiece
  <2>4. CASE x # "text"
    <3>1. SendActions(o)
      BY <1>1, <2>4 DEF ParsePiece
    <3> HIDE DEF o
    <3> QED
      BY <1>o, <2>1, <2>2, <3>1, SendIs
  <2> QED
    BY <2>3, <2>4
<1>2. CASE ParserFlushes \/ ParserEnds
  <2>1. \/ SendActions(out)
        \/ UNCHANGED <<out, reader, inject>>
    BY <1>2 DEF ParserFlushes, ParserEnds
  <2>2. parser' \in {"reading", "done"} /\ UNCHANGED <<child, writers, waiter, pane, main, config, past, left>>
    BY <1>2 DEF ParserFlushes, ParserEnds
  <2> QED
    BY <1>o, <2>1, <2>2, SendIs
<1>3. CASE ParserGoesOn
  BY <1>o, <1>3 DEF ParserGoesOn
<1>4. ASSUME NEW n \in DOMAIN out.socket, ParserReads(n)
      PROVE  /\ out' \in OutType /\ parser' = "parsing"
             /\ UNCHANGED <<child, writers, reader, waiter, pane, main, config, inject, past, left>>
  BY <1>4, <1>o, OutputTypes DEF ParserReads
<1> QED
  BY <1>o, <1>1, <1>2, <1>3, <1>4 DEF Parser

\* The parsing thread.
LEMMA ParserLife ==
    ASSUME LifeInv, Parser
    PROVE  LifeKept
<1>t. TypeInv /\ PaneGood(pane) /\ ExitNoted /\ ReaderNoted /\ InjectNoted /\ LeavingNoted
  BY DEF LifeInv
<1>1. /\ out' \in OutType /\ parser' \in {"reading", "parsing", "done"}
      /\ inject' \in InjectType /\ inject'.at = inject.at
      /\ reader' \in ReaderType /\ reader'.at = reader.at /\ reader'.override = reader.override
      /\ reader'.dead => reader.dead \/ ~Alive
      /\ UNCHANGED <<child, writers, waiter, pane, main, config, past, left>>
  BY <1>t, ParserIs
<1>2. TypeInv'
  BY <1>t, <1>1 DEF TypeInv, ConfigType
<1>3. Alive' = Alive
  BY <1>1 DEF Alive
<1>4. ReaderNoted'
  BY <1>t, <1>1, <1>3 DEF ReaderNoted
<1> QED
  BY <1>1, <1>2, <1>3, <1>4, Unmoved DEF LifeInv, LifeKept

\* The main thread: what is queued, and what users do.
LEMMA MainLife ==
    ASSUME LifeInv, Main \/ TimerFires \/ TimeIsUp
    PROVE  LifeKept
<1> USE DEF LifeKept
<1>t. TypeInv /\ PaneGood(pane) /\ ExitNoted /\ ReaderNoted /\ InjectNoted /\ LeavingNoted
  BY DEF LifeInv
<1>o. inject \in InjectType /\ past \in PastType
  BY <1>t DEF TypeInv
<1>1. CASE RunPrune \/ RunRemove \/ FinishPrune
  <2>1. /\ PaneGood(pane')
        /\ pane'.inMux => pane.inMux
        /\ pane'.inTab => pane.inTab
        /\ Injects(pane') => Injects(pane)
        /\ Leaving(pane') => Leaving(pane) \/ ReasonToClose
    <3>1. CASE RunPrune
      <4>1. PaneGood(Dequeued) /\ Dequeued.inMux = pane.inMux /\ Dequeued.inTab = pane.inTab
            /\ (Injects(Dequeued) => Injects(pane)) /\ (Leaving(Dequeued) => Leaving(pane))
        BY <1>t, <3>1, DequeuedGood DEF RunPrune, Runs
      <4> QED
        BY <1>t, <3>1, <4>1, PruneDeadPanesGood DEF RunPrune
    <3>2. CASE RunRemove
      <4>1. PaneGood(Dequeued) /\ Dequeued.inMux = pane.inMux /\ Dequeued.inTab = pane.inTab
            /\ (Injects(Dequeued) => Injects(pane)) /\ Leaving(pane)
        BY <1>t, <3>2, DequeuedGood DEF RunRemove, Runs
      <4> DEFINE r == RemovePaneInternal(Dequeued)
      <4>2. PaneGood(r) /\ r.inTab = pane.inTab /\ r.inMux = FALSE /\ (Injects(r) => Injects(pane))
        BY <4>1, RemovePaneGood
      <4> HIDE DEF r
      <4>3. PaneGood(PruneDeadPanes(r)) /\ PruneDeadPanes(r).inMux = FALSE
            /\ (PruneDeadPanes(r).inTab => pane.inTab) /\ (Injects(PruneDeadPanes(r)) => Injects(pane))
        BY <1>t, <4>2, PruneDeadPanesGood
      <4> QED
        BY <3>2, <4>1, <4>3 DEF RunRemove, r
    <3>3. CASE FinishPrune
      BY <1>t, <3>3, PruneDeadTabsGood DEF FinishPrune
    <3> QED
      BY <1>1, <3>1, <3>2, <3>3
  <2>2. main' \in {"free", "tabs"}
        /\ UNCHANGED <<child, writers, out, reader, parser, waiter, config, inject, past, left>>
    BY <1>1 DEF RunPrune, RunRemove, FinishPrune
  <2>3. PaneGood(pane)' /\ pane' \in PaneType
    BY <2>1, <2>2, PaneStep
  <2>4. TypeInv'
    BY <1>t, <2>2, <2>3 DEF TypeInv, ConfigType
  <2>5. InjectNoted' /\ (Alive' => Alive)
    BY <2>1, <2>2, Unmoved
  <2> QED
    BY <2>1, <2>2, <2>3, <2>4, <2>5, Unmoved DEF LifeInv
<1>2. CASE RunMessage
  <2>1. /\ pane' = Dequeued /\ pane.queue # <<>>
        /\ inject' \in InjectType /\ inject'.at = inject.at
        /\ past' \in PastType /\ past'.closed = past.closed /\ past'.behaviors = past.behaviors
        /\ UNCHANGED <<child, writers, out, reader, parser, waiter, main, config, left>>
    BY <1>o, <1>2 DEF RunMessage, Runs, InjectType, PastType
  <2>2. PaneGood(Dequeued) /\ Dequeued.inMux = pane.inMux /\ Dequeued.inTab = pane.inTab
        /\ (Injects(Dequeued) => Injects(pane)) /\ (Leaving(Dequeued) => Leaving(pane))
    BY <1>t, <2>1, DequeuedGood
  <2>3. PaneGood(pane)' /\ ExitNoted' /\ LeavingNoted'
    BY <1>t, <2>1, <2>2, Unmoved DEF PaneGood, ExitNoted, ConfigType
  <2>4. TypeInv'
    BY <1>t, <2>1, <2>2 DEF TypeInv, ConfigType, PaneGood
  <2>5. InjectNoted' /\ (Alive' => Alive)
    BY <2>1, <2>2, Unmoved
  <2>6. ReaderNoted'
    BY <1>t, <2>1, <2>5 DEF ReaderNoted
  <2> QED
    BY <2>3, <2>4, <2>5, <2>6 DEF LifeInv
<1>3. CASE RunInject
  <2>1. /\ pane' = IsDead(Dequeued) /\ pane.queue # <<>> /\ Head(pane.queue) = "inject"
        /\ UNCHANGED <<child, writers, out, reader, parser, waiter, main, config, past, left>>
        /\ inject' = IF pane'.proc = "Dead" THEN [inject EXCEPT !.at = "gave up"]
                     ELSE IF inject.at = "queued"
                     THEN [inject EXCEPT !.at = "armed", !.changed = FALSE]
                     ELSE IF inject.changed THEN [inject EXCEPT !.at = "typed", !.into = child]
                     ELSE IF inject.late THEN [inject EXCEPT !.at = "gave up"]
                     ELSE [inject EXCEPT !.at = "armed"]
    BY <1>3 DEF RunInject, InjectTurn, Runs
  <2>2. PaneGood(Dequeued) /\ Dequeued.inMux = pane.inMux /\ Dequeued.inTab = pane.inTab
        /\ Injects(pane) /\ ~Injects(Dequeued) /\ (Leaving(Dequeued) => Leaving(pane))
    BY <1>t, <2>1, DequeuedGood
  <2>3. PaneGood(pane') /\ pane'.inMux = pane.inMux /\ pane'.inTab = pane.inTab
        /\ ~Injects(pane') /\ (Leaving(pane') => Leaving(pane) \/ ReasonToClose)
    BY <1>t, <2>1, <2>2, IsDeadGood
  <2>4. PaneGood(pane)' /\ pane' \in PaneType
    BY <2>1, <2>3, PaneStep
  <2>5. inject' \in InjectType
    BY <1>o, <1>t, <2>1 DEF InjectType, Stages, TypeInv
  <2>6. TypeInv'
    BY <1>t, <2>1, <2>4, <2>5 DEF TypeInv, ConfigType
  <2>7. InjectNoted' /\ (Alive' => Alive)
    BY <1>t, <2>2, <2>3, Unmoved DEF InjectNoted, Injects, Waiting
  <2> QED
    BY <2>1, <2>3, <2>4, <2>6, <2>7, Unmoved DEF LifeInv
<1>4. CASE TimerFires
  <2>1. /\ inject.at = "armed" /\ inject' = [inject EXCEPT !.at = "due"]
        /\ pane' = Post(pane, "inject")
        /\ UNCHANGED <<child, writers, out, reader, parser, waiter, main, config, past, left>>
    BY <1>4 DEF TimerFires
  <2>2. inject' \in InjectType /\ inject'.at = "due"
    BY <1>o, <2>1 DEF InjectType, Stages
  <2>3. PaneGood(pane') /\ pane'.inMux = pane.inMux /\ pane'.inTab = pane.inTab
        /\ (Leaving(pane') => Leaving(pane))
    BY <1>t, <2>1, PostGood DEF InjectNoted, Closure
  <2>4. PaneGood(pane)' /\ pane' \in PaneType
    BY <2>1, <2>3, PaneStep
  <2>5. TypeInv'
    BY <1>t, <2>1, <2>2, <2>4 DEF TypeInv, ConfigType
  <2>6. InjectNoted' /\ Alive' = Alive
    BY <2>1, <2>2, <2>3 DEF InjectNoted, Alive, Waiting
  <2> QED
    BY <2>1, <2>3, <2>4, <2>5, <2>6, Unmoved DEF LifeInv
<1>5. CASE TimeIsUp
  <2>1. inject' \in InjectType /\ inject'.at = inject.at
        /\ UNCHANGED <<child, writers, out, reader, parser, waiter, pane, main, config, past, left>>
    BY <1>o, <1>5 DEF TimeIsUp, InjectType
  <2>2. TypeInv'
    BY <1>t, <2>1 DEF TypeInv, ConfigType
  <2> QED
    BY <1>t, <2>1, <2>2, Unmoved DEF LifeInv, InjectNoted, Alive
<1> QED
  BY <1>1, <1>2, <1>3, <1>4, <1>5 DEF Main

\* What users do.
LEMMA UserLife ==
    ASSUME LifeInv,
           \/ UserCloses \/ Resize \/ Connects
           \/ \E behavior \in Behaviors : ReloadConfig(behavior)
    PROVE  LifeKept
<1> USE DEF LifeKept
<1>t. TypeInv /\ PaneGood(pane) /\ ExitNoted /\ ReaderNoted /\ InjectNoted /\ LeavingNoted
  BY DEF LifeInv
<1>o. inject \in InjectType /\ past \in PastType /\ left \in LeftType
  BY <1>t DEF TypeInv
<1>1. CASE UserCloses
  <2>1. /\ left' \in LeftType /\ main' = "tabs"
        /\ pane' = PruneDeadPanes(RemovePaneInternal(pane))
        /\ past' = [past EXCEPT !.closed = TRUE]
        /\ UNCHANGED <<child, writers, out, reader, parser, waiter, config, inject>>
    BY <1>o, <1>1, Spent DEF UserCloses
  <2>2. past' \in PastType /\ past'.closed /\ past'.behaviors = past.behaviors
    BY <1>o, <2>1 DEF PastType
  <2> DEFINE q == RemovePaneInternal(pane)
  <2>3. PaneGood(q) /\ q.inMux = FALSE /\ q.inTab = pane.inTab /\ (Injects(q) => Injects(pane))
    BY <1>t, RemovePaneGood
  <2> HIDE DEF q
  <2>4. pane' = PruneDeadPanes(q)
    BY <2>1 DEF q
  <2>5. PaneGood(pane') /\ pane'.inMux = FALSE /\ (pane'.inTab => pane.inTab)
        /\ (Injects(pane') => Injects(pane))
    BY <1>t, <2>3, <2>4, PruneDeadPanesGood
  <2>6. PaneGood(pane)' /\ LeavingNoted' /\ ExitNoted' /\ pane' \in PaneType
    BY <1>t, <2>1, <2>2, <2>5 DEF PaneGood, LeavingNoted, ExitNoted, ConfigType
  <2>7. TypeInv'
    BY <1>t, <2>1, <2>2, <2>6 DEF TypeInv, ConfigType
  <2>8. InjectNoted' /\ (Alive' => Alive)
    BY <2>1, <2>5, Unmoved
  <2>9. ReaderNoted'
    BY <1>t, <2>1, <2>2, <2>8 DEF ReaderNoted
  <2> QED
    BY <2>6, <2>7, <2>8, <2>9 DEF LifeInv
<1>2. CASE Resize
  <2>1. /\ left' \in LeftType /\ inject' \in InjectType /\ inject'.at = inject.at
        /\ past' \in PastType /\ past'.closed = past.closed /\ past'.behaviors = past.behaviors
        /\ UNCHANGED <<child, writers, out, reader, parser, waiter, pane, main, config>>
    BY <1>o, <1>2, Spent DEF Resize, InjectType, PastType
  <2>2. TypeInv'
    BY <1>t, <2>1 DEF TypeInv, ConfigType
  <2>3. PaneGood(pane)' /\ LeavingNoted' /\ ExitNoted' /\ Alive' = Alive /\ InjectNoted'
    BY <1>t, <2>1 DEF PaneGood, LeavingNoted, Leaving, ReasonToClose, ExitNoted, ConfigType, Alive,
                     InjectNoted, Injects
  <2>4. ReaderNoted'
    BY <1>t, <2>1, <2>3 DEF ReaderNoted
  <2> QED
    BY <2>2, <2>3, <2>4 DEF LifeInv
<1>3. ASSUME NEW behavior \in Behaviors, ReloadConfig(behavior) PROVE LifeKept
  <2>1. /\ left' \in LeftType /\ config' \in {"Close", "CloseOnCleanExit", "Hold"}
        /\ past' \in PastType /\ past'.closed = past.closed
        /\ past'.behaviors = past.behaviors \cup {config'}
        /\ UNCHANGED <<child, writers, out, reader, parser, waiter, pane, main, inject>>
    <3>1. behavior \in {"Close", "CloseOnCleanExit", "Hold"}
      BY PaneAssumption
    <3>2. left' \in LeftType
      BY <1>o, <1>3, Spent DEF ReloadConfig
    <3> QED
      BY <1>o, <1>3, <3>1, <3>2 DEF ReloadConfig, PastType
  <2>2. TypeInv'
    BY <1>t, <2>1 DEF TypeInv, ConfigType
  <2>3. PaneGood(pane)' /\ LeavingNoted' /\ ExitNoted' /\ Alive' = Alive /\ InjectNoted'
    BY <1>t, <2>1 DEF PaneGood, LeavingNoted, Leaving, ReasonToClose, ExitNoted, ConfigType, Alive,
                     InjectNoted, Injects
  <2>4. ReaderNoted'
    BY <1>t, <2>1, <2>3 DEF ReaderNoted
  <2> QED
    BY <2>2, <2>3, <2>4 DEF LifeInv
<1>4. CASE Connects
  <2>1. /\ left' \in LeftType /\ pane' = [pane EXCEPT !.override = FALSE]
        /\ UNCHANGED <<child, writers, out, reader, parser, waiter, main, config, inject, past>>
    BY <1>o, <1>4, Spent DEF Connects
  <2>2. pane' \in PaneType /\ pane'.inMux = pane.inMux /\ pane'.inTab = pane.inTab
        /\ pane'.proc = pane.proc /\ pane'.queue = pane.queue /\ pane'.killed = pane.killed
        /\ pane'.override = FALSE /\ pane'.status = pane.status
    BY <1>t, <2>1 DEF PaneGood, PaneType
  <2>3. TypeInv'
    BY <1>t, <2>1, <2>2 DEF TypeInv, ConfigType
  <2>4. PaneGood(pane)' /\ LeavingNoted' /\ Alive' = Alive /\ InjectNoted'
    BY <1>t, <2>1, <2>2 DEF PaneGood, LeavingNoted, Leaving, ReasonToClose, Alive, InjectNoted, Injects
  <2> QED
    BY <2>1, <2>3, <2>4, Unmoved DEF LifeInv
<1> QED
  BY <1>1, <1>2, <1>3, <1>4

\* Whatever anybody does: the first part of the inductive invariant.
LEMMA NextLife ==
    ASSUME LifeInv, [Next]_vars
    PROVE  LifeKept
<1>1. CASE Reader \/ Waiter
  BY <1>1, ReaderLife
<1>2. CASE Parser
  BY <1>2, ParserLife
<1>3. CASE Main \/ TimerFires \/ TimeIsUp
  BY <1>3, MainLife
<1>4. CASE \/ UserCloses \/ Resize \/ Connects
           \/ \E behavior \in Behaviors : ReloadConfig(behavior)
  BY <1>4, UserLife
<1>5. CASE \/ ChildReady \/ ChildCloses \/ ChildForks \/ OtherExits
           \/ \E x \in Piece : Write(x)
           \/ \E status \in Exited : ChildExits(status)
  BY <1>5, ChildLife
<1>6. CASE UNCHANGED vars
  BY <1>6 DEF vars, LifeKept, LifeInv, TypeInv, ConfigType, PaneGood, ExitNoted, ReaderNoted,
              InjectNoted, LeavingNoted, Leaving, Injects, ReasonToClose, Alive
<1> QED
  BY <1>1, <1>2, <1>3, <1>4, <1>5, <1>6 DEF Next

\* The types of the invariant are those of TypeOK, and more.
LEMMA LifeTypes == LifeInv => TypeOK
<1> SUFFICES ASSUME LifeInv PROVE TypeOK
  OBVIOUS
<1>1. TypeInv /\ PaneGood(pane)
  BY DEF LifeInv
<1>2. \A f \in {"written", "pty", "socket", "buffer", "actions", "shown"} : out[f] \in Seq(Piece)
  BY <1>1 DEF TypeInv, OutType
<1> QED
  BY <1>1, <1>2 DEF TypeOK, TypeInv, PaneGood, PaneType, ReaderType

\* LifeInv is an invariant.
LEMMA LifeAlways == Spec => []LifeInv
<1>1. Init => LifeInv
  BY InitLife
<1>2. LifeInv /\ [Next]_vars => LifeInv'
  BY NextLife DEF LifeKept
<1> QED
  BY <1>1, <1>2, PTL DEF Spec

\* TypeOK: the threads and the pane are always in one of their stages.
THEOREM TypeCorrect == Spec => []TypeOK
BY LifeAlways, LifeTypes, PTL

\* ClosedForAReason: a pane that no user closed has gone only when its child had
\* let go of the terminal, and for a reason that exit_behavior gave.
THEOREM ClosedReasonably == Spec => []ClosedForAReason
<1>1. LifeInv => ClosedForAReason
  BY DEF LifeInv, LeavingNoted, Leaving, ReasonToClose, ClosedForAReason
<1> QED
  BY <1>1, LifeAlways, PTL

----------------------------------------------------------------------------
(* The output.                                                             *)

\* Steps that leave the output and its threads alone.
Elsewhere ==
    /\ UNCHANGED <<out, reader, parser>>
    /\ writers = {} => writers' = {}
    /\ child' = "starting" => child = "starting"
    /\ past.disturbed => past'.disturbed
    /\ inject'.changed => inject.changed \/ past'.disturbed
    /\ inject'.into = inject.into \/ (inject'.into = child /\ inject.changed)

\* Every step is of the output, or elsewhere.
LEMMA StepIs ==
    ASSUME LifeInv, [Next]_vars
    PROVE  Elsewhere \/ Reader \/ Parser \/ \E x \in Piece : Write(x)
<1>t. TypeInv
  BY DEF LifeInv
<1>i. inject \in InjectType /\ past \in PastType /\ child \in {"starting", "running"} \cup Exited
  BY <1>t DEF TypeInv
<1> USE DEF Elsewhere
<1>1. CASE ChildReady \/ ChildCloses \/ ChildForks \/ OtherExits \/ Waiter
  BY <1>1 DEF ChildReady, ChildCloses, ChildForks, OtherExits, Waiter, WaiterSends, WaiterPosts
<1>2. CASE \E status \in Exited : ChildExits(status)
  BY <1>2 DEF ChildExits, Exited
<1>3. CASE RunPrune \/ RunRemove \/ FinishPrune \/ UserCloses \/ Connects
  BY <1>3, <1>i DEF RunPrune, RunRemove, FinishPrune, UserCloses, Connects, PastType
<1>4. CASE RunMessage \/ Resize
  BY <1>4, <1>i DEF RunMessage, Resize, InjectType, PastType
<1>5. CASE RunInject
  <2>1. \/ inject'.changed = inject.changed
        \/ ~inject'.changed
    BY <1>5, <1>i DEF RunInject, InjectTurn, InjectType
  <2>2. inject'.into = inject.into \/ (inject'.into = child /\ inject.changed)
    BY <1>5, <1>i DEF RunInject, InjectTurn, InjectType
  <2> QED
    BY <1>5, <2>1, <2>2 DEF RunInject, InjectTurn
<1>6. CASE TimerFires \/ TimeIsUp
  BY <1>6, <1>i DEF TimerFires, TimeIsUp, InjectType
<1>7. ASSUME NEW behavior \in Behaviors, ReloadConfig(behavior) PROVE Elsewhere
  BY <1>7, <1>i DEF ReloadConfig, PastType
<1>8. CASE UNCHANGED vars
  BY <1>8 DEF vars
<1> QED
  BY <1>1, <1>2, <1>3, <1>4, <1>5, <1>6, <1>7, <1>8 DEF Next, Main

\* While the shell is set up there is no output, unless something else made some.
Quiet ==
    child = "starting" /\ ~past.disturbed =>
        /\ out.pty = <<>> /\ out.socket = <<>> /\ out.buffer = <<>> /\ out.actions = <<>>
        /\ ~inject.changed

\* The inductive invariant of CommandSurvives.
QuietInv == Quiet /\ CommandSurvives

\* Each step keeps it.
LEMMA QuietKept ==
    ASSUME LifeInv, QuietInv, [Next]_vars
    PROVE  QuietInv'
<1>t. TypeInv
  BY DEF LifeInv
<1> USE DEF QuietInv, Quiet, CommandSurvives
<1>1. CASE Elsewhere
  BY <1>1 DEF Elsewhere
<1>2. ASSUME NEW x \in Piece, Write(x) PROVE QuietInv'
  BY <1>2 DEF Write
<1>3. CASE Reader
  <2>1. ASSUME NEW banner \in BOOLEAN, ReaderStarts(banner) PROVE QuietInv'
    <3>1. past \in PastType
      BY <1>t DEF TypeInv
    <3>2. UNCHANGED <<child, inject>> /\ (out' = out \/ past'.disturbed)
      BY <2>1, <3>1 DEF ReaderStarts, PastType
    <3>3. past.disturbed => past'.disturbed
      BY <2>1, <3>1 DEF ReaderStarts, PastType
    <3> QED
      BY <3>2, <3>3
  <2>2. ASSUME NEW n \in DOMAIN out.pty, ReaderReads(n) PROVE QuietInv'
    <3>1. UNCHANGED <<child, past, inject>> /\ out.pty # <<>>
      BY <2>2 DEF ReaderReads
    <3> QED
      BY <3>1
  <2>3. CASE ReaderEnds \/ ReaderPosts
    BY <2>3 DEF ReaderEnds, ReaderPosts
  <2> QED
    BY <1>3, <2>1, <2>2, <2>3 DEF Reader
<1>4. CASE Parser
  <2>1. UNCHANGED <<child, past>> /\ inject'.into = inject.into
    BY <1>4, <1>t, ParserIs
  <2>2. ASSUME child = "starting", ~past.disturbed PROVE UNCHANGED <<out, inject>>
    <3>1. out.buffer = <<>> /\ out.actions = <<>> /\ DOMAIN out.socket = {}
      BY <2>2
    <3>2. CASE ParserFlushes \/ ParserEnds \/ ParserGoesOn
      BY <3>1, <3>2 DEF ParserFlushes, ParserEnds, ParserGoesOn
    <3>3. ~ParsePiece /\ ~\E n \in DOMAIN out.socket : ParserReads(n)
      BY <3>1 DEF ParsePiece
    <3> QED
      BY <1>4, <3>2, <3>3 DEF Parser
  <2> QED
    BY <2>1, <2>2
<1> QED
  BY <1>1, <1>2, <1>3, <1>4, StepIs

\* CommandSurvives: the default command of a workspace is not typed into a shell
\* that is going to flush its input, unless something other than output of the
\* shell changed the terminal.
THEOREM CommandsSurvive == Spec => []CommandSurvives
<1>1. Init => QuietInv
  BY DEF Init, QuietInv, Quiet, CommandSurvives
<1>2. LifeInv /\ QuietInv /\ [Next]_vars => QuietInv'
  BY QuietKept
<1>3. QuietInv => CommandSurvives
  BY DEF QuietInv
<1> QED
  BY <1>1, <1>2, <1>3, LifeAlways, PTL DEF Spec

\* What the parsing thread takes off its buffer, and what it sends.
Taken == [out EXCEPT !.buffer = Tail(@), !.actions = Append(@, Head(out.buffer)),
                     !.hold = IF Head(out.buffer) = "text" THEN @ ELSE Head(out.buffer) = "begin"]
Sent(o) == [o EXCEPT !.shown = IF Alive THEN @ \o o.actions ELSE @, !.actions = <<>>]

\* The steps of the parsing thread, in these terms.
LEMMA ParserMoves ==
    ASSUME TypeInv, Parser
    PROVE  \/ \E n \in DOMAIN out.socket :
                 /\ parser = "reading" /\ parser' = "parsing"
                 /\ out' = [out EXCEPT !.socket = SubSeq(@, n + 1, Len(@)),
                                       !.buffer = SubSeq(out.socket, 1, n)]
           \/ /\ parser' = parser /\ out.buffer # <<>>
              /\ out' = IF Head(out.buffer) = "text" THEN Taken ELSE Sent(Taken)
           \/ /\ parser = "parsing" /\ parser' = "reading" /\ out.buffer = <<>>
              /\ out' = out \/ (~out.hold /\ out' = Sent(out))
           \/ /\ parser = "reading" /\ parser' = "done"
              /\ reader.at = "done" /\ out.socket = <<>>
              /\ out' = Sent(out) \/ (out.actions = <<>> /\ out' = out)
<1>o. out \in OutType /\ inject \in InjectType /\ reader \in ReaderType
  BY DEF TypeInv
<1>1. ASSUME NEW o \in OutType, SendActions(o) PROVE out' = Sent(o)
  BY <1>o, <1>1, SendIs DEF Sent
<1>2. CASE ParsePiece
  <2>1. out.buffer # <<>> /\ parser' = parser
    BY <1>2 DEF ParsePiece
  <2>2. Taken \in OutType
    BY <1>o, <2>1, ParsedType DEF Taken
  <2>3. IF Head(out.buffer) = "text" THEN out' = Taken ELSE SendActions(Taken)
    BY <1>2 DEF ParsePiece, Taken
  <2> QED
    BY <1>1, <2>1, <2>2, <2>3
<1>3. CASE ParserFlushes
  <2>1. parser = "parsing" /\ parser' = "reading" /\ out.buffer = <<>>
        /\ (out' = out \/ (~out.hold /\ SendActions(out)))
    BY <1>3 DEF ParserFlushes
  <2> QED
    BY <1>o, <1>1, <2>1
<1>4. CASE ParserGoesOn
  BY <1>4 DEF ParserGoesOn
<1>5. CASE ParserEnds
  <2>1. parser = "reading" /\ parser' = "done" /\ reader.at = "done" /\ out.socket = <<>>
        /\ ((out.actions = <<>> /\ out' = out) \/ SendActions(out))
    BY <1>5 DEF ParserEnds
  <2> QED
    BY <1>o, <1>1, <2>1
<1>6. ASSUME NEW n \in DOMAIN out.socket, ParserReads(n)
      PROVE  /\ parser = "reading" /\ parser' = "parsing"
             /\ out' = [out EXCEPT !.socket = SubSeq(@, n + 1, Len(@)),
                                   !.buffer = SubSeq(out.socket, 1, n)]
  BY <1>6 DEF ParserReads
<1> QED
  BY <1>2, <1>3, <1>4, <1>5, <1>6 DEF Parser

\* What waits to be sent has no marks.  A "begin" that is shown is the last there
\* is, with the hold on, or a mark follows it; nothing is sent to a pane that has
\* gone.
Framed(i) ==
    out.shown[i] = "begin" =>
        \/ parser = "done"
        \/ \E j \in Marks(out.shown) : j > i
        \/ i = Len(out.shown) /\ (out.hold \/ ~Alive)

\* The inductive invariant of FramesAreWhole.
FrameInv ==
    /\ Marks(out.actions) = {}
    /\ \A i \in Marks(out.shown) : Framed(i)

\* A step that shows, sends and holds nothing keeps it.
LEMMA FrameUnmoved ==
    ASSUME FrameInv, Alive' => Alive, UNCHANGED <<out.shown, out.actions, out.hold>>,
           parser = "done" => parser' = "done"
    PROVE  FrameInv'
BY DEF FrameInv, Framed, Marks

\* To append at the end of two pieces put together is to append to the second.
LEMMA AppendJoined ==
    ASSUME NEW s \in Seq(Piece), NEW t \in Seq(Piece), NEW x \in Piece
    PROVE  s \o Append(t, x) = Append(s \o t, x) /\ s \o t \in Seq(Piece)
<1>1. <<x>> \in Seq(Piece) /\ s \o t \in Seq(Piece)
  OBVIOUS
<1>2. Append(t, x) = t \o <<x>> /\ Append(s \o t, x) = (s \o t) \o <<x>>
  BY <1>1, AppendIsConcat
<1>3. (s \o t) \o <<x>> = s \o (t \o <<x>>)
  BY <1>1, ConcatAssociative
<1> QED
  BY <1>1, <1>2, <1>3

\* What is appended comes last.
LEMMA AppendedLast ==
    ASSUME NEW s \in Seq(Piece), NEW x \in Piece
    PROVE  LET t == Append(s, x) IN
           Len(t) \in Nat \ {0} /\ t[Len(t)] = x /\ DOMAIN t = 1 .. Len(t)
OBVIOUS

\* The marks of two pieces of output put together, the second of which has none.
LEMMA MarksOfJoined ==
    ASSUME NEW s \in Seq(Piece), NEW t \in Seq(Piece), Marks(t) = {}
    PROVE  /\ Marks(s \o t) = Marks(s)
           /\ \A i \in Marks(s) : (s \o t)[i] = s[i]
<1> DEFINE u == s \o t
<1>1. /\ u \in Seq(Piece)
      /\ Len(u) = Len(s) + Len(t)
      /\ \A i \in 1 .. Len(s) + Len(t) : u[i] = IF i <= Len(s) THEN s[i] ELSE t[i - Len(s)]
  BY ConcatProperties
<1>2. DOMAIN u = 1 .. Len(s) + Len(t) /\ DOMAIN s = 1 .. Len(s) /\ DOMAIN t = 1 .. Len(t)
      /\ Len(s) \in Nat /\ Len(t) \in Nat
  BY <1>1
<1> HIDE DEF u
<1>3. \A i \in 1 .. Len(t) : t[i] = "text"
  BY <1>2 DEF Marks
<1>4. \A i \in Marks(s) : i \in Marks(u) /\ u[i] = s[i]
  BY <1>1, <1>2 DEF Marks
<1>5. ASSUME NEW i \in Marks(u) PROVE i \in Marks(s)
  <2>1. i \in 1 .. Len(s) + Len(t) /\ u[i] # "text"
    BY <1>2 DEF Marks
  <2>2. ASSUME i > Len(s) PROVE FALSE
    <3>1. i - Len(s) \in 1 .. Len(t)
      BY <1>2, <2>1, <2>2
    <3>2. u[i] = t[i - Len(s)]
      BY <1>1, <1>2, <2>1, <2>2
    <3> QED
      BY <1>3, <2>1, <3>1, <3>2
  <2> QED
    BY <1>1, <1>2, <2>1, <2>2 DEF Marks
<1>6. Marks(u) = Marks(s)
  BY <1>4, <1>5
<1> QED
  BY <1>4, <1>6 DEF u

\* What is sent without a mark keeps the frames whole if there is no hold.
LEMMA SentUnheld ==
    ASSUME LifeInv, FrameInv, Alive' => Alive, out' = Sent(out), ~out.hold \/ parser' = "done",
           parser = "done" => parser' = "done"
    PROVE  FrameInv'
<1>o. out \in OutType
  BY DEF LifeInv, TypeInv
<1>1. /\ out'.actions = <<>>
      /\ out'.hold = out.hold
      /\ out'.shown = IF Alive THEN out.shown \o out.actions ELSE out.shown
  BY <1>o DEF Sent, OutType
<1>2. Marks(out'.actions) = {}
  BY <1>1 DEF Marks
<1>3. out.shown \in Seq(Piece) /\ out.actions \in Seq(Piece)
  BY <1>o DEF OutType
<1>4. CASE ~Alive
  BY <1>1, <1>2, <1>4 DEF FrameInv, Framed, Marks
<1>5. CASE Alive
  <2>1. Marks(out.shown \o out.actions) = Marks(out.shown)
        /\ \A i \in Marks(out.shown) : (out.shown \o out.actions)[i] = out.shown[i]
    BY <1>3, MarksOfJoined DEF FrameInv
  <2>2. ASSUME NEW i \in Marks(out.shown) PROVE Framed(i)'
    BY <1>1, <1>5, <2>1, <2>2 DEF FrameInv, Framed
  <2> QED
    BY <1>1, <1>2, <1>5, <2>1, <2>2 DEF FrameInv
<1> QED
  BY <1>4, <1>5

\* Each step keeps it.
LEMMA FrameKept ==
    ASSUME LifeInv, FrameInv, [Next]_vars
    PROVE  FrameInv'
<1>t. TypeInv
  BY DEF LifeInv
<1>o. out \in OutType
  BY <1>t DEF TypeInv
<1>a. Alive' => Alive
  BY NextLife DEF LifeKept
<1>1. CASE Elsewhere
  BY <1>1, <1>a, FrameUnmoved DEF Elsewhere
<1>2. ASSUME NEW x \in Piece, Write(x) PROVE FrameInv'
  <2>1. UNCHANGED <<out.shown, out.actions, out.hold, parser>>
    BY <1>2, <1>o DEF Write, OutType
  <2> QED
    BY <2>1, <1>a, FrameUnmoved
<1>3. CASE Reader
  <2>1. UNCHANGED <<out.shown, out.actions, out.hold>> /\ (parser = "done" => parser' = "done")
    <3>1. ASSUME NEW banner \in BOOLEAN, ReaderStarts(banner)
          PROVE  UNCHANGED <<out.shown, out.actions, out.hold>> /\ (parser = "done" => parser' = "done")
      BY <3>1, <1>o DEF ReaderStarts, OutType
    <3>2. ASSUME NEW n \in DOMAIN out.pty, ReaderReads(n)
          PROVE  UNCHANGED <<out.shown, out.actions, out.hold, parser>>
      BY <3>2, <1>o DEF ReaderReads, OutType
    <3>3. CASE ReaderEnds \/ ReaderPosts
      BY <3>3 DEF ReaderEnds, ReaderPosts
    <3> QED
      BY <1>3, <3>1, <3>2, <3>3 DEF Reader
  <2> QED
    BY <2>1, <1>a, FrameUnmoved
<1>4. CASE Parser
  <2>1. ASSUME NEW n \in DOMAIN out.socket,
               parser = "reading", parser' = "parsing",
               out' = [out EXCEPT !.socket = SubSeq(@, n + 1, Len(@)),
                                  !.buffer = SubSeq(out.socket, 1, n)]
        PROVE  FrameInv'
    <3>1. UNCHANGED <<out.shown, out.actions, out.hold>>
      BY <2>1, <1>o DEF OutType
    <3> QED
      BY <2>1, <3>1, <1>a, FrameUnmoved
  <2>2. ASSUME parser' = parser, out.buffer # <<>>, Head(out.buffer) = "text", out' = Taken
        PROVE  FrameInv'
    <3>1. out'.shown = out.shown /\ out'.hold = out.hold /\ out'.actions = Append(out.actions, "text")
      BY <2>2, <1>o DEF Taken, OutType
    <3>2. Marks(out'.actions) = {}
      BY <3>1, <1>o DEF Marks, FrameInv, OutType
    <3>3. \A i \in Marks(out'.shown) : Framed(i)'
      BY <2>2, <3>1, <1>a DEF FrameInv, Framed
    <3> QED
      BY <3>2, <3>3 DEF FrameInv
  <2>3. ASSUME parser' = parser, out.buffer # <<>>, Head(out.buffer) # "text", out' = Sent(Taken)
        PROVE  FrameInv'
    <3> DEFINE x == Head(out.buffer)
               acts == Append(out.actions, x)
    <3>1. x \in Piece /\ acts \in Seq(Piece) /\ out.shown \in Seq(Piece) /\ out.actions \in Seq(Piece)
      BY <2>3, <1>o DEF OutType
    <3>2. /\ out'.actions = <<>> /\ out'.hold = (x = "begin")
          /\ out'.shown = IF Alive THEN out.shown \o acts ELSE out.shown
      BY <2>3, <1>o DEF Taken, Sent, OutType
    <3>3. Marks(out'.actions) = {}
      BY <3>2 DEF Marks
    <3>4. CASE ~Alive
      BY <2>3, <1>a, <3>2, <3>3, <3>4 DEF FrameInv, Framed
    <3>5. CASE Alive
      <4> DEFINE s == out.shown \o acts
      <4>1. Len(s) \in Nat \ {0} /\ s[Len(s)] = x /\ DOMAIN s = 1 .. Len(s)
        <5>1. s = Append(out.shown \o out.actions, x) /\ out.shown \o out.actions \in Seq(Piece)
          BY <3>1, AppendJoined
        <5> HIDE DEF s
        <5> QED
          BY <3>1, <5>1, AppendedLast
      <4>2. Len(s) \in Marks(s)
        <5> HIDE DEF s, x
        <5> QED
          BY <2>3, <4>1 DEF Marks, x
      <4> HIDE DEF s
      <4>3. ASSUME NEW i \in Marks(s), s[i] = "begin" PROVE (\E j \in Marks(s) : j > i) \/ (i = Len(s) /\ x = "begin")
        <5>1. i \in 1..Len(s) /\ Len(s) \in Nat
          BY <4>1 DEF Marks
        <5>2. i = Len(s) \/ Len(s) > i
          BY <5>1
        <5> QED
          BY <4>1, <4>2, <4>3, <5>2
      <4>4. out'.shown = s
        BY <3>2, <3>5 DEF s
      <4> QED
        BY <3>2, <3>3, <4>3, <4>4 DEF FrameInv, Framed
    <3> QED
      BY <3>4, <3>5
  <2>4. ASSUME parser # "done", parser' \in {"reading", "done"}, out' = out PROVE FrameInv'
    BY <2>4, <1>a, FrameUnmoved
  <2>5. ASSUME parser # "done", ~out.hold \/ parser' = "done", out' = Sent(out) PROVE FrameInv'
    BY <2>5, <1>a, SentUnheld
  <2> QED
    BY <1>t, <1>4, <2>1, <2>2, <2>3, <2>4, <2>5, ParserMoves
<1> QED
  BY <1>1, <1>2, <1>3, <1>4, StepIs

\* FramesAreWhole: the terminal shows nothing of a synchronized update before it
\* ends, unless the output ends within it.
THEOREM Framing == Spec => []FramesAreWhole
<1>1. Init => FrameInv
  BY DEF Init, FrameInv, Marks
<1>2. LifeInv /\ FrameInv /\ [Next]_vars => FrameInv'
  BY FrameKept
<1>3. LifeInv /\ FrameInv => FramesAreWhole
  BY LifeTypes DEF FrameInv, Framed, FramesAreWhole
<1> QED
  BY <1>1, <1>2, <1>3, LifeAlways, PTL DEF Spec

\* All the output there is, in the order in which it is shown.
Stream(o) == o.shown \o (o.actions \o (o.buffer \o (o.socket \o o.pty)))

\* The banner, if there is one, comes before what is written.
Written(s) == s \in {out.written, <<"text">> \o out.written}

\* No output is lost, doubled or reordered on its way, as long as the pane is there;
\* the reading thread ends when nothing more can come, the parsing thread when
\* it has taken everything.
InOrder ==
    /\ reader.at = "starting" =>
          /\ out.shown = <<>> /\ out.actions = <<>> /\ out.buffer = <<>> /\ out.socket = <<>>
          /\ out.pty = out.written /\ parser = "reading"
    /\ Alive => Written(Stream(out))
    /\ reader.at \in {"ended", "done"} /\ Alive => writers = {} /\ out.pty = <<>>
    /\ parser # "parsing" => out.buffer = <<>>
    /\ parser = "done" => reader.at = "done" /\ out.socket = <<>> /\ out.actions = <<>>

\* Output put together is output, however the brackets are.
LEMMA Associative ==
    ASSUME NEW s \in Seq(Piece), NEW t \in Seq(Piece), NEW u \in Seq(Piece)
    PROVE  (s \o t) \o u = s \o (t \o u) /\ s \o t \in Seq(Piece)
BY ConcatAssociative

\* The same for all there are, in a form that Zenon instantiates.
LEMMA Associates ==
    \A s, t, u \in Seq(Piece) : (s \o t) \o u = s \o (t \o u)
BY ConcatAssociative

\* The parts of what is split make up the whole.
LEMMA Split ==
    ASSUME NEW s \in Seq(Piece), NEW n \in DOMAIN s
    PROVE  SubSeq(s, 1, n) \o SubSeq(s, n + 1, Len(s)) = s
<1>1. n \in 1 .. Len(s) /\ Len(s) \in Nat
  OBVIOUS
<1>2. 1 \in 1 .. Len(s) + 1 /\ n \in 1 - 1 .. Len(s) /\ Len(s) \in n .. Len(s)
  BY <1>1
<1>3. SubSeq(s, 1, n) \o SubSeq(s, n + 1, Len(s)) = SubSeq(s, 1, Len(s))
  BY <1>2, ConcatAdjacentSubSeq
<1> QED
  BY <1>3, SubSeqFull

\* No output adds nothing.
LEMMA EmptyNone == ASSUME NEW s \in Seq(Piece) PROVE <<>> \o s = s /\ s \o <<>> = s
BY ConcatEmptySeq

\* Writing adds to the end of the stream.
LEMMA WriteStream ==
    ASSUME NEW o \in OutType, NEW x \in Piece
    PROVE  LET q == [o EXCEPT !.written = Append(@, x), !.pty = Append(@, x)] IN
           /\ Stream(q) = Append(Stream(o), x)
           /\ Stream(o) \in Seq(Piece)
<1>1. /\ o.shown \in Seq(Piece) /\ o.actions \in Seq(Piece) /\ o.buffer \in Seq(Piece)
      /\ o.socket \in Seq(Piece) /\ o.pty \in Seq(Piece)
  BY DEF OutType
<1> DEFINE q == [o EXCEPT !.written = Append(@, x), !.pty = Append(@, x)]
<1>2. q.shown = o.shown /\ q.actions = o.actions /\ q.buffer = o.buffer /\ q.socket = o.socket
      /\ q.pty = Append(o.pty, x)
  BY DEF OutType
<1> DEFINE a == o.socket \o o.pty
           b == o.buffer \o a
           c == o.actions \o b
<1>3. o.socket \o Append(o.pty, x) = Append(a, x) /\ a \in Seq(Piece)
  BY <1>1, AppendJoined
<1> HIDE DEF a
<1>4. o.buffer \o Append(a, x) = Append(b, x) /\ b \in Seq(Piece)
  BY <1>1, <1>3, AppendJoined
<1> HIDE DEF b
<1>5. o.actions \o Append(b, x) = Append(c, x) /\ c \in Seq(Piece)
  BY <1>1, <1>4, AppendJoined
<1> HIDE DEF c
<1>6. o.shown \o Append(c, x) = Append(o.shown \o c, x) /\ o.shown \o c \in Seq(Piece)
  BY <1>1, <1>5, AppendJoined
<1> HIDE DEF q
<1> QED
  BY <1>2, <1>3, <1>4, <1>5, <1>6 DEF Stream, a, b, c, q

\* ReaderReads leaves the stream as it is.
LEMMA ReadStream ==
    ASSUME NEW o \in OutType, NEW n \in DOMAIN o.pty
    PROVE  Stream([o EXCEPT !.pty = SubSeq(@, n + 1, Len(@)), !.socket = @ \o SubSeq(o.pty, 1, n)])
             = Stream(o)
<1> DEFINE q == [o EXCEPT !.pty = SubSeq(@, n + 1, Len(@)), !.socket = @ \o SubSeq(o.pty, 1, n)]
           a == SubSeq(o.pty, 1, n)
           b == SubSeq(o.pty, n + 1, Len(o.pty))
<1>1. o.socket \in Seq(Piece) /\ o.pty \in Seq(Piece)
  BY DEF OutType
<1>2. a \in Seq(Piece) /\ b \in Seq(Piece) /\ a \o b = o.pty
  BY <1>1, SplitIs, Split
<1>3. q.shown = o.shown /\ q.actions = o.actions /\ q.buffer = o.buffer
      /\ q.socket = o.socket \o a /\ q.pty = b
  BY DEF OutType
<1> HIDE DEF a, b, q
<1>4. (o.socket \o a) \o b = o.socket \o (a \o b)
  BY <1>1, <1>2, Associative
<1> QED
  BY <1>2, <1>3, <1>4 DEF Stream, q

\* ParserReads leaves the stream as it is.
LEMMA ParseStream ==
    ASSUME NEW o \in OutType, o.buffer = <<>>, NEW n \in DOMAIN o.socket
    PROVE  Stream([o EXCEPT !.socket = SubSeq(@, n + 1, Len(@)), !.buffer = SubSeq(o.socket, 1, n)])
             = Stream(o)
<1> DEFINE q == [o EXCEPT !.socket = SubSeq(@, n + 1, Len(@)), !.buffer = SubSeq(o.socket, 1, n)]
           a == SubSeq(o.socket, 1, n)
           b == SubSeq(o.socket, n + 1, Len(o.socket))
<1>1. o.socket \in Seq(Piece) /\ o.pty \in Seq(Piece)
  BY DEF OutType
<1>2. a \in Seq(Piece) /\ b \in Seq(Piece) /\ a \o b = o.socket
  BY <1>1, SplitIs, Split
<1>3. q.shown = o.shown /\ q.actions = o.actions /\ q.buffer = a
      /\ q.socket = b /\ q.pty = o.pty
  BY DEF OutType
<1> HIDE DEF a, b, q
<1>4. (a \o b) \o o.pty = a \o (b \o o.pty)
  <2>1. a \in Seq(Piece) /\ b \in Seq(Piece) /\ o.pty \in Seq(Piece)
    BY <1>1, <1>2
  <2> QED
    BY <2>1, Associates, Zenon
<1>5. o.buffer \o (o.socket \o o.pty) = o.socket \o o.pty
  BY <1>1, Associative, EmptyNone
<1> QED
  BY <1>2, <1>3, <1>4, <1>5 DEF Stream, q

\* To take a piece off the buffer does too.
LEMMA TakenStream ==
    ASSUME out \in OutType, out.buffer # <<>>
    PROVE  Stream(Taken) = Stream(out) /\ Taken \in OutType
<1> DEFINE x == Head(out.buffer)
           t == Tail(out.buffer)
           r == out.socket \o out.pty
<1>1. /\ out.actions \in Seq(Piece) /\ out.buffer \in Seq(Piece) /\ r \in Seq(Piece)
  BY DEF OutType
<1>2. x \in Piece /\ t \in Seq(Piece) /\ <<x>> \in Seq(Piece) /\ <<x>> \o t = out.buffer
  BY <1>1
<1>3. Taken.shown = out.shown /\ Taken.actions = Append(out.actions, x) /\ Taken.buffer = t
      /\ Taken.socket = out.socket /\ Taken.pty = out.pty
  BY DEF Taken, OutType
<1>4. Append(out.actions, x) = out.actions \o <<x>>
  BY <1>1, <1>2, AppendIsConcat
<1> HIDE DEF x, t, r
<1> DEFINE h == <<x>>
<1>h. h \in Seq(Piece) /\ h \o t = out.buffer
  BY <1>2
<1> HIDE DEF h
<1>a. t \o r \in Seq(Piece)
  BY <1>1, <1>2, Associative
<1>5. (out.actions \o h) \o (t \o r) = out.actions \o (h \o (t \o r))
  <2>1. out.actions \in Seq(Piece) /\ h \in Seq(Piece) /\ t \o r \in Seq(Piece)
    BY <1>1, <1>h, <1>a
  <2> QED
    BY <2>1, Associates, Zenon
<1>6. h \o (t \o r) = (h \o t) \o r
  BY <1>1, <1>2, <1>h, Associative
<1>7. Taken \in OutType
  BY ParsedType DEF Taken
<1> QED
  BY <1>3, <1>4, <1>5, <1>6, <1>7, <1>h DEF Stream, r, h

\* And to send, while the pane is there.
LEMMA SentStream ==
    ASSUME NEW o \in OutType
    PROVE  /\ Alive => Stream(Sent(o)) = Stream(o)
           /\ Sent(o) = [o EXCEPT !.shown = Sent(o).shown, !.actions = <<>>]
           /\ Sent(o).actions = <<>> /\ Sent(o).buffer = o.buffer
           /\ Sent(o).socket = o.socket /\ Sent(o).pty = o.pty /\ Sent(o).written = o.written
<1> DEFINE r == o.buffer \o (o.socket \o o.pty)
<1>1. o.shown \in Seq(Piece) /\ o.actions \in Seq(Piece) /\ r \in Seq(Piece) /\ <<>> \in Seq(Piece)
  BY DEF OutType
<1>2. /\ Sent(o).actions = <<>> /\ Sent(o).buffer = o.buffer /\ Sent(o).socket = o.socket
      /\ Sent(o).pty = o.pty /\ Sent(o).written = o.written
      /\ Alive => Sent(o).shown = o.shown \o o.actions
      /\ Sent(o) = [o EXCEPT !.shown = Sent(o).shown, !.actions = <<>>]
  BY DEF Sent, OutType
<1> HIDE DEF r
<1>3. (o.shown \o o.actions) \o r = o.shown \o (o.actions \o r)
  <2>1. \A s, t, u \in Seq(Piece) : (s \o t) \o u = s \o (t \o u)
    BY Associates
  <2> QED
    BY <1>1, <2>1
<1>4. <<>> \o r = r
  BY <1>1, EmptyNone
<1> QED
  BY <1>2, <1>3, <1>4 DEF Stream, r

\* Before anything is written, it is in order.
LEMMA InOrderInit == Init => InOrder
<1> SUFFICES ASSUME Init PROVE InOrder
  OBVIOUS
<1>1. out.written = <<>> /\ Stream(out) = <<>>
  BY DEF Init, Stream
<1> QED
  BY <1>1 DEF Init, InOrder, Written

\* The reading thread.
LEMMA InOrderReader ==
    ASSUME LifeInv, InOrder, Alive' => Alive, Reader
    PROVE  InOrder'
<1>t. TypeInv /\ ReaderNoted
  BY DEF LifeInv
<1>o. out \in OutType /\ reader \in ReaderType
  BY <1>t DEF TypeInv
<1>1. ASSUME NEW banner \in BOOLEAN, ReaderStarts(banner) PROVE InOrder'
  <2>1. /\ out.shown = <<>> /\ out.actions = <<>> /\ out.buffer = <<>> /\ out.socket = <<>>
        /\ out.pty = out.written /\ out.written \in Seq(Piece) /\ parser = "reading"
    BY <1>1, <1>o DEF ReaderStarts, InOrder, OutType
  <2>2. UNCHANGED pane /\ UNCHANGED inject /\ Alive' = Alive
    BY <1>1 DEF ReaderStarts, Alive
  <2>3. CASE ~Alive
    <3>1. out' = out /\ reader'.at = "done" /\ parser' = "done"
      BY <1>1, <1>o, <2>3 DEF ReaderStarts, ReaderType
    <3> QED
      BY <2>1, <2>2, <2>3, <3>1 DEF InOrder
  <2>4. CASE Alive
    <3>1. reader'.at = "reading" /\ parser' = "reading"
      BY <1>1, <1>o, <2>1, <2>4 DEF ReaderStarts, ReaderType
    <3>2. /\ out'.shown = <<>> /\ out'.actions = <<>> /\ out'.buffer = <<>>
          /\ out'.pty = out.written /\ out'.written = out.written
          /\ out'.socket \in {<<>>, <<"text">>}
      BY <1>1, <1>o, <2>1, <2>4 DEF ReaderStarts, OutType
    <3>3. <<"text">> \in Seq(Piece)
      BY DEF Piece
    <3>4. out'.socket \o out'.pty \in {out.written, <<"text">> \o out.written}
          /\ <<"text">> \o out.written \in Seq(Piece)
      <4> DEFINE s == out.written
                 b == <<"text">>
      <4>1. s \in Seq(Piece) /\ b \in Seq(Piece) /\ out'.pty = s /\ out'.socket \in {<<>>, b}
        BY <2>1, <3>2, <3>3
      <4> HIDE DEF s, b
      <4>2. <<>> \o s = s /\ b \o s \in Seq(Piece)
        BY <4>1, EmptyNone
      <4> QED
        BY <4>1, <4>2 DEF s, b
    <3>5. out'.socket \o out'.pty \in Seq(Piece)
      BY <2>1, <3>4
    <3>6. Stream(out') = out'.socket \o out'.pty
      <4>1. <<>> \o (out'.socket \o out'.pty) = out'.socket \o out'.pty
        BY <3>5, EmptyNone, Zenon
      <4> QED
        BY <3>2, <4>1 DEF Stream
    <3> QED
      BY <3>1, <3>2, <3>4, <3>6 DEF InOrder, Written
  <2> QED
    BY <2>3, <2>4
<1>2. ASSUME NEW n \in DOMAIN out.pty, ReaderReads(n) PROVE InOrder'
  <2>1. /\ reader.at = "reading" /\ reader'.at \in {"reading", "ended"}
        /\ reader'.at = "ended" => ~Alive'
        /\ parser' = parser
    <3>1. reader.at = "reading" /\ reader' = [reader EXCEPT !.at = IF reader.dead THEN "ended" ELSE "reading"]
          /\ UNCHANGED <<parser, pane, inject>>
      BY <1>2 DEF ReaderReads
    <3> QED
      BY <1>o, <1>t, <3>1 DEF ReaderNoted, ReaderType, Alive
  <2>2. /\ out'.buffer = out.buffer /\ out'.written = out.written
        /\ Stream(out') = Stream(out)
    BY <1>2, <1>o, ReadStream DEF ReaderReads, OutType
  <2> QED
    BY <2>1, <2>2 DEF InOrder, Written
<1>3. CASE ReaderEnds \/ ReaderPosts
  <2>1. \/ reader.at = "reading" /\ reader'.at = "ended" /\ out.pty = <<>> /\ writers = {}
        \/ reader.at = "ended" /\ reader'.at = "done"
    BY <1>3, <1>o DEF ReaderEnds, ReaderPosts, ReaderType
  <2>2. UNCHANGED <<out, parser, writers>>
    BY <1>3 DEF ReaderEnds, ReaderPosts
  <2> QED
    BY <2>1, <2>2 DEF InOrder, Written
<1> QED
  BY <1>1, <1>2, <1>3 DEF Reader

\* The parsing thread.
LEMMA InOrderParser ==
    ASSUME LifeInv, InOrder, Alive' => Alive, Parser
    PROVE  InOrder'
<1>t. TypeInv
  BY DEF LifeInv
<1>o. out \in OutType
  BY <1>t DEF TypeInv
<1>r. reader'.at = reader.at /\ writers' = writers
  BY <1>t, ParserIs
<1>1. ASSUME NEW n \in DOMAIN out.socket, parser = "reading", parser' = "parsing",
             out' = [out EXCEPT !.socket = SubSeq(@, n + 1, Len(@)),
                                !.buffer = SubSeq(out.socket, 1, n)]
      PROVE  InOrder'
  <2>1. out.buffer = <<>> /\ reader.at # "starting"
    BY <1>1 DEF InOrder
  <2>2. out'.pty = out.pty /\ out'.written = out.written /\ Stream(out') = Stream(out)
    BY <1>1, <1>o, <2>1, ParseStream DEF OutType
  <2> QED
    BY <1>1, <1>r, <2>1, <2>2 DEF InOrder, Written
<1>2. ASSUME parser' = parser, out.buffer # <<>>,
             out' = IF Head(out.buffer) = "text" THEN Taken ELSE Sent(Taken)
      PROVE  InOrder'
  <2>1. reader.at # "starting" /\ parser = "parsing"
    BY <1>2 DEF InOrder
  <2>2. Taken \in OutType /\ Stream(Taken) = Stream(out)
        /\ Taken.pty = out.pty /\ Taken.written = out.written
    BY <1>2, <1>o, TakenStream DEF Taken, OutType
  <2>3. (Alive => Stream(out') = Stream(out)) /\ out'.pty = out.pty /\ out'.written = out.written
    BY <1>2, <2>2, SentStream
  <2> QED
    BY <1>2, <1>r, <2>1, <2>3 DEF InOrder, Written
<1>3. ASSUME parser = "parsing", parser' = "reading", out.buffer = <<>>,
             out' = out \/ out' = Sent(out)
      PROVE  InOrder'
  <2>1. reader.at # "starting"
    BY <1>3 DEF InOrder
  <2>2. (Alive => Stream(out') = Stream(out)) /\ out'.pty = out.pty /\ out'.written = out.written
        /\ out'.buffer = <<>>
    BY <1>3, <1>o, SentStream
  <2> QED
    BY <1>3, <1>r, <2>1, <2>2 DEF InOrder, Written
<1>4. ASSUME parser = "reading", parser' = "done", reader.at = "done", out.socket = <<>>,
             out' = Sent(out) \/ (out.actions = <<>> /\ out' = out)
      PROVE  InOrder'
  <2>1. out.buffer = <<>>
    BY <1>4 DEF InOrder
  <2>2. (Alive => Stream(out') = Stream(out)) /\ out'.pty = out.pty /\ out'.written = out.written
        /\ out'.buffer = <<>> /\ out'.actions = <<>> /\ out'.socket = <<>>
    BY <1>4, <1>o, <2>1, SentStream
  <2> QED
    BY <1>4, <1>r, <2>2 DEF InOrder, Written
<1> QED
  BY <1>t, <1>1, <1>2, <1>3, <1>4, ParserMoves

\* Each step keeps InOrder.
LEMMA InOrderKept ==
    ASSUME LifeInv, InOrder, [Next]_vars
    PROVE  InOrder'
<1>o. out \in OutType
  BY DEF LifeInv, TypeInv
<1>a. Alive' => Alive
  BY NextLife DEF LifeKept
<1>1. CASE Elsewhere
  BY <1>1, <1>a DEF Elsewhere, InOrder, Written
<1>2. ASSUME NEW x \in Piece, Write(x) PROVE InOrder'
  <2>1. out' = [out EXCEPT !.written = Append(@, x), !.pty = Append(@, x)]
        /\ UNCHANGED <<parser, reader, writers>> /\ writers # {}
    BY <1>2 DEF Write
  <2>2. /\ out'.written = Append(out.written, x) /\ out'.pty = Append(out.pty, x)
        /\ out'.shown = out.shown /\ out'.actions = out.actions /\ out'.buffer = out.buffer
        /\ out'.socket = out.socket /\ Stream(out') = Append(Stream(out), x)
    BY <1>o, <2>1, WriteStream DEF OutType
  <2>3. <<"text">> \o Append(out.written, x) = Append(<<"text">> \o out.written, x)
    <3>1. <<"text">> \in Seq(Piece) /\ out.written \in Seq(Piece)
      BY <1>o DEF Piece, OutType
    <3> QED
      BY <3>1, AppendJoined
  <2>4. Written(Stream(out)) => Written(Stream(out))'
    BY <2>2, <2>3 DEF Written
  <2> QED
    BY <1>a, <2>1, <2>2, <2>4 DEF InOrder
<1>3. CASE Reader
  BY <1>3, <1>a, InOrderReader
<1>4. CASE Parser
  BY <1>4, <1>a, InOrderParser
<1> QED
  BY <1>1, <1>2, <1>3, <1>4, StepIs

\* While the pane is there, what is shown and what is still on its way are together
\* what was written, in order, after the banner if there is one; and when the
\* parsing thread is done, nobody has the pty open and nothing is on its way.
AllShownInOrder ==
    Alive => /\ Written(Stream(out))
             /\ parser = "done" => writers = {} /\ Written(out.shown)

\* AllShownInOrder: the safety half of LastWordsShown, of every behaviour.
THEOREM ShownInOrder == Spec => []AllShownInOrder
<1>1. LifeInv /\ InOrder /\ [Next]_vars => InOrder'
  BY InOrderKept
<1>2. LifeInv /\ InOrder => AllShownInOrder
  <2> SUFFICES ASSUME LifeInv, InOrder, Alive, parser = "done"
               PROVE  writers = {} /\ Stream(out) = out.shown
    BY DEF InOrder, AllShownInOrder
  <2>1. out.shown \in Seq(Piece) /\ <<>> \in Seq(Piece)
    BY DEF LifeInv, TypeInv, OutType
  <2>2. out.actions = <<>> /\ out.buffer = <<>> /\ out.socket = <<>> /\ out.pty = <<>>
        /\ writers = {}
    BY DEF InOrder
  <2> QED
    BY <2>1, <2>2, EmptyNone DEF Stream
<1> QED
  BY <1>1, <1>2, InOrderInit, LifeAlways, PTL DEF Spec
=============================================================================

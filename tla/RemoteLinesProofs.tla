-------------------------- MODULE RemoteLinesProofs --------------------------
(***************************************************************************)
(* Proofs about RemoteLines where nothing is predicted of keys, for any    *)
(* number of rows, fetches, messages and broken connections.               *)
(***************************************************************************)
EXTENDS RemoteLines, SequenceTheorems, FiniteSetTheorems, TLAPS
----------------------------------------------------------------------------
(* The inductive invariant.                                                *)

\* The last row that the client, or anything on its way to it, can know of: work on a
\* push begins with the dimensions of the screen, and no request is answered meanwhile.
Reach == LastRow(IF job.stage = "none" THEN term.top ELSE job.top)

\* The row's line is tagged with the fetch at t.
Tagged(r, t) == TaggedAt(client.lines[r], t)

\* What things are; the requests are finitely many.
Kinds ==
    /\ TypeOK
    /\ typed <= upsets
    /\ IsFiniteSet(asked)

\* A message is about rows up to this one, and about each in one way only.
MessageFits(m, reach) ==
    IF m.type = "delta"
    THEN /\ LastRow(m.top) <= reach /\ m.cursor <= reach
         /\ m.dirty \cup DOMAIN m.bonus \subseteq 1..reach
         /\ m.dirty \cap DOMAIN m.bonus = {}
    ELSE /\ m.rows \subseteq 1..reach
         /\ m.type = "lines" => DOMAIN m.vers = m.rows

\* What the server reads of the screen is on it.
ScreenFits ==
    /\ LastRow(term.top) <= Rows
    /\ term.cursor \in term.top..LastRow(term.top)
    /\ job.stage # "none" =>
          /\ job.top \in 1..term.top /\ job.cursor \in job.top..LastRow(job.top)
          /\ job.dirty \subseteq 1..LastRow(job.top)

\* The client, and what is on its way, know of no row that has not been on the screen.
Known ==
    /\ LastRow(client.top) <= Reach /\ client.cursor <= Reach
    /\ \A r \in Row : client.lines[r].kind # "Absent" => r <= Reach
    /\ \A f \in asked : f.rows \subseteq 1..Reach
    /\ \A i \in DOMAIN wire : MessageFits(wire[i], Reach)

\* Who asks for the row's line, tagged as it is.
Awaited(r, t) ==
    \/ \E f \in asked : f.at = t /\ r \in f.rows
    \/ \E i \in DOMAIN wire : wire[i].type # "delta" /\ wire[i].at = t /\ r \in wire[i].rows

\* NoOrphanFetch, by tags.
NoOrphans == \A r \in Row, t \in 0..MaxFetches : Tagged(r, t) => Awaited(r, t)

\* The sequence number told to the client is one the terminal has reached.
SeqnoTold ==
    /\ session.seqno <= term.seqno
    /\ job.stage = "seqno" => job.old = session.seqno
    /\ job.stage \in {"dirty", "lines"} => session.seqno \in 1..MaxSeq

\* The delta changes the row: it has to be fetched, or its line comes along.
Brings(m, r, ver) == r \in m.dirty \/ (r \in DOMAIN m.bonus /\ m.bonus[r] = ver)
\* StillToCome by the session, which was not told, or by the work on a push.
InWork(r) ==
    \/ term.ver[r] > session.seqno
    \/ job.stage = "dirty" /\ term.ver[r] > job.old /\ r <= LastRow(job.top)
    \/ job.stage = "lines" /\ r \in job.dirty \cup {job.cursor}
\* StillToCome by a delta behind the first i messages.
OnItsWay(r, i) ==
    \E j \in DOMAIN wire : j > i /\ wire[j].type = "delta" /\ Brings(wire[j], r, term.ver[r])
\* StillToCome, but for the first i messages.
ToComeAfter(r, i) == InWork(r) \/ OnItsWay(r, i)

\* Lines that the client has, or may get from an answer or back from a failed fetch,
\* and those of a delta: each is current or will be replaced.
Replaced ==
    /\ \A r \in Row : client.lines[r].kind = "Line" =>
          client.lines[r].ver = term.ver[r] \/ ToComeAfter(r, 0)
    /\ \A i \in DOMAIN wire, r \in Row :
          /\ wire[i].type = "lines" /\ r \in wire[i].rows /\ Tagged(r, wire[i].at) =>
                (wire[i].vers[r] = term.ver[r] \/ ToComeAfter(r, 0))
          /\ wire[i].type = "failed" /\ r \in wire[i].rows /\ Tagged(r, wire[i].at)
                /\ client.lines[r].kind = "LineAndFetching" =>
                (client.lines[r].ver = term.ver[r] \/ ToComeAfter(r, 0))
          /\ wire[i].type = "delta" /\ r \in DOMAIN wire[i].bonus =>
                (wire[i].bonus[r] = term.ver[r] \/ ToComeAfter(r, i))

\* The inductive invariant.
IInv == Kinds /\ ScreenFits /\ Known /\ NoOrphans /\ SeqnoTold /\ (~overtaken => Replaced)

----------------------------------------------------------------------------
(* Finite sets and sequences.                                              *)

\* The image of a finite set is finite.
LEMMA ImageIsFinite ==
    ASSUME NEW S, IsFiniteSet(S), NEW f, DOMAIN f = S, f = [x \in S |-> f[x]]
    PROVE  IsFiniteSet({f[x] : x \in S})
<1> DEFINE T == {f[x] : x \in S}
<1>1. f \in [S -> T]
  OBVIOUS
<1>2. f \in Surjection(S, T)
  BY <1>1 DEF Surjection
<1> QED BY <1>2, FS_Surjection

\* SetToSeq lists a finite set.
LEMMA SetToSeqIs ==
    ASSUME NEW S, IsFiniteSet(S)
    PROVE  /\ SetToSeq(S) \in Seq(S)
           /\ \A x \in S : \E i \in DOMAIN SetToSeq(S) : SetToSeq(S)[i] = x
<1> DEFINE n == Cardinality(S)
<1>1. n \in Nat /\ ExistsBijection(1..n, S)
  BY FS_CardinalityType
<1>2. PICK b \in Bijection(1..n, S) : TRUE
  BY <1>1 DEF ExistsBijection
<1>3. b \in [1..n -> S] /\ IsInjective(b)
  BY <1>2 DEF Bijection, Injection, IsInjective
<1>4. SetToSeq(S) \in [1..n -> S] /\ IsInjective(SetToSeq(S))
  BY <1>3 DEF SetToSeq
<1> DEFINE q == SetToSeq(S)
<1>5. q \in [1..n -> S] /\ IsInjective(q)
  BY <1>4
<1> HIDE DEF q
<1>6. q \in Injection(1..n, S)
  BY <1>5 DEF Injection, IsInjective
<1>7. IsFiniteSet(1..n) /\ Cardinality(1..n) = n
  BY <1>1, FS_Interval
<1>8. q \in Surjection(1..n, S)
  BY <1>6, <1>7, FS_Injection
<1>9. q \in Seq(S)
  BY <1>1, <1>5
<1>10. \A x \in S : \E i \in DOMAIN q : q[i] = x
  BY <1>5, <1>8 DEF Surjection
<1> QED BY <1>9, <1>10 DEF q

\* The place in s of the j-th of the elements that are left without the i-th.
Place(i, j) == IF j < i THEN j ELSE j + 1

\* A message taken out: the others keep their order.
LEMMA RemoveAtIs ==
    ASSUME NEW T, NEW s \in Seq(T), NEW i \in DOMAIN s
    PROVE  /\ RemoveAt(s, i) \in Seq(T)
           /\ DOMAIN RemoveAt(s, i) = 1..(Len(s) - 1)
           /\ \A j \in DOMAIN RemoveAt(s, i) :
                 Place(i, j) \in DOMAIN s /\ RemoveAt(s, i)[j] = s[Place(i, j)]
           /\ \A k \in DOMAIN s : k # i =>
                 \E j \in DOMAIN RemoveAt(s, i) : Place(i, j) = k /\ RemoveAt(s, i)[j] = s[k]
<1> DEFINE a == SubSeq(s, 1, i - 1)
           b == SubSeq(s, i + 1, Len(s))
           z == a \o b
<1>1. i \in 1..Len(s) /\ Len(s) \in Nat /\ DOMAIN s = 1..Len(s)
  OBVIOUS
<1>2. a \in Seq(T) /\ Len(a) = i - 1 /\ \A j \in 1..(i - 1) : a[j] = s[j]
  BY <1>1
<1>3. b \in Seq(T) /\ Len(b) = Len(s) - i /\ \A j \in 1..(Len(s) - i) : b[j] = s[i + j]
  BY <1>1
<1> HIDE DEF a, b
<1>4. z \in Seq(T) /\ Len(z) = Len(s) - 1
      /\ \A j \in 1..Len(z) : z[j] = IF j <= Len(a) THEN a[j] ELSE b[j - Len(a)]
  <2>1. z \in Seq(T) /\ Len(z) = Len(a) + Len(b)
        /\ \A j \in 1..(Len(a) + Len(b)) : z[j] = IF j <= Len(a) THEN a[j] ELSE b[j - Len(a)]
    BY <1>2, <1>3, ConcatProperties
  <2> HIDE DEF z
  <2> QED BY <1>1, <1>2, <1>3, <2>1
<1> HIDE DEF z
<1>5. DOMAIN z = 1..(Len(s) - 1)
  BY <1>4
<1>6. ASSUME NEW j \in DOMAIN z PROVE Place(i, j) \in DOMAIN s /\ z[j] = s[Place(i, j)]
  <2>1. CASE j < i
    BY <1>1, <1>2, <1>4, <1>5, <2>1 DEF Place
  <2>2. CASE j >= i
    <3>1. z[j] = b[j - (i - 1)] /\ j - (i - 1) \in 1..(Len(s) - i)
      BY <1>1, <1>2, <1>4, <1>5, <2>2
    <3>2. i + (j - (i - 1)) = j + 1 /\ Place(i, j) = j + 1
      BY <1>1, <1>5, <2>2 DEF Place
    <3> QED BY <1>1, <1>3, <1>5, <3>1, <3>2
  <2> QED BY <1>1, <1>5, <2>1, <2>2
<1>7. ASSUME NEW k \in DOMAIN s, k # i PROVE \E j \in DOMAIN z : Place(i, j) = k /\ z[j] = s[k]
  <2>1. CASE k < i
    <3>1. k \in DOMAIN z /\ Place(i, k) = k
      BY <1>1, <1>5, <2>1 DEF Place
    <3> QED BY <3>1, <1>6
  <2>2. CASE k > i
    <3>1. k - 1 \in DOMAIN z /\ Place(i, k - 1) = k
      BY <1>1, <1>5, <2>2 DEF Place
    <3> QED BY <3>1, <1>6
  <2> QED BY <1>1, <1>7, <2>1, <2>2
<1>8. RemoveAt(s, i) = z
  BY DEF RemoveAt, z, a, b
<1> QED BY <1>4, <1>5, <1>6, <1>7, <1>8

----------------------------------------------------------------------------
(* Messages, and what they make of the client's lines.                     *)

\* What the client notes about the pane.
Client == [lines : [Row -> LineEntry], seqno : 0..MaxSeq, cursor : Row, top : Row,
           serial : 0..MaxUpsets]

\* What a message is made of.
LEMMA MessageIs ==
    ASSUME NEW m \in Delta \cup Answer
    PROVE  /\ m.images \in BOOLEAN
           /\ m.type = "delta" =>
                /\ m \in Delta /\ m.dirty \subseteq Row /\ m.cursor \in Row /\ m.top \in Row
                /\ m.serial \in 0..MaxUpsets /\ m.seqno \in 1..MaxSeq
                /\ DOMAIN m.bonus \subseteq Row
                /\ \A r \in DOMAIN m.bonus : m.bonus[r] \in 1..MaxSeq
           /\ m.type # "delta" =>
                /\ m.at \in Instant /\ m.rows \subseteq Row
                /\ m.type = "lines" \/ (m.type = "failed" /\ ~m.images)
                /\ m.type = "lines" =>
                      /\ DOMAIN m.vers \subseteq Row
                      /\ \A r \in DOMAIN m.vers : m.vers[r] \in 1..MaxSeq
<1>1. ASSUME m \in Delta
      PROVE  /\ m.type = "delta" /\ DOMAIN m.bonus \subseteq Row /\ m.images \in BOOLEAN
             /\ \A r \in DOMAIN m.bonus : m.bonus[r] \in 1..MaxSeq
             /\ m.dirty \subseteq Row /\ m.cursor \in Row /\ m.top \in Row
             /\ m.serial \in 0..MaxUpsets /\ m.seqno \in 1..MaxSeq
  <2>1. PICK R \in SUBSET Row : m.bonus \in [R -> 1..MaxSeq]
    BY <1>1 DEF Delta
  <2>2. DOMAIN m.bonus = R /\ \A r \in R : m.bonus[r] \in 1..MaxSeq
    BY <2>1
  <2> QED BY <1>1, <2>2 DEF Delta
<1>2. ASSUME m \in Answer
      PROVE  /\ m.type # "delta" /\ m.at \in Instant /\ m.rows \subseteq Row
             /\ m.images \in BOOLEAN
             /\ m.type = "lines" \/ (m.type = "failed" /\ ~m.images)
             /\ m.type = "lines" =>
                   /\ DOMAIN m.vers \subseteq Row
                   /\ \A r \in DOMAIN m.vers : m.vers[r] \in 1..MaxSeq
  <2>1. CASE m.type = "failed"
    BY <1>2, <2>1 DEF Answer
  <2>2. CASE m.type # "failed"
    <3>1. PICK R \in SUBSET Row : m.vers \in [R -> 1..MaxSeq]
      BY <1>2, <2>2 DEF Answer
    <3>2. DOMAIN m.vers = R /\ \A r \in R : m.vers[r] \in 1..MaxSeq
      BY <3>1
    <3> QED BY <1>2, <2>2, <3>2 DEF Answer
  <2> QED BY <2>1, <2>2
<1> QED BY <1>1, <1>2

\* The entries that the steps of the client make.
LEMMA EntryIs ==
    ASSUME NEW e \in LineEntry, NEW t \in 0..MaxFetches
    PROVE  /\ Absent \in LineEntry /\ Absent.kind = "Absent"
           /\ Refetch(e, t) \in LineEntry
           /\ Refetch(e, t).kind \in {"Fetching", "LineAndFetching"} /\ Refetch(e, t).at = t
           /\ MakeStale(e) \in LineEntry /\ MakeStale(e).kind \in {"Absent", "Stale"}
           /\ \A k \in {"Line", "Stale"} :
                 Holding(k, e, 0) \in LineEntry /\ Holding(k, e, 0).kind = k
                 /\ Holding(k, e, 0).ver = e.ver
           /\ \A v, s \in 0..MaxSeq :
                 Line(v, s) \in LineEntry /\ Line(v, s).kind = "Line" /\ Line(v, s).ver = v
<1>1. 0 \in 0..MaxSeq /\ 0 \in 0..MaxFetches
  BY CacheAssumption
<1>2. Absent \in LineEntry /\ Absent.kind = "Absent"
  BY <1>1 DEF Absent, LineEntry
<1>3. Fetching(t) \in LineEntry /\ Fetching(t).kind = "Fetching" /\ Fetching(t).at = t
  BY <1>1 DEF Fetching, LineEntry
<1>4. \A k \in {"Line", "Stale", "LineAndFetching"}, u \in 0..MaxFetches :
         Holding(k, e, u) \in LineEntry /\ Holding(k, e, u).kind = k
         /\ Holding(k, e, u).ver = e.ver /\ Holding(k, e, u).at = u
  BY DEF Holding, LineEntry
<1>5. \A v, s \in 0..MaxSeq :
         Line(v, s) \in LineEntry /\ Line(v, s).kind = "Line" /\ Line(v, s).ver = v
  BY <1>1 DEF Line, LineEntry
<1>6. /\ Refetch(e, t) \in LineEntry
      /\ Refetch(e, t).kind \in {"Fetching", "LineAndFetching"} /\ Refetch(e, t).at = t
  BY <1>3, <1>4 DEF Refetch
<1>7. MakeStale(e) \in LineEntry /\ MakeStale(e).kind \in {"Absent", "Stale"}
  BY <1>1, <1>2, <1>4 DEF MakeStale
<1> QED BY <1>1, <1>2, <1>4, <1>5, <1>6, <1>7

\* What a delta does to a row: its own line, or the row is to be fetched, tagged with
\* the instant of the fetch or not at all, or nothing.
LEMMA ApplyIs ==
    ASSUME NEW c \in Client, NEW m \in Delta, NEW t \in 0..MaxFetches, NEW admitted \in BOOLEAN,
           NEW d, d = ApplyChanges(c, m, t, admitted)
    PROVE  /\ d \in Client
           /\ d.top = m.top /\ d.seqno = m.seqno /\ d.serial = c.serial
           /\ d.cursor \in {m.cursor, c.cursor}
           /\ RowsToFetch(c, m) \subseteq (m.dirty \cup {m.cursor, c.cursor}) \cap Row
           /\ \A r \in Row :
                \/ r \in DOMAIN m.bonus /\ d.lines[r].kind = "Line" /\ d.lines[r].ver = m.bonus[r]
                \/ /\ r \in m.dirty \cup {m.cursor, c.cursor}
                   /\ d.lines[r].kind # "Line"
                   /\ \A u \in 0..MaxFetches : TaggedAt(d.lines[r], u) =>
                         u = t /\ admitted /\ r \in RowsToFetch(c, m)
                \/ r \notin DOMAIN m.bonus /\ r \notin m.dirty /\ d.lines[r] = c.lines[r]
<1>1. /\ m.dirty \subseteq Row /\ m.cursor \in Row /\ m.top \in Row /\ m.seqno \in 1..MaxSeq
      /\ \A r \in DOMAIN m.bonus : m.bonus[r] \in 1..MaxSeq
  <2>1. m \in Delta \cup Answer /\ m.type = "delta"
    BY DEF Delta
  <2> QED BY <2>1, MessageIs
<1>2. DirtyRows(c, m) \subseteq (m.dirty \cup {m.cursor, c.cursor}) \cap Row
      /\ DirtyRows(c, m) \cap DOMAIN m.bonus = {}
      /\ m.dirty \ DOMAIN m.bonus \subseteq DirtyRows(c, m)
  BY <1>1 DEF DirtyRows, Client
<1>3. RowsToFetch(c, m) \subseteq DirtyRows(c, m)
  BY DEF RowsToFetch
<1> DEFINE new(r) == IF r \in DOMAIN m.bonus THEN Line(m.bonus[r], m.bonus[r])
                     ELSE IF r \notin DirtyRows(c, m) THEN c.lines[r]
                     ELSE IF r \notin RowsToFetch(c, m) THEN Absent
                     ELSE IF admitted THEN Refetch(c.lines[r], t)
                     ELSE MakeStale(Refetch(c.lines[r], t))
           cur == IF m.serial = 0 \/ m.serial >= c.serial THEN m.cursor ELSE c.cursor
<1>4. ASSUME NEW r \in Row
      PROVE  /\ new(r) \in LineEntry
             /\ \/ r \in DOMAIN m.bonus /\ new(r).kind = "Line" /\ new(r).ver = m.bonus[r]
                \/ /\ r \in m.dirty \cup {m.cursor, c.cursor}
                   /\ new(r).kind # "Line"
                   /\ \A u \in 0..MaxFetches : TaggedAt(new(r), u) =>
                         u = t /\ admitted /\ r \in RowsToFetch(c, m)
                \/ r \notin DOMAIN m.bonus /\ r \notin m.dirty /\ new(r) = c.lines[r]
  <2>1. c.lines[r] \in LineEntry
    BY DEF Client
  <2>2. CASE r \in DOMAIN m.bonus
    <3>1. m.bonus[r] \in 0..MaxSeq
      BY <1>1, <2>2
    <3>2. new(r) = Line(m.bonus[r], m.bonus[r])
      BY <2>2
    <3> HIDE DEF new
    <3>3. \A v, s \in 0..MaxSeq :
             Line(v, s) \in LineEntry /\ Line(v, s).kind = "Line" /\ Line(v, s).ver = v
      BY <2>1, EntryIs
    <3>4. new(r) \in LineEntry /\ new(r).kind = "Line" /\ new(r).ver = m.bonus[r]
      BY <3>1, <3>2, <3>3
    <3> QED BY <2>2, <3>4
  <2>3. CASE r \notin DOMAIN m.bonus /\ r \notin DirtyRows(c, m)
    BY <1>2, <2>1, <2>3
  <2>4. CASE r \in DirtyRows(c, m) /\ r \notin RowsToFetch(c, m)
    <3>1. new(r) = Absent /\ r \in m.dirty \cup {m.cursor, c.cursor}
      BY <1>2, <2>4
    <3> HIDE DEF new
    <3> QED BY <2>1, <3>1, EntryIs DEF TaggedAt
  <2>5. CASE r \in RowsToFetch(c, m) /\ admitted
    <3>1. new(r) = Refetch(c.lines[r], t) /\ r \in m.dirty \cup {m.cursor, c.cursor}
      BY <1>2, <1>3, <2>5
    <3> HIDE DEF new
    <3>2. /\ new(r) \in LineEntry /\ new(r).kind \in {"Fetching", "LineAndFetching"}
          /\ new(r).at = t
      BY <2>1, <3>1, EntryIs
    <3> QED BY <2>5, <3>1, <3>2 DEF TaggedAt
  <2>6. CASE r \in RowsToFetch(c, m) /\ ~admitted
    <3>1. new(r) = MakeStale(Refetch(c.lines[r], t)) /\ r \in m.dirty \cup {m.cursor, c.cursor}
      BY <1>2, <1>3, <2>6
    <3> HIDE DEF new
    <3>2. new(r) \in LineEntry /\ new(r).kind \in {"Absent", "Stale"}
      <4>1. Refetch(c.lines[r], t) \in LineEntry
        BY <2>1, EntryIs
      <4> QED BY <3>1, <4>1, EntryIs
    <3> QED BY <3>1, <3>2 DEF TaggedAt
  <2> QED BY <1>3, <2>2, <2>3, <2>4, <2>5, <2>6
<1>5. cur \in Row /\ cur \in {m.cursor, c.cursor}
  BY <1>1 DEF Client
<1>6. d = [c EXCEPT !.lines = [r \in Row |-> new(r)], !.seqno = m.seqno, !.top = m.top,
                    !.cursor = cur]
  BY DEF ApplyChanges
<1> HIDE DEF new, cur
<1> DEFINE ls == [r \in Row |-> new(r)]
<1>7. ls \in [Row -> LineEntry] /\ m.seqno \in 0..MaxSeq
  BY <1>1, <1>4
<1> HIDE DEF ls
<1>8. /\ d \in Client /\ d.lines = ls /\ d.seqno = m.seqno
      /\ d.top = m.top /\ d.cursor = cur /\ d.serial = c.serial
  <2>1. d = [c EXCEPT !.lines = ls, !.seqno = m.seqno, !.top = m.top, !.cursor = cur]
    BY <1>6 DEF ls
  <2> QED BY <1>1, <1>5, <1>7, <2>1 DEF Client
<1>9. \A r \in Row : ls[r] = new(r)
  BY DEF ls
<1> QED BY <1>2, <1>3, <1>4, <1>5, <1>8, <1>9

\* What an answer does: a row that is tagged with it takes its line.
LEMMA PutIs ==
    ASSUME NEW c \in Client, NEW t \in Instant, NEW vers, DOMAIN vers \subseteq Row,
           \A r \in DOMAIN vers : vers[r] \in 1..MaxSeq,
           NEW d, d = PutFetched(c, t, vers)
    PROVE  /\ d \in Client
           /\ d.top = c.top /\ d.seqno = c.seqno /\ d.serial = c.serial /\ d.cursor = c.cursor
           /\ \A r \in Row :
                \/ /\ r \in DOMAIN vers /\ TaggedAt(c.lines[r], t)
                   /\ d.lines[r].kind = "Line" /\ d.lines[r].ver = vers[r]
                \/ /\ r \notin DOMAIN vers \/ ~TaggedAt(c.lines[r], t)
                   /\ d.lines[r] = c.lines[r]
<1> DEFINE new(r) == IF r \in DOMAIN vers /\ TaggedAt(c.lines[r], t)
                     THEN Line(vers[r], Higher(vers[r], c.seqno))
                     ELSE c.lines[r]
<1>1. ASSUME NEW r \in Row
      PROVE  /\ new(r) \in LineEntry
             /\ \/ /\ r \in DOMAIN vers /\ TaggedAt(c.lines[r], t)
                   /\ new(r).kind = "Line" /\ new(r).ver = vers[r]
                \/ /\ r \notin DOMAIN vers \/ ~TaggedAt(c.lines[r], t)
                   /\ new(r) = c.lines[r]
  <2>1. c.lines[r] \in LineEntry /\ 0 \in 0..MaxFetches
    BY CacheAssumption DEF Client
  <2>2. CASE r \in DOMAIN vers /\ TaggedAt(c.lines[r], t)
    <3>1. vers[r] \in 0..MaxSeq /\ Higher(vers[r], c.seqno) \in 0..MaxSeq
      BY <2>2 DEF Higher, Client
    <3>2. new(r) = Line(vers[r], Higher(vers[r], c.seqno))
      BY <2>2
    <3> HIDE DEF new
    <3>3. \A v, s \in 0..MaxSeq :
             Line(v, s) \in LineEntry /\ Line(v, s).kind = "Line" /\ Line(v, s).ver = v
      BY <2>1, EntryIs
    <3>4. new(r) \in LineEntry /\ new(r).kind = "Line" /\ new(r).ver = vers[r]
      BY <3>1, <3>2, <3>3
    <3> QED BY <2>2, <3>4
  <2> QED BY <2>1, <2>2
<1>2. d = [c EXCEPT !.lines = [r \in Row |-> new(r)]]
  BY DEF PutFetched
<1> HIDE DEF new
<1>3. [r \in Row |-> new(r)] \in [Row -> LineEntry]
  BY <1>1
<1>4. /\ d \in Client /\ d.lines = [r \in Row |-> new(r)] /\ d.seqno = c.seqno
      /\ d.top = c.top /\ d.cursor = c.cursor /\ d.serial = c.serial
  BY <1>2, <1>3 DEF Client
<1> QED BY <1>1, <1>4

\* What a failure does: a row that is tagged with it loses its tag.
LEMMA FailIs ==
    ASSUME NEW c \in Client, NEW t \in Instant, NEW rows,
           NEW d, d = FailFetch(c, t, rows)
    PROVE  /\ d \in Client
           /\ d.top = c.top /\ d.seqno = c.seqno /\ d.serial = c.serial /\ d.cursor = c.cursor
           /\ \A r \in Row :
                \/ /\ r \in rows /\ TaggedAt(c.lines[r], t)
                   /\ \/ d.lines[r].kind = "Absent"
                      \/ /\ c.lines[r].kind = "LineAndFetching"
                         /\ d.lines[r].kind = "Line" /\ d.lines[r].ver = c.lines[r].ver
                \/ /\ r \notin rows \/ ~TaggedAt(c.lines[r], t)
                   /\ d.lines[r] = c.lines[r]
<1> DEFINE new(r) == IF r \in rows /\ TaggedAt(c.lines[r], t)
                     THEN IF c.lines[r].kind = "Fetching" THEN Absent
                          ELSE Holding("Line", c.lines[r], 0)
                     ELSE c.lines[r]
<1>1. ASSUME NEW r \in Row
      PROVE  /\ new(r) \in LineEntry
             /\ \/ /\ r \in rows /\ TaggedAt(c.lines[r], t)
                   /\ \/ new(r).kind = "Absent"
                      \/ /\ c.lines[r].kind = "LineAndFetching"
                         /\ new(r).kind = "Line" /\ new(r).ver = c.lines[r].ver
                \/ /\ r \notin rows \/ ~TaggedAt(c.lines[r], t)
                   /\ new(r) = c.lines[r]
  <2>1. c.lines[r] \in LineEntry /\ 0 \in 0..MaxFetches
    BY CacheAssumption DEF Client
  <2>2. CASE r \in rows /\ TaggedAt(c.lines[r], t) /\ c.lines[r].kind = "Fetching"
    <3>1. new(r) = Absent
      BY <2>2
    <3> HIDE DEF new
    <3> QED BY <2>1, <2>2, <3>1, EntryIs
  <2>3. CASE r \in rows /\ TaggedAt(c.lines[r], t) /\ c.lines[r].kind # "Fetching"
    <3>1. new(r) = Holding("Line", c.lines[r], 0) /\ c.lines[r].kind = "LineAndFetching"
      BY <2>3 DEF TaggedAt
    <3> HIDE DEF new
    <3> QED BY <2>1, <2>3, <3>1, EntryIs
  <2> QED BY <2>1, <2>2, <2>3
<1>2. d = [c EXCEPT !.lines = [r \in Row |-> new(r)]]
  BY DEF FailFetch
<1> HIDE DEF new
<1>3. [r \in Row |-> new(r)] \in [Row -> LineEntry]
  BY <1>1
<1>4. /\ d \in Client /\ d.lines = [r \in Row |-> new(r)] /\ d.seqno = c.seqno
      /\ d.top = c.top /\ d.cursor = c.cursor /\ d.serial = c.serial
  BY <1>2, <1>3 DEF Client
<1> QED BY <1>1, <1>4

\* What painting does: rows without a line, or with a stale one, are tagged.
LEMMA GetIs ==
    ASSUME NEW c \in Client, NEW t \in 0..MaxFetches, NEW rows,
           NEW d, d = GetLines(c, rows, t)
    PROVE  /\ d \in Client
           /\ d.top = c.top /\ d.seqno = c.seqno /\ d.serial = c.serial /\ d.cursor = c.cursor
           /\ RowsMissing(c, rows) \subseteq rows
           /\ \A r \in Row :
                \/ d.lines[r] = c.lines[r]
                \/ /\ r \in RowsMissing(c, rows) /\ d.lines[r].kind # "Line"
                   /\ \A u \in 0..MaxFetches : TaggedAt(d.lines[r], u) => u = t
<1> DEFINE new(r) == IF r \notin RowsMissing(c, rows) THEN c.lines[r]
                     ELSE IF Beyond(c, c.lines[r]) THEN Holding("Stale", c.lines[r], 0)
                     ELSE Refetch(c.lines[r], t)
<1>1. ASSUME NEW r \in Row
      PROVE  /\ new(r) \in LineEntry
             /\ \/ new(r) = c.lines[r]
                \/ /\ r \in RowsMissing(c, rows) /\ new(r).kind # "Line"
                   /\ \A u \in 0..MaxFetches : TaggedAt(new(r), u) => u = t
  <2>1. c.lines[r] \in LineEntry
    BY DEF Client
  <2>2. CASE r \in RowsMissing(c, rows) /\ Beyond(c, c.lines[r])
    <3>1. new(r) = Holding("Stale", c.lines[r], 0)
      BY <2>2
    <3> HIDE DEF new
    <3>2. new(r) \in LineEntry /\ new(r).kind = "Stale"
      BY <2>1, <3>1, EntryIs
    <3> QED BY <2>2, <3>2 DEF TaggedAt
  <2>3. CASE r \in RowsMissing(c, rows) /\ ~Beyond(c, c.lines[r])
    <3>1. new(r) = Refetch(c.lines[r], t)
      BY <2>3
    <3> HIDE DEF new
    <3>2. /\ new(r) \in LineEntry /\ new(r).kind \in {"Fetching", "LineAndFetching"}
          /\ new(r).at = t
      BY <2>1, <3>1, EntryIs
    <3> QED BY <2>3, <3>2 DEF TaggedAt
  <2> QED BY <2>1, <2>2, <2>3
<1>2. d = [c EXCEPT !.lines = [r \in Row |-> new(r)]]
  BY DEF GetLines
<1> HIDE DEF new
<1>3. [r \in Row |-> new(r)] \in [Row -> LineEntry]
  BY <1>1
<1>4. /\ d \in Client /\ d.lines = [r \in Row |-> new(r)] /\ d.seqno = c.seqno
      /\ d.top = c.top /\ d.cursor = c.cursor /\ d.serial = c.serial
  BY <1>2, <1>3 DEF Client
<1>5. RowsMissing(c, rows) \subseteq rows
  BY DEF RowsMissing
<1> QED BY <1>1, <1>4, <1>5

\* The instant of a fetch tags nothing else.
LEMMA NowIs ==
    ASSUME NEW rows, ClockRuns(rows)
    PROVE  /\ Now \in 0..MaxFetches
           /\ rows # {} =>
                 /\ Now \in Instant
                 /\ \A i \in DOMAIN wire : wire[i].type # "delta" => wire[i].at # Now
<1>1. CASE \E t \in Instant : Untagged(t)
  <2>1. Now = CHOOSE t \in Instant : Untagged(t)
    BY <1>1 DEF Now
  <2>2. Now \in Instant /\ Untagged(Now)
    BY <1>1, <2>1
  <2> QED BY <2>2 DEF Untagged, Instant
<1>2. CASE ~\E t \in Instant : Untagged(t)
  BY <1>2, CacheAssumption DEF ClockRuns, Now
<1> QED BY <1>1, <1>2

----------------------------------------------------------------------------
(* The server's steps.                                                     *)

\* The parts of the state.
LEMMA Parts ==
    ASSUME TypeOK
    PROVE  /\ Row \subseteq Nat /\ MaxSeq \in Nat \ {0}
           /\ term.seqno \in Nat /\ session.seqno \in Nat /\ job.old \in Nat
           /\ term = [seqno |-> term.seqno, ver |-> term.ver, cursor |-> term.cursor,
                      top |-> term.top]
           /\ term.seqno \in 1..MaxSeq /\ term.cursor \in Row /\ term.top \in Row
           /\ term.ver \in [Row -> 1..MaxSeq]
           /\ session.seqno \in 0..MaxSeq /\ session.cursor \in Row /\ session.top \in 0..Rows
           /\ job.stage \in {"none", "seqno", "dirty", "lines"} /\ job.serial \in 0..MaxUpsets
           /\ job.top \in 0..Rows /\ job.cursor \in 0..Rows /\ job.old \in 0..MaxSeq
           /\ job.dirty \in SUBSET Row
           /\ due.push \in BOOLEAN /\ due.keys \in Seq(1..MaxUpsets)
           /\ wire \in Seq(Delta \cup Answer) /\ asked \in SUBSET Fetch /\ client \in Client
           /\ client.lines \in [Row -> LineEntry] /\ client.seqno \in 0..MaxSeq
           /\ client.cursor \in Row /\ client.top \in Row /\ client.serial \in 0..MaxUpsets
           /\ typed \in 0..MaxUpsets /\ upsets \in 0..MaxUpsets
           /\ overtaken \in BOOLEAN /\ connected \in BOOLEAN
<1>1. /\ term = [seqno |-> term.seqno, ver |-> term.ver, cursor |-> term.cursor,
                 top |-> term.top]
      /\ term.seqno \in 1..MaxSeq /\ term.cursor \in Row /\ term.top \in Row
      /\ term.ver \in [Row -> 1..MaxSeq]
  BY DEF TypeOK
<1>2. session.seqno \in 0..MaxSeq /\ session.cursor \in Row /\ session.top \in 0..Rows
  BY DEF TypeOK
<1>3. /\ job.stage \in {"none", "seqno", "dirty", "lines"} /\ job.serial \in 0..MaxUpsets
      /\ job.top \in 0..Rows /\ job.cursor \in 0..Rows /\ job.old \in 0..MaxSeq
      /\ job.dirty \in SUBSET Row
  BY DEF TypeOK
<1>4. due.push \in BOOLEAN /\ due.keys \in Seq(1..MaxUpsets)
  BY DEF TypeOK
<1>5. /\ client \in Client /\ client.lines \in [Row -> LineEntry] /\ client.seqno \in 0..MaxSeq
      /\ client.cursor \in Row /\ client.top \in Row /\ client.serial \in 0..MaxUpsets
  BY DEF TypeOK, Client
<1>6. /\ wire \in Seq(Delta \cup Answer) /\ asked \in SUBSET Fetch
      /\ typed \in 0..MaxUpsets /\ upsets \in 0..MaxUpsets
      /\ overtaken \in BOOLEAN /\ connected \in BOOLEAN
  BY DEF TypeOK
<1>7. Row \subseteq Nat /\ MaxSeq \in Nat \ {0}
  BY CacheAssumption DEF Row
<1>8. term.seqno \in Nat /\ session.seqno \in Nat /\ job.old \in Nat
  BY <1>1, <1>2, <1>3, <1>7
<1> QED BY <1>1, <1>2, <1>3, <1>4, <1>5, <1>6, <1>7, <1>8

\* Rows are numbers, and the last one that is known is a row.
LEMMA ReachIs ==
    ASSUME TypeOK, ScreenFits
    PROVE  /\ Row \subseteq Nat /\ Screen \in Nat \ {0} /\ Rows \in Nat /\ Row = 1..Rows
           /\ term.top \in 1..Rows
           /\ \A n \in Nat : LastRow(n) = n + Screen - 1
           /\ Reach \in Row /\ Reach <= LastRow(term.top)
           /\ job.stage = "none" => Reach = LastRow(term.top)
           /\ job.stage # "none" => Reach = LastRow(job.top) /\ job.top \in 1..Rows
<1>1. Row \subseteq Nat /\ Screen \in Nat \ {0} /\ Rows \in Nat /\ Row = 1..Rows
  BY CacheAssumption, RemoteAssumption DEF Row
<1>2. \A n \in Nat : LastRow(n) = n + Screen - 1
  BY DEF LastRow
<1>3. term.top \in 1..Rows
  BY Parts DEF Row
<1>4. CASE job.stage = "none"
  BY <1>1, <1>2, <1>3, <1>4 DEF Reach, ScreenFits, Row
<1>5. CASE job.stage # "none"
  <2>1. job.top \in 1..term.top
    BY <1>5 DEF ScreenFits
  <2>2. job.top \in 1..Rows
    BY <1>1, <1>3, <2>1
  <2> QED BY <1>1, <1>2, <1>3, <1>5, <2>1, <2>2 DEF Reach, ScreenFits, Row
<1> QED BY <1>1, <1>2, <1>3, <1>4, <1>5

\* What fits stays so when more is known.
LEMMA KnownKept ==
    ASSUME TypeOK, ScreenFits, Known, Reach' \in Int, Reach <= Reach',
           UNCHANGED <<wire, asked, client>>
    PROVE  Known'
<1>1. Reach \in Nat /\ Reach' \in Nat /\ Row \subseteq Nat /\ Screen \in Nat
  BY ReachIs
<1>2. client.top \in Row /\ client.cursor \in Row /\ wire \in Seq(Delta \cup Answer)
  BY Parts
<1>3. LastRow(client'.top) <= Reach' /\ client'.cursor <= Reach'
  <2>1. LastRow(client.top) <= Reach /\ client.cursor <= Reach
    BY DEF Known
  <2>2. LastRow(client.top) \in Int /\ client.cursor \in Int
    <3>1. client.top \in Nat /\ client.cursor \in Nat
      BY <1>1, <1>2
    <3> QED BY <1>1, <3>1 DEF LastRow
  <2>3. LastRow(client.top) <= Reach' /\ client.cursor <= Reach'
    BY <1>1, <2>1, <2>2
  <2> QED BY <2>3
<1>4. \A r \in Row : client'.lines[r].kind # "Absent" => r <= Reach'
  BY <1>1 DEF Known
<1>5. 1..Reach \subseteq 1..Reach'
  BY <1>1
<1>6. \A f \in asked' : f.rows \subseteq 1..Reach'
  BY <1>5 DEF Known
<1>7. ASSUME NEW i \in DOMAIN wire PROVE MessageFits(wire'[i], Reach')
  <2>1. wire[i] \in Delta \cup Answer /\ MessageFits(wire[i], Reach)
    BY <1>2, <1>7 DEF Known
  <2>2. wire[i].type = "delta" => wire[i].top \in Row /\ wire[i].cursor \in Row
    BY <2>1, MessageIs
  <2> QED BY <1>1, <1>5, <2>1, <2>2 DEF MessageFits, LastRow
<1> QED BY <1>3, <1>4, <1>6, <1>7 DEF Known

\* A step of the server that sends nothing: changes that are still to come, and new
\* ones, must be in work.
LEMMA ServerStep ==
    ASSUME IInv, UNCHANGED <<wire, asked, client, overtaken>>,
           Kinds', ScreenFits', SeqnoTold', Reach' \in Int, Reach <= Reach',
           \A r \in 1..Reach : InWork(r)' \/ (term'.ver[r] = term.ver[r] /\ ~InWork(r))
    PROVE  IInv'
<1>1. /\ TypeOK /\ ScreenFits /\ Known /\ NoOrphans /\ TypeOK'
      /\ wire \in Seq(Delta \cup Answer)
  BY DEF IInv, Kinds, TypeOK
<1>2. Known'
  BY <1>1, KnownKept
<1>3. NoOrphans'
  BY <1>1 DEF NoOrphans, Tagged, Awaited
<1>4. ASSUME ~overtaken PROVE Replaced'
  <2>1. Replaced
    BY <1>4 DEF IInv
  <2>2. ASSUME NEW r \in 1..Reach, NEW i, NEW v, v = term.ver[r] \/ ToComeAfter(r, i)
        PROVE  v = term'.ver[r] \/ ToComeAfter(r, i)'
    <3>1. CASE InWork(r)'
      BY <3>1 DEF ToComeAfter
    <3>2. CASE term'.ver[r] = term.ver[r] /\ ~InWork(r)
      BY <2>2, <3>2 DEF ToComeAfter, OnItsWay, Brings
    <3> QED BY <3>1, <3>2
  <2>3. Row \subseteq Nat /\ Reach \in Nat
    BY <1>1, ReachIs
  <2>4. ASSUME NEW r \in Row, client.lines[r].kind = "Line"
        PROVE  client.lines[r].ver = term'.ver[r] \/ ToComeAfter(r, 0)'
    <3>1. r \in 1..Reach
      BY <1>1, <2>3, <2>4 DEF Known, Row
    <3> QED BY <2>1, <2>2, <2>4, <3>1 DEF Replaced
  <2>5. ASSUME NEW i \in DOMAIN wire, NEW r \in Row
        PROVE  /\ wire[i].type = "lines" /\ r \in wire[i].rows /\ Tagged(r, wire[i].at) =>
                    (wire[i].vers[r] = term'.ver[r] \/ ToComeAfter(r, 0)')
               /\ wire[i].type = "failed" /\ r \in wire[i].rows /\ Tagged(r, wire[i].at)
                    /\ client.lines[r].kind = "LineAndFetching" =>
                    (client.lines[r].ver = term'.ver[r] \/ ToComeAfter(r, 0)')
               /\ wire[i].type = "delta" /\ r \in DOMAIN wire[i].bonus =>
                    (wire[i].bonus[r] = term'.ver[r] \/ ToComeAfter(r, i)')
    <3>1. MessageFits(wire[i], Reach)
      BY <1>1 DEF Known
    <3>2. wire[i].type # "delta" /\ r \in wire[i].rows => r \in 1..Reach
      BY <3>1 DEF MessageFits
    <3>3. wire[i].type = "delta" /\ r \in DOMAIN wire[i].bonus => r \in 1..Reach
      BY <3>1 DEF MessageFits
    <3> QED BY <2>1, <2>2, <3>2, <3>3 DEF Replaced
  <2> QED BY <2>4, <2>5 DEF Replaced, Tagged
<1> QED BY <1>2, <1>3, <1>4 DEF IInv

\* New output: rows that change are newer than what any session has been told.
LEMMA OutputInv ==
    ASSUME IInv, NEW changed \in SUBSET Row, NEW cursor \in Row, NEW scrolls \in BOOLEAN,
           Output(changed, cursor, scrolls)
    PROVE  IInv'
<1> DEFINE top == term.top + IF scrolls THEN 1 ELSE 0
<1>1. TypeOK /\ ScreenFits /\ SeqnoTold /\ Kinds
  BY DEF IInv, Kinds
<1>2. /\ top \in Nat /\ term.top <= top /\ LastRow(top) <= Rows /\ top \in Row
      /\ cursor \in top..LastRow(top) /\ term.seqno \in 1..MaxSeq /\ term.seqno < MaxSeq
      /\ changed \subseteq top..LastRow(top)
  <2>1. /\ term.top \in 1..Rows /\ term.seqno \in 1..MaxSeq
        /\ Rows \in Nat /\ Screen \in 1..Rows
    BY <1>1, Parts, RemoteAssumption, CacheAssumption DEF Row
  <2>2. /\ top + Screen - 1 <= Rows /\ cursor \in top..(top + Screen - 1)
        /\ changed \subseteq top..(top + Screen - 1) /\ term.seqno < MaxSeq
    BY DEF Output, LastRow
  <2>3. top \in Nat /\ term.top <= top /\ 1 <= top
    BY <2>1
  <2> HIDE DEF top
  <2> QED BY <2>1, <2>2, <2>3 DEF LastRow, Row
<1> HIDE DEF top
<1>3. term' = [seqno |-> term.seqno + 1, top |-> top, cursor |-> cursor,
               ver |-> [r \in Row |-> IF r \in changed THEN term.seqno + 1 ELSE term.ver[r]]]
  BY DEF Output, top
<1> DEFINE v == [r \in Row |-> IF r \in changed THEN term.seqno + 1 ELSE term.ver[r]]
<1>20. \A r \in Row : v[r] = IF r \in changed THEN term.seqno + 1 ELSE term.ver[r]
  OBVIOUS
<1>21. term' = [seqno |-> term.seqno + 1, top |-> top, cursor |-> cursor, ver |-> v]
  BY <1>3
<1>22. term.seqno + 1 \in 1..MaxSeq
  BY <1>2, CacheAssumption
<1>23. v \in [Row -> 1..MaxSeq]
  BY <1>1, <1>22, Parts
<1> HIDE DEF v
<1>4. /\ term'.seqno = term.seqno + 1 /\ term'.top = top /\ term'.cursor = cursor
      /\ \A r \in Row : term'.ver[r] = IF r \in changed THEN term.seqno + 1 ELSE term.ver[r]
  BY <1>20, <1>21
<1>5. /\ UNCHANGED <<session, job, connected, wire, asked, client, typed, upsets, overtaken>>
      /\ due' = [due EXCEPT !.push = @ \/ connected]
  BY DEF Output
<1>6. TypeOK'
  <2>3. term' \in [seqno : 1..MaxSeq, ver : [Row -> 1..MaxSeq], cursor : Row, top : Row]
    BY <1>2, <1>21, <1>22, <1>23
  <2>4. due' \in [push : BOOLEAN, keys : Seq(1..MaxUpsets)]
    BY <1>1, <1>5 DEF TypeOK
  <2> QED BY <1>1, <1>5, <2>3, <2>4 DEF TypeOK
<1>7. Kinds'
  BY <1>1, <1>5, <1>6 DEF Kinds
<1>8. ScreenFits'
  <2>1. job.stage # "none" => job.top \in 1..top
    <3>1. term.top \in Nat
      BY <1>1, ReachIs
    <3> QED BY <1>1, <1>2, <3>1 DEF ScreenFits
  <2> QED BY <1>1, <1>2, <1>4, <1>5, <2>1 DEF ScreenFits, LastRow
<1>9. SeqnoTold'
  <2>1. session.seqno \in Nat /\ term.seqno \in Nat
    BY <1>1, Parts
  <2> QED BY <1>1, <1>4, <1>5, <2>1 DEF SeqnoTold
<1>10. Reach' \in Int /\ Reach <= Reach'
  <2>1. /\ term.top \in Nat /\ Screen \in Nat /\ \A n \in Nat : LastRow(n) = n + Screen - 1
        /\ Reach \in Nat /\ (job.stage = "none" => Reach = LastRow(term.top))
    BY <1>1, ReachIs
  <2>2. CASE job.stage = "none"
    BY <1>2, <1>4, <1>5, <2>1, <2>2 DEF Reach
  <2>3. CASE job.stage # "none"
    BY <1>5, <2>1, <2>3 DEF Reach
  <2> QED BY <2>2, <2>3
<1>11. ASSUME NEW r \in 1..Reach
       PROVE  InWork(r)' \/ (term'.ver[r] = term.ver[r] /\ ~InWork(r))
  <2>1. r \in Row
    BY <1>1, ReachIs DEF Row
  <2>2. CASE r \in changed
    <3>1. term'.ver[r] > session.seqno
      <4>1. session.seqno \in Nat /\ term.seqno \in Nat
        BY <1>1, Parts
      <4> QED BY <1>1, <1>4, <2>1, <2>2, <4>1 DEF SeqnoTold
    <3> QED BY <1>5, <3>1 DEF InWork
  <2>3. CASE r \notin changed
    BY <1>4, <1>5, <2>1, <2>3 DEF InWork
  <2> QED BY <2>2, <2>3
<1> QED BY <1>5, <1>7, <1>8, <1>9, <1>10, <1>11, ServerStep

\* Work on a push begins: with the screen and the cursor as they are.
LEMMA StartPushInv ==
    ASSUME IInv, NEW why \in {"push", "key"}, StartPush(why)
    PROVE  IInv'
<1>1. TypeOK /\ ScreenFits /\ SeqnoTold /\ Kinds
  BY DEF IInv, Kinds
<1> DEFINE serial == IF why = "key" THEN Head(due.keys) ELSE 0
<1>2. /\ job.stage = "none"
      /\ why = "push" => due' = [due EXCEPT !.push = FALSE]
      /\ why = "key" => due.keys # <<>> /\ due' = [due EXCEPT !.keys = Tail(@)]
      /\ job' = [stage |-> "seqno", top |-> term.top, cursor |-> term.cursor,
                 serial |-> serial, old |-> session.seqno, dirty |-> {}]
      /\ UNCHANGED <<term, session, connected, wire, asked, client, typed, upsets, overtaken>>
  BY DEF StartPush
<1>3. serial \in 0..MaxUpsets
  <2>1. CASE why = "key"
    <3>1. due.keys \in Seq(1..MaxUpsets) /\ due.keys # <<>>
      BY <1>1, <1>2, <2>1, Parts
    <3>2. Head(due.keys) \in 1..MaxUpsets
      BY <3>1, HeadTailProperties
    <3> QED BY <2>1, <3>2, RemoteAssumption
  <2>2. CASE why # "key"
    BY <2>2, RemoteAssumption
  <2> QED BY <2>1, <2>2
<1> HIDE DEF serial
<1>4. /\ job'.stage = "seqno" /\ job'.top = term.top /\ job'.cursor = term.cursor
      /\ job'.serial = serial /\ job'.old = session.seqno /\ job'.dirty = {}
  BY <1>2
<1>5. TypeOK'
  <2>1. /\ term.top \in Row /\ term.cursor \in Row /\ session.seqno \in 0..MaxSeq
        /\ due.push \in BOOLEAN /\ due.keys \in Seq(1..MaxUpsets)
    BY <1>1, Parts
  <2>2. term.top \in 0..Rows /\ term.cursor \in 0..Rows
    BY <2>1, CacheAssumption DEF Row
  <2>3. job' \in [stage : {"none", "seqno", "dirty", "lines"}, serial : 0..MaxUpsets,
                  top : 0..Rows, cursor : 0..Rows, old : 0..MaxSeq, dirty : SUBSET Row]
    BY <1>2, <1>3, <2>1, <2>2
  <2>4. due' \in [push : BOOLEAN, keys : Seq(1..MaxUpsets)]
    <3>1. CASE why = "push"
      BY <1>1, <1>2, <3>1 DEF TypeOK
    <3>2. CASE why = "key"
      <4>1. Tail(due.keys) \in Seq(1..MaxUpsets)
        BY <1>2, <2>1, <3>2, HeadTailProperties
      <4> QED BY <1>1, <1>2, <3>2, <4>1 DEF TypeOK
    <3> QED BY <3>1, <3>2
  <2> QED BY <1>1, <1>2, <2>3, <2>4 DEF TypeOK
<1>6. Kinds'
  BY <1>1, <1>2, <1>5 DEF Kinds
<1>7. ScreenFits'
  <2>1. term.top \in 1..Rows /\ Rows \in Nat
    BY <1>1, ReachIs
  <2> QED BY <1>1, <1>2, <1>4, <2>1 DEF ScreenFits, LastRow
<1>8. SeqnoTold'
  BY <1>1, <1>2, <1>4 DEF SeqnoTold
<1>9. Reach' = Reach /\ Reach \in Nat
  BY <1>1, <1>2, <1>4, ReachIs DEF Reach
<1>10. ASSUME NEW r \in 1..Reach
       PROVE  InWork(r)' \/ (term'.ver[r] = term.ver[r] /\ ~InWork(r))
  BY <1>2, <1>4 DEF InWork
<1> QED BY <1>2, <1>6, <1>7, <1>8, <1>9, <1>10, ServerStep

\* The sequence number is taken: what is newer than the last one will be looked up.
LEMMA TakeSeqnoInv ==
    ASSUME IInv, TakeSeqno
    PROVE  IInv'
<1>1. TypeOK /\ ScreenFits /\ SeqnoTold /\ Kinds
  BY DEF IInv, Kinds
<1>2. /\ job.stage = "seqno"
      /\ session' = [session EXCEPT !.seqno = term.seqno]
      /\ job' = [job EXCEPT !.stage = "dirty"]
      /\ UNCHANGED <<term, due, connected, wire, asked, client, typed, upsets, overtaken>>
  BY DEF TakeSeqno
<1>3. /\ session'.seqno = term.seqno /\ job'.stage = "dirty" /\ job'.top = job.top
      /\ job'.cursor = job.cursor /\ job'.old = job.old /\ job'.dirty = job.dirty
  BY <1>1, <1>2 DEF TypeOK
<1>4. TypeOK'
  <2>1. term.seqno \in 0..MaxSeq
    BY <1>1, Parts
  <2>2. session' \in [seqno : 0..MaxSeq, cursor : Row, top : 0..Rows]
    BY <1>1, <1>2, <2>1 DEF TypeOK
  <2>3. job' \in [stage : {"none", "seqno", "dirty", "lines"}, serial : 0..MaxUpsets,
                  top : 0..Rows, cursor : 0..Rows, old : 0..MaxSeq, dirty : SUBSET Row]
    BY <1>1, <1>2 DEF TypeOK
  <2> QED BY <1>1, <1>2, <2>2, <2>3 DEF TypeOK
<1>5. Kinds'
  BY <1>1, <1>2, <1>4 DEF Kinds
<1>6. ScreenFits'
  BY <1>1, <1>2, <1>3 DEF ScreenFits
<1>7. SeqnoTold'
  <2>1. term.seqno \in 1..MaxSeq /\ term.seqno \in Nat
    BY <1>1, Parts
  <2> QED BY <1>2, <1>3, <2>1 DEF SeqnoTold
<1>8. Reach' = Reach /\ Reach \in Nat
  BY <1>1, <1>2, <1>3, ReachIs DEF Reach
<1>9. ASSUME NEW r \in 1..Reach
      PROVE  InWork(r)' \/ (term'.ver[r] = term.ver[r] /\ ~InWork(r))
  <2>1. job.old = session.seqno /\ r <= LastRow(job.top)
    BY <1>1, <1>2, ReachIs DEF SeqnoTold
  <2>2. InWork(r) => term.ver[r] > job.old
    BY <1>2, <2>1 DEF InWork
  <2>3. term.ver[r] > job.old => InWork(r)'
    BY <1>2, <1>3, <2>1 DEF InWork
  <2> QED BY <1>2, <2>2, <2>3
<1> QED BY <1>2, <1>5, <1>6, <1>7, <1>8, <1>9, ServerStep

\* The dirty lines are looked up; there may be nothing to send.
LEMMA TakeDirtyInv ==
    ASSUME IInv, TakeDirty
    PROVE  IInv'
<1> DEFINE dirty == ChangedSince(job.old, job.top)
<1>1. TypeOK /\ ScreenFits /\ SeqnoTold /\ Kinds
  BY DEF IInv, Kinds
<1>2. /\ job.stage = "dirty"
      /\ \/ job' = [job EXCEPT !.stage = "lines", !.dirty = dirty]
         \/ job' = NoJob /\ dirty = {}
      /\ UNCHANGED <<term, session, due, connected, wire, asked, client, typed, upsets, overtaken>>
  BY DEF TakeDirty
<1>3. /\ dirty \subseteq 1..LastRow(job.top) /\ dirty \subseteq Row
      /\ \A r \in 1..Reach : r \in dirty <=> term.ver[r] > job.old
      /\ Reach = LastRow(job.top) /\ Reach \in Nat
  <2>1. Reach = LastRow(job.top) /\ Reach \in Row /\ Row = 1..Rows /\ Rows \in Nat
    BY <1>1, <1>2, ReachIs
  <2>2. 1..LastRow(job.top) \subseteq Row
    BY <2>1
  <2> QED BY <2>1, <2>2 DEF ChangedSince
<1> HIDE DEF dirty
<1>4. CASE job' = NoJob /\ dirty = {}
  <2>1. job'.stage = "none"
    BY <1>4 DEF NoJob
  <2>2. TypeOK'
    <3>1. job' \in [stage : {"none", "seqno", "dirty", "lines"}, serial : 0..MaxUpsets,
                    top : 0..Rows, cursor : 0..Rows, old : 0..MaxSeq, dirty : SUBSET Row]
      BY <1>4, CacheAssumption, RemoteAssumption DEF NoJob
    <3> QED BY <1>1, <1>2, <3>1 DEF TypeOK
  <2>3. Kinds'
    BY <1>1, <1>2, <2>2 DEF Kinds
  <2>4. ScreenFits' /\ SeqnoTold'
    BY <1>1, <1>2, <2>1 DEF ScreenFits, SeqnoTold
  <2>5. Reach' \in Int /\ Reach <= Reach'
    <3>1. term.top \in Nat /\ Reach <= LastRow(term.top) /\ LastRow(term.top) \in Int
      BY <1>1, ReachIs
    <3>2. Reach' = LastRow(term.top)
      BY <1>2, <2>1 DEF Reach
    <3> QED BY <3>1, <3>2
  <2>6. ASSUME NEW r \in 1..Reach
        PROVE  InWork(r)' \/ (term'.ver[r] = term.ver[r] /\ ~InWork(r))
    <3>1. ~(term.ver[r] > job.old)
      BY <1>3, <1>4
    <3> QED BY <1>2, <2>1, <3>1 DEF InWork
  <2> QED BY <1>2, <2>3, <2>4, <2>5, <2>6, ServerStep
<1>5. CASE job' = [job EXCEPT !.stage = "lines", !.dirty = dirty]
  <2>1. /\ job'.stage = "lines" /\ job'.top = job.top /\ job'.cursor = job.cursor
        /\ job'.old = job.old /\ job'.dirty = dirty
    BY <1>1, <1>5 DEF TypeOK
  <2>2. TypeOK'
    <3>1. job' \in [stage : {"none", "seqno", "dirty", "lines"}, serial : 0..MaxUpsets,
                    top : 0..Rows, cursor : 0..Rows, old : 0..MaxSeq, dirty : SUBSET Row]
      BY <1>1, <1>3, <1>5 DEF TypeOK
    <3> QED BY <1>1, <1>2, <3>1 DEF TypeOK
  <2>3. Kinds'
    BY <1>1, <1>2, <2>2 DEF Kinds
  <2>4. ScreenFits' /\ SeqnoTold'
    BY <1>1, <1>2, <1>3, <2>1 DEF ScreenFits, SeqnoTold
  <2>5. Reach' = Reach
    BY <1>2, <2>1 DEF Reach
  <2>6. ASSUME NEW r \in 1..Reach
        PROVE  InWork(r)' \/ (term'.ver[r] = term.ver[r] /\ ~InWork(r))
    <3>1. r \in dirty <=> term.ver[r] > job.old
      BY <1>3
    <3> QED BY <1>2, <2>1, <3>1 DEF InWork
  <2> QED BY <1>2, <1>3, <2>3, <2>4, <2>5, <2>6, ServerStep
<1> QED BY <1>2, <1>4, <1>5

----------------------------------------------------------------------------
(* The server's messages.                                                  *)

\* A message appended to those on their way.
LEMMA AppendIs ==
    ASSUME NEW T, NEW s \in Seq(T), NEW m \in T
    PROVE  /\ Append(s, m) \in Seq(T)
           /\ Len(s) \in Nat /\ DOMAIN s = 1..Len(s) /\ DOMAIN Append(s, m) = 1..(Len(s) + 1)
           /\ \A i \in DOMAIN s : Append(s, m)[i] = s[i]
           /\ Append(s, m)[Len(s) + 1] = m
OBVIOUS

\* What fits stays so when more is known, one message.
LEMMA FitsKept ==
    ASSUME NEW m \in Delta \cup Answer, MessageFits(m, Reach), Reach \in Nat, Reach' \in Int,
           Reach <= Reach'
    PROVE  MessageFits(m, Reach')
<1>1. 1..Reach \subseteq 1..Reach'
  OBVIOUS
<1>2. CASE m.type = "delta"
  <2>1. m.top \in Nat /\ m.cursor \in Nat
    BY <1>2, MessageIs, CacheAssumption DEF Row
  <2>2. LastRow(m.top) \in Int
    BY <2>1, RemoteAssumption, CacheAssumption DEF LastRow
  <2>3. LastRow(m.top) <= Reach /\ m.cursor <= Reach
    BY <1>2 DEF MessageFits
  <2>4. LastRow(m.top) <= Reach' /\ m.cursor <= Reach'
    BY <2>1, <2>2, <2>3
  <2> QED BY <1>1, <1>2, <2>4 DEF MessageFits, LastRow
<1>3. CASE m.type # "delta"
  BY <1>1, <1>3 DEF MessageFits
<1> QED BY <1>2, <1>3

\* A step of the server that sends a message: what it takes out of work or of the
\* requests is in the message, and the message is up to date.
LEMMA SendStep ==
    ASSUME IInv, NEW m \in Delta \cup Answer, wire' = Append(wire, m),
           UNCHANGED <<term, client, overtaken>>,
           Kinds', ScreenFits', SeqnoTold', Reach' \in Int, Reach <= Reach',
           MessageFits(m, Reach'), m.type # "failed", asked' \subseteq asked,
           \A f \in asked \ asked' : m.type # "delta" /\ m.at = f.at /\ m.rows = f.rows,
           \A r \in 1..Reach : InWork(r) => InWork(r)' \/ (m.type = "delta" /\ Brings(m, r, term.ver[r])),
           m.type = "lines" => \A r \in m.rows : m.vers[r] = term.ver[r],
           m.type = "delta" => \A r \in DOMAIN m.bonus : m.bonus[r] = term.ver[r]
    PROVE  IInv'
<1> DEFINE n == Len(wire) + 1
<1>1. /\ TypeOK /\ ScreenFits /\ Known /\ NoOrphans
      /\ wire \in Seq(Delta \cup Answer)
  <2>1. TypeOK
    BY DEF IInv, Kinds
  <2> QED BY <2>1, Parts DEF IInv
<1>2. /\ Len(wire) \in Nat /\ DOMAIN wire = 1..Len(wire) /\ DOMAIN wire' = 1..n
      /\ \A i \in DOMAIN wire : wire'[i] = wire[i]
      /\ wire'[n] = m
  BY <1>1, AppendIs
<1>3. /\ \A i \in DOMAIN wire : i \in DOMAIN wire' /\ i \in Nat /\ i <= Len(wire)
      /\ n \in DOMAIN wire' /\ n \in Nat /\ n > Len(wire)
      /\ \A i \in DOMAIN wire' : i \in DOMAIN wire \/ i = n
  BY <1>2
<1> HIDE DEF n
<1>4. Reach \in Nat /\ Row \subseteq Nat /\ Reach \in Row
  BY <1>1, ReachIs
<1>5. Known'
  <2>1. LastRow(client'.top) <= Reach' /\ client'.cursor <= Reach'
    <3>1. client.top \in Nat /\ client.cursor \in Nat
      BY <1>1, <1>4, Parts
    <3>2. LastRow(client.top) \in Int
      BY <3>1, RemoteAssumption, CacheAssumption DEF LastRow
    <3>3. LastRow(client.top) <= Reach /\ client.cursor <= Reach
      BY <1>1 DEF Known
    <3>4. LastRow(client.top) <= Reach' /\ client.cursor <= Reach'
      BY <1>4, <3>1, <3>2, <3>3
    <3> QED BY <3>4
  <2>2. \A r \in Row : client'.lines[r].kind # "Absent" => r <= Reach'
    BY <1>1, <1>4 DEF Known
  <2>3. 1..Reach \subseteq 1..Reach'
    BY <1>4
  <2>4. \A f \in asked' : f.rows \subseteq 1..Reach'
    BY <1>1, <2>3 DEF Known
  <2>5. ASSUME NEW i \in DOMAIN wire' PROVE MessageFits(wire'[i], Reach')
    <3>1. CASE i = n
      <4>1. wire'[i] = m
        BY <1>2, <3>1
      <4> QED BY <4>1 DEF MessageFits
    <3>2. CASE i \in DOMAIN wire
      <4>1. PICK w : w = wire[i]
        OBVIOUS
      <4>2. w \in Delta \cup Answer /\ MessageFits(w, Reach)
        BY <1>1, <3>2, <4>1 DEF Known
      <4>3. MessageFits(w, Reach')
        BY <1>4, <4>2, FitsKept
      <4>4. wire'[i] = w
        BY <1>2, <3>2, <4>1
      <4> QED BY <4>3, <4>4 DEF MessageFits
    <3> QED BY <1>3, <3>1, <3>2
  <2> QED BY <2>1, <2>2, <2>4, <2>5 DEF Known, MessageFits
<1>6. NoOrphans'
  <2>1. ASSUME NEW r \in Row, NEW t \in 0..MaxFetches, Tagged(r, t) PROVE Awaited(r, t)'
    <3>1. Awaited(r, t)
      BY <1>1, <2>1 DEF NoOrphans
    <3>2. CASE \E f \in asked : f.at = t /\ r \in f.rows
      <4>1. PICK f \in asked : f.at = t /\ r \in f.rows
        BY <3>2
      <4>2. CASE f \in asked'
        BY <4>1, <4>2 DEF Awaited
      <4>3. CASE f \notin asked'
        BY <1>2, <1>3, <4>1, <4>3 DEF Awaited
      <4> QED BY <4>2, <4>3
    <3>3. CASE \E i \in DOMAIN wire : wire[i].type # "delta" /\ wire[i].at = t
                                      /\ r \in wire[i].rows
      BY <1>2, <1>3, <3>3 DEF Awaited
    <3> QED BY <3>1, <3>2, <3>3 DEF Awaited
  <2> QED BY <2>1 DEF NoOrphans, Tagged
<1>7. ASSUME ~overtaken PROVE Replaced'
  <2>1. Replaced
    BY <1>7 DEF IInv
  <2>2. ASSUME NEW r \in 1..Reach, NEW i \in 0..Len(wire), ToComeAfter(r, i)
        PROVE  ToComeAfter(r, i)'
    <3>1. CASE InWork(r)' 
      BY <3>1 DEF ToComeAfter
    <3>2. CASE m.type = "delta" /\ Brings(m, r, term.ver[r])
      <4>1. n > i
        BY <1>2, <1>3
      <4>2. wire'[n].type = "delta" /\ Brings(wire'[n], r, term'.ver[r])
        BY <1>2, <3>2 DEF Brings
      <4> QED BY <1>3, <4>1, <4>2 DEF ToComeAfter, OnItsWay
    <3>3. CASE OnItsWay(r, i)
      <4>1. PICK j \in DOMAIN wire : j > i /\ wire[j].type = "delta" /\ Brings(wire[j], r, term.ver[r])
        BY <3>3 DEF OnItsWay
      <4>2. wire'[j].type = "delta" /\ Brings(wire'[j], r, term'.ver[r])
        BY <1>2, <4>1 DEF Brings
      <4> QED BY <1>3, <4>1, <4>2 DEF ToComeAfter, OnItsWay
    <3> QED BY <2>2, <3>1, <3>2, <3>3 DEF ToComeAfter
  <2>3. ASSUME NEW r \in Row, client.lines[r].kind = "Line"
        PROVE  client.lines[r].ver = term.ver[r] \/ ToComeAfter(r, 0)'
    <3>1. r \in 1..Reach /\ 0 \in 0..Len(wire)
      BY <1>1, <1>2, <1>4, <2>3 DEF Known, Row
    <3> QED BY <2>1, <2>2, <2>3, <3>1 DEF Replaced
  <2>4. ASSUME NEW i \in DOMAIN wire', NEW r \in Row
        PROVE  /\ wire'[i].type = "lines" /\ r \in wire'[i].rows /\ Tagged(r, wire'[i].at) =>
                    (wire'[i].vers[r] = term.ver[r] \/ ToComeAfter(r, 0)')
               /\ wire'[i].type = "failed" /\ r \in wire'[i].rows /\ Tagged(r, wire'[i].at)
                    /\ client.lines[r].kind = "LineAndFetching" =>
                    (client.lines[r].ver = term.ver[r] \/ ToComeAfter(r, 0)')
               /\ wire'[i].type = "delta" /\ r \in DOMAIN wire'[i].bonus =>
                    (wire'[i].bonus[r] = term.ver[r] \/ ToComeAfter(r, i)')
    <3>1. CASE i = n
      BY <1>2, <3>1
    <3>2. CASE i \in DOMAIN wire
      <4>1. MessageFits(wire[i], Reach) /\ wire'[i] = wire[i] /\ 0 \in 0..Len(wire)
            /\ i \in 0..Len(wire)
        BY <1>1, <1>2, <3>2 DEF Known
      <4>2. wire[i].type # "delta" /\ r \in wire[i].rows => r \in 1..Reach
        BY <4>1 DEF MessageFits
      <4>3. wire[i].type = "delta" /\ r \in DOMAIN wire[i].bonus => r \in 1..Reach
        BY <4>1 DEF MessageFits
      <4> QED BY <2>1, <2>2, <3>2, <4>1, <4>2, <4>3 DEF Replaced
    <3> QED BY <1>3, <3>1, <3>2
  <2> QED BY <2>3, <2>4 DEF Replaced, Tagged
<1> QED BY <1>5, <1>6, <1>7 DEF IInv

\* A delta: all that the work was about is in it, and the lines are read last.
LEMMA SendPushInv ==
    ASSUME IInv, NEW images \in BOOLEAN, SendPush(images)
    PROVE  IInv'
<1> DEFINE screen == job.top..LastRow(job.top)
           R == (job.dirty \cap screen) \cup {job.cursor}
<1>1. TypeOK /\ ScreenFits /\ SeqnoTold /\ Kinds
  BY DEF IInv, Kinds
<1>2. PICK m : m = [type |-> "delta", images |-> images, dirty |-> job.dirty \ screen,
                    bonus |-> [r \in R |-> term.ver[r]],
                    cursor |-> job.cursor, top |-> job.top, serial |-> job.serial,
                    seqno |-> session.seqno]
  OBVIOUS
<1>3. /\ job.stage = "lines" /\ Loads(images)
      /\ wire' = Append(wire, m)
      /\ session' = [session EXCEPT !.cursor = job.cursor, !.top = job.top]
      /\ job' = NoJob
      /\ UNCHANGED <<term, due, connected, asked, client, typed, overtaken>>
  BY <1>2 DEF SendPush
<1>4. /\ job.top \in 1..Rows /\ job.cursor \in screen /\ job.dirty \subseteq 1..Reach
      /\ Reach = LastRow(job.top) /\ Reach \in 1..Rows /\ Rows \in Nat /\ Row = 1..Rows
      /\ session.seqno \in 1..MaxSeq
  BY <1>1, <1>3, ReachIs DEF ScreenFits, SeqnoTold
<1>5. R \subseteq 1..Reach /\ R \subseteq Row /\ job.cursor \in 1..Reach
      /\ job.dirty \ screen \subseteq Row
  BY <1>4
<1>6. (job.dirty \ screen) \cap R = {} /\ job.dirty \cup {job.cursor} = (job.dirty \ screen) \cup R
  BY <1>4
<1>7. [r \in R |-> term.ver[r]] \in [R -> 1..MaxSeq]
  <2>1. term.ver \in [Row -> 1..MaxSeq]
    BY <1>1, Parts
  <2> QED BY <1>5, <2>1
<1> DEFINE b == [r \in R |-> term.ver[r]]
<1>8. /\ m.type = "delta" /\ m.dirty = job.dirty \ screen /\ DOMAIN m.bonus = R
      /\ \A r \in R : m.bonus[r] = term.ver[r]
      /\ m.cursor = job.cursor /\ m.top = job.top
  BY <1>2
<1>9. m \in Delta
  <2>1. b \in [R -> 1..MaxSeq] /\ R \in SUBSET Row
    BY <1>5, <1>7
  <2>2. m = [type |-> "delta", images |-> images, dirty |-> job.dirty \ screen,
             bonus |-> b, cursor |-> job.cursor, top |-> job.top, serial |-> job.serial,
             seqno |-> session.seqno]
    BY <1>2
  <2>3. job.serial \in 0..MaxUpsets /\ job.top \in Row /\ job.cursor \in Row
    BY <1>1, <1>4, <1>5, Parts
  <2>4. b \in UNION {[Q -> 1..MaxSeq] : Q \in SUBSET Row}
    BY <2>1
  <2> HIDE DEF b, R, screen
  <2> QED BY <1>4, <1>5, <2>2, <2>3, <2>4 DEF Delta
<1> HIDE DEF b
<1>10. job'.stage = "none" /\ session'.seqno = session.seqno
  BY <1>1, <1>3 DEF NoJob, TypeOK
<1>11. upsets' \in 0..MaxUpsets /\ upsets <= upsets'
  <2>1. upsets \in 0..MaxUpsets
    BY <1>1, Parts
  <2> QED BY <1>3, <2>1, RemoteAssumption DEF Loads
<1>12. TypeOK'
  <2>1. job' \in [stage : {"none", "seqno", "dirty", "lines"}, serial : 0..MaxUpsets,
                  top : 0..Rows, cursor : 0..Rows, old : 0..MaxSeq, dirty : SUBSET Row]
    BY <1>3, CacheAssumption, RemoteAssumption DEF NoJob
  <2>2. session' \in [seqno : 0..MaxSeq, cursor : Row, top : 0..Rows]
    <3>1. job.cursor \in Row /\ job.top \in 0..Rows
      BY <1>4, <1>5
    <3> QED BY <1>1, <1>3, <3>1 DEF TypeOK
  <2>3. wire' \in Seq(Delta \cup Answer)
    <3>1. wire \in Seq(Delta \cup Answer) /\ m \in Delta \cup Answer
      BY <1>1, <1>9, Parts
    <3> QED BY <1>3, <3>1, AppendIs
  <2> QED BY <1>1, <1>3, <1>11, <2>1, <2>2, <2>3 DEF TypeOK
<1>13. Kinds'
  <2>1. typed \in Nat /\ upsets \in Nat /\ typed <= upsets
    BY <1>1, Parts, RemoteAssumption DEF Kinds
  <2>2. typed' <= upsets'
    BY <1>3, <1>11, <2>1, RemoteAssumption
  <2> QED BY <1>1, <1>3, <1>12, <2>2 DEF Kinds
<1>14. ScreenFits' /\ SeqnoTold'
  BY <1>1, <1>3, <1>10 DEF ScreenFits, SeqnoTold
<1>15. Reach' \in Int /\ Reach <= Reach'
  <2>1. Reach <= LastRow(term.top) /\ LastRow(term.top) \in Int
    BY <1>1, ReachIs
  <2>2. Reach' = LastRow(term.top)
    BY <1>3, <1>10 DEF Reach
  <2> QED BY <2>1, <2>2
<1>16. MessageFits(m, Reach')
  <2>1. MessageFits(m, Reach)
    BY <1>4, <1>5, <1>6, <1>8 DEF MessageFits
  <2> QED BY <1>4, <1>9, <1>15, <2>1, FitsKept
<1>17. ASSUME NEW r \in 1..Reach, InWork(r)
       PROVE  InWork(r)' \/ (m.type = "delta" /\ Brings(m, r, term.ver[r]))
  <2>1. CASE term.ver[r] > session.seqno
    BY <1>3, <1>10, <2>1 DEF InWork
  <2>2. CASE r \in job.dirty \cup {job.cursor}
    BY <1>6, <1>8, <2>2 DEF Brings
  <2> QED BY <1>3, <1>17, <2>1, <2>2 DEF InWork
<1> HIDE DEF R, screen
<1> QED BY <1>3, <1>8, <1>9, <1>13, <1>14, <1>15, <1>16, <1>17, SendStep

\* An answer: it has the lines as they are, of all the rows it was asked for.
LEMMA AnswerFetchInv ==
    ASSUME IInv, NEW f \in asked, NEW images \in BOOLEAN, AnswerFetch(f, images)
    PROVE  IInv'
<1> DEFINE R == f.rows \cap 1..LastRow(term.top)
           v == [r \in R |-> term.ver[r]]
<1>1. TypeOK /\ ScreenFits /\ SeqnoTold /\ Kinds /\ Known
  BY DEF IInv, Kinds
<1>2. PICK m : m = [type |-> "lines", images |-> images, at |-> f.at, rows |-> f.rows,
                    vers |-> v]
  OBVIOUS
<1>3. /\ job.stage = "none" /\ Loads(images)
      /\ wire' = Append(wire, m) /\ asked' = asked \ {f}
      /\ UNCHANGED <<term, session, job, due, connected, client, typed, overtaken>>
  BY <1>2 DEF AnswerFetch
<1>4. Reach = LastRow(term.top) /\ Reach \in Nat
  BY <1>1, <1>3, ReachIs
<1>5. f.rows \subseteq 1..Reach /\ f \in Fetch
  BY <1>1, Parts DEF Known
<1>6. R = f.rows /\ f.rows \subseteq Row /\ f.at \in Instant
  BY <1>4, <1>5 DEF Fetch
<1>7. v \in [R -> 1..MaxSeq]
  <2>1. term.ver \in [Row -> 1..MaxSeq]
    BY <1>1, Parts
  <2> QED BY <1>6, <2>1
<1>8. DOMAIN v = f.rows /\ \A r \in f.rows : v[r] = term.ver[r]
  BY <1>6
<1> HIDE DEF v, R
<1>9. /\ m.type = "lines" /\ m.at = f.at /\ m.rows = f.rows /\ m.vers = v
  BY <1>2
<1>10. m \in Answer
  <2>1. v \in UNION {[Q -> 1..MaxSeq] : Q \in SUBSET Row}
    BY <1>6, <1>7
  <2> QED BY <1>2, <1>6, <2>1 DEF Answer
<1>11. upsets' \in 0..MaxUpsets /\ upsets <= upsets'
  <2>1. upsets \in 0..MaxUpsets
    BY <1>1, Parts
  <2> QED BY <1>3, <2>1, RemoteAssumption DEF Loads
<1>12. TypeOK'
  <2>1. wire' \in Seq(Delta \cup Answer)
    <3>1. wire \in Seq(Delta \cup Answer) /\ m \in Delta \cup Answer
      BY <1>1, <1>10, Parts
    <3> QED BY <1>3, <3>1, AppendIs
  <2> QED BY <1>1, <1>3, <1>11, <2>1 DEF TypeOK
<1>13. Kinds'
  <2>1. typed \in Nat /\ upsets \in Nat /\ typed <= upsets
    BY <1>1, Parts, RemoteAssumption DEF Kinds
  <2>2. typed' <= upsets'
    BY <1>3, <1>11, <2>1, RemoteAssumption
  <2>3. IsFiniteSet(asked')
    BY <1>1, <1>3, FS_Subset DEF Kinds
  <2> QED BY <1>12, <2>2, <2>3 DEF Kinds
<1>14. ScreenFits' /\ SeqnoTold'
  BY <1>1, <1>3 DEF ScreenFits, SeqnoTold
<1>15. Reach' = Reach
  BY <1>3 DEF Reach
<1>16. MessageFits(m, Reach')
  BY <1>5, <1>8, <1>9, <1>15 DEF MessageFits
<1>17. \A r \in 1..Reach : InWork(r) => InWork(r)'
  BY <1>3 DEF InWork
<1> QED BY <1>3, <1>4, <1>8, <1>9, <1>10, <1>13, <1>14, <1>15, <1>16, <1>17, SendStep

----------------------------------------------------------------------------
(* The client's own steps.                                                 *)

\* A request is added to those that wait.
LEMMA RequestIs ==
    ASSUME Kinds, NEW t \in 0..MaxFetches, NEW rows \in SUBSET Row,
           rows # {} => t \in Instant
    PROVE  /\ Request(t, rows) \in SUBSET Fetch /\ IsFiniteSet(Request(t, rows))
           /\ asked \subseteq Request(t, rows)
           /\ rows # {} => \E f \in Request(t, rows) : f.at = t /\ f.rows = rows
           /\ \A f \in Request(t, rows) : f \in asked \/ (f.at = t /\ f.rows = rows)
<1>1. asked \in SUBSET Fetch /\ IsFiniteSet(asked)
  BY Parts DEF Kinds
<1>2. CASE rows = {}
  BY <1>1, <1>2 DEF Request
<1>3. CASE rows # {}
  <2>1. PICK f : f = [at |-> t, rows |-> rows]
    OBVIOUS
  <2>2. f \in Fetch /\ f.at = t /\ f.rows = rows
    BY <1>3, <2>1 DEF Fetch
  <2>3. Request(t, rows) = asked \cup {f}
    BY <1>3, <2>1 DEF Request
  <2>4. IsFiniteSet(asked \cup {f})
    BY <1>1, FS_AddElement
  <2> QED BY <1>1, <2>2, <2>3, <2>4
<1> QED BY <1>2, <1>3

\* A step of the client that takes no message: no line becomes current, and a row is
\* tagged only with a request for it that is new.
LEMMA ClientStep ==
    ASSUME IInv, UNCHANGED <<term, session, job, wire, overtaken>>, Kinds',
           NEW t \in 0..MaxFetches, NEW rows, rows \subseteq 1..Reach,
           rows # {} => \A i \in DOMAIN wire : wire[i].type # "delta" => wire[i].at # t,
           asked \subseteq asked',
           rows # {} => \E f \in asked' : f.at = t /\ f.rows = rows,
           \A f \in asked' : f \in asked \/ f.rows = rows,
           client'.top = client.top, client'.cursor = client.cursor,
           \A r \in Row :
              \/ client'.lines[r] = client.lines[r]
              \/ /\ client'.lines[r].kind # "Line" /\ r <= Reach
                 /\ \A u \in 0..MaxFetches : TaggedAt(client'.lines[r], u) => u = t /\ r \in rows
    PROVE  IInv'
<1>1. /\ TypeOK /\ ScreenFits /\ Known /\ NoOrphans /\ SeqnoTold
      /\ wire \in Seq(Delta \cup Answer)
  <2>1. TypeOK
    BY DEF IInv, Kinds
  <2> QED BY <2>1, Parts DEF IInv
<1>2. ScreenFits' /\ SeqnoTold'
  BY <1>1 DEF ScreenFits, SeqnoTold
<1>3. Reach' = Reach
  BY DEF Reach
<1>4. \A i \in DOMAIN wire : wire[i].type # "delta" => wire[i].at \in 0..MaxFetches
  <2>1. \A i \in DOMAIN wire : wire[i] \in Delta \cup Answer
    BY <1>1
  <2> QED BY <2>1, MessageIs, CacheAssumption DEF Instant
<1>5. Known'
  BY <1>1, <1>3 DEF Known
<1>6. NoOrphans'
  <2>1. ASSUME NEW r \in Row, NEW u \in 0..MaxFetches, TaggedAt(client'.lines[r], u)
        PROVE  Awaited(r, u)'
    <3>1. CASE client'.lines[r] = client.lines[r]
      <4>1. Awaited(r, u)
        BY <1>1, <2>1, <3>1 DEF NoOrphans, Tagged
      <4> QED BY <4>1 DEF Awaited
    <3>2. CASE u = t /\ r \in rows
      BY <3>2 DEF Awaited
    <3> QED BY <2>1, <3>1, <3>2
  <2> QED BY <2>1 DEF NoOrphans, Tagged
<1>7. ASSUME ~overtaken PROVE Replaced'
  <2>1. Replaced
    BY <1>7 DEF IInv
  <2>2. ASSUME NEW r, NEW i PROVE ToComeAfter(r, i)' <=> ToComeAfter(r, i)
    BY DEF ToComeAfter, InWork, OnItsWay
  <2>3. ASSUME NEW r \in Row, client'.lines[r].kind = "Line"
        PROVE  client'.lines[r].ver = term.ver[r] \/ ToComeAfter(r, 0)
    BY <2>1, <2>3 DEF Replaced
  <2>4. ASSUME NEW i \in DOMAIN wire, NEW r \in Row, wire[i].type # "delta",
               TaggedAt(client'.lines[r], wire[i].at)
        PROVE  client'.lines[r] = client.lines[r]
    BY <1>4, <2>4
  <2>5. ASSUME NEW i \in DOMAIN wire, NEW r \in Row
        PROVE  /\ wire[i].type = "lines" /\ r \in wire[i].rows
                    /\ TaggedAt(client'.lines[r], wire[i].at) =>
                    (wire[i].vers[r] = term.ver[r] \/ ToComeAfter(r, 0))
               /\ wire[i].type = "failed" /\ r \in wire[i].rows
                    /\ TaggedAt(client'.lines[r], wire[i].at)
                    /\ client'.lines[r].kind = "LineAndFetching" =>
                    (client'.lines[r].ver = term.ver[r] \/ ToComeAfter(r, 0))
               /\ wire[i].type = "delta" /\ r \in DOMAIN wire[i].bonus =>
                    (wire[i].bonus[r] = term.ver[r] \/ ToComeAfter(r, i))
    <3>1. wire[i].type # "delta" /\ TaggedAt(client'.lines[r], wire[i].at) =>
             client'.lines[r] = client.lines[r] /\ Tagged(r, wire[i].at)
      BY <2>4 DEF Tagged
    <3>2. wire[i].type \in {"lines", "failed"} => wire[i].type # "delta"
      OBVIOUS
    <3>3. wire[i].type = "delta" /\ r \in DOMAIN wire[i].bonus =>
             (wire[i].bonus[r] = term.ver[r] \/ ToComeAfter(r, i))
      BY <2>1 DEF Replaced
    <3>4. wire[i].type = "lines" /\ r \in wire[i].rows
             /\ TaggedAt(client'.lines[r], wire[i].at) =>
             (wire[i].vers[r] = term.ver[r] \/ ToComeAfter(r, 0))
      BY <2>1, <3>1, <3>2 DEF Replaced
    <3>5. wire[i].type = "failed" /\ r \in wire[i].rows
             /\ TaggedAt(client'.lines[r], wire[i].at)
             /\ client'.lines[r].kind = "LineAndFetching" =>
             (client'.lines[r].ver = term.ver[r] \/ ToComeAfter(r, 0))
      BY <2>1, <3>1, <3>2 DEF Replaced
    <3> QED BY <3>3, <3>4, <3>5
  <2> QED BY <2>2, <2>3, <2>5 DEF Replaced, Tagged
<1> QED BY <1>2, <1>5, <1>6, <1>7 DEF IInv

\* The same for a step that asks for nothing.
LEMMA QuietStep ==
    ASSUME IInv, UNCHANGED <<term, session, job, wire, asked, overtaken>>, Kinds',
           client'.top = client.top, client'.cursor = client.cursor,
           \A r \in Row :
              \/ client'.lines[r] = client.lines[r]
              \/ client'.lines[r].kind = "Stale" /\ r <= Reach
    PROVE  IInv'
<1>1. PICK rows : rows = {}
  OBVIOUS
<1>2. PICK t \in 0..MaxFetches : t = 0
  BY CacheAssumption
<1>3. /\ rows \subseteq 1..Reach /\ asked \subseteq asked' /\ asked' = asked
      /\ rows # {} => \A i \in DOMAIN wire : wire[i].type # "delta" => wire[i].at # t
      /\ rows # {} => \E f \in asked' : f.at = t /\ f.rows = rows
      /\ \A f \in asked' : f \in asked \/ f.rows = rows
  BY <1>1
<1>4. \A r \in Row :
         \/ client'.lines[r] = client.lines[r]
         \/ /\ client'.lines[r].kind # "Line" /\ r <= Reach
            /\ \A u \in 0..MaxFetches : TaggedAt(client'.lines[r], u) => u = t /\ r \in rows
  BY DEF TaggedAt
<1> QED BY <1>3, <1>4, ClientStep

\* Painting asks for rows of the screen, or above it.
LEMMA PaintInv ==
    ASSUME IInv, NEW first \in Row, NEW polls \in BOOLEAN, Paint(first, polls)
    PROVE  IInv'
<1> DEFINE rows == first..LastRow(first)
           missing == RowsMissing(client, rows)
<1>1. TypeOK /\ ScreenFits /\ Kinds /\ Known /\ client \in Client
  <2>1. TypeOK /\ ScreenFits /\ Kinds /\ Known
    BY DEF IInv, Kinds
  <2> QED BY <2>1, Parts
<1>2. /\ first \in 1..client.top /\ ClockRuns(missing)
      /\ client' = GetLines(client, rows, Now)
      /\ asked' = Request(Now, missing)
      /\ due' = [due EXCEPT !.push = @ \/ polls]
      /\ UNCHANGED <<term, session, job, connected, wire, typed, upsets, overtaken>>
  BY DEF Paint
<1>3. /\ Now \in 0..MaxFetches
      /\ missing # {} => /\ Now \in Instant
                         /\ \A i \in DOMAIN wire : wire[i].type # "delta" => wire[i].at # Now
  BY <1>2, NowIs
<1>4. rows \subseteq 1..Reach /\ 1..Reach \subseteq Row /\ Reach \in Nat
  <2>1. /\ Reach \in Row /\ Row = 1..Rows /\ Rows \in Nat /\ Row \subseteq Nat
        /\ \A n \in Nat : LastRow(n) = n + Screen - 1
        /\ Screen \in Nat
    BY <1>1, ReachIs
  <2>2. client.top \in Nat /\ LastRow(client.top) <= Reach /\ first \in Nat
    BY <1>1, <2>1, Parts DEF Known
  <2> QED BY <1>2, <2>1, <2>2
<1> HIDE DEF rows
<1>5. PICK t : t = Now
  OBVIOUS
<1>6. client' = GetLines(client, rows, t) /\ t \in 0..MaxFetches
  BY <1>2, <1>3, <1>5
<1>7. /\ client' \in Client /\ client'.top = client.top /\ client'.cursor = client.cursor
      /\ missing \subseteq rows
      /\ \A r \in Row :
           \/ client'.lines[r] = client.lines[r]
           \/ /\ r \in missing /\ client'.lines[r].kind # "Line"
              /\ \A u \in 0..MaxFetches : TaggedAt(client'.lines[r], u) => u = t
  BY <1>1, <1>6, GetIs
<1>8. missing \in SUBSET Row
  BY <1>4, <1>7
<1> HIDE DEF missing
<1>9. /\ asked' \in SUBSET Fetch /\ IsFiniteSet(asked') /\ asked \subseteq asked'
      /\ missing # {} => \E f \in asked' : f.at = t /\ f.rows = missing
      /\ \A f \in asked' : f \in asked \/ (f.at = t /\ f.rows = missing)
  <2>1. asked' = Request(t, missing)
    BY <1>2, <1>5
  <2> QED BY <1>1, <1>3, <1>5, <1>6, <1>8, <2>1, RequestIs
<1>10. TypeOK'
  <2>1. due' \in [push : BOOLEAN, keys : Seq(1..MaxUpsets)]
    BY <1>1, <1>2 DEF TypeOK
  <2> QED BY <1>1, <1>2, <1>7, <1>9, <2>1 DEF TypeOK, Client
<1>11. Kinds'
  BY <1>1, <1>2, <1>9, <1>10 DEF Kinds
<1>12. \A r \in Row :
          \/ client'.lines[r] = client.lines[r]
          \/ /\ client'.lines[r].kind # "Line" /\ r <= Reach
             /\ \A u \in 0..MaxFetches : TaggedAt(client'.lines[r], u) => u = t /\ r \in missing
  <2>1. \A r \in missing : r <= Reach
    <3>1. missing \subseteq 1..Reach /\ \A r \in 1..Reach : r <= Reach
      BY <1>4, <1>7
    <3> QED BY <3>1
  <2> QED BY <1>7, <2>1
<1>13. missing \subseteq 1..Reach
  BY <1>4, <1>7
<1> QED BY <1>2, <1>3, <1>5, <1>6, <1>7, <1>9, <1>11, <1>12, <1>13, ClientStep

\* All lines become stale.
LEMMA InvalidateInv ==
    ASSUME IInv, Invalidate
    PROVE  IInv'
<1>1. TypeOK /\ ScreenFits /\ Kinds /\ Known /\ client \in Client
  <2>1. TypeOK /\ ScreenFits /\ Kinds /\ Known
    BY DEF IInv, Kinds
  <2> QED BY <2>1, Parts
<1> DEFINE new == MakeAllStale(client.lines)
<1>2. /\ client' = [client EXCEPT !.lines = new]
      /\ UNCHANGED <<term, session, job, due, connected, wire, asked, typed, upsets, overtaken>>
  BY DEF Invalidate
<1>3. ASSUME NEW r \in Row
      PROVE  /\ new[r] \in LineEntry
             /\ \/ new[r] = client.lines[r]
                \/ new[r].kind = "Stale" /\ client.lines[r].kind = "Line"
  <2>1. client.lines[r] \in LineEntry /\ 0 \in 0..MaxFetches
    BY <1>1, CacheAssumption DEF Client
  <2>2. new[r] = IF client.lines[r].kind = "Line" THEN Holding("Stale", client.lines[r], 0)
                 ELSE client.lines[r]
    BY DEF MakeAllStale
  <2> HIDE DEF new
  <2>3. /\ Holding("Stale", client.lines[r], 0) \in LineEntry
        /\ Holding("Stale", client.lines[r], 0).kind = "Stale"
    BY <2>1, EntryIs
  <2> QED BY <2>1, <2>2, <2>3
<1>4. new \in [Row -> LineEntry]
  <2>1. new = [r \in Row |-> new[r]]
    BY DEF MakeAllStale
  <2> HIDE DEF new
  <2> QED BY <1>3, <2>1
<1> HIDE DEF new
<1>5. /\ client' \in Client /\ client'.lines = new /\ client'.top = client.top
      /\ client'.cursor = client.cursor
  BY <1>1, <1>2, <1>4 DEF Client
<1>6. TypeOK'
  BY <1>1, <1>2, <1>5 DEF TypeOK, Client
<1>7. Kinds'
  BY <1>1, <1>2, <1>6 DEF Kinds
<1>8. ASSUME NEW r \in Row, client'.lines[r] # client.lines[r]
      PROVE  client'.lines[r].kind = "Stale" /\ r <= Reach
  <2>1. client'.lines[r].kind = "Stale" /\ client.lines[r].kind = "Line"
    BY <1>3, <1>5, <1>8
  <2> QED BY <1>1, <2>1 DEF Known
<1> QED BY <1>2, <1>5, <1>7, <1>8, QuietStep

\* A key, of which nothing is predicted.
LEMMA TypeInv ==
    ASSUME IInv, ~LocalEcho, NEW key \in {"none", "char", "up", "down"}, Type(key)
    PROVE  IInv'
<1>1. TypeOK /\ ScreenFits /\ Kinds /\ Known /\ client \in Client
  <2>1. TypeOK /\ ScreenFits /\ Kinds /\ Known
    BY DEF IInv, Kinds
  <2> QED BY <2>1, Parts
<1>2. /\ upsets < MaxUpsets /\ upsets' = upsets + 1 /\ typed' = typed + 1
      /\ client' = [client EXCEPT !.serial = typed + 1]
      /\ due' = [due EXCEPT !.keys = Append(@, typed + 1)]
      /\ UNCHANGED <<term, session, job, connected, wire, asked, overtaken>>
  BY DEF Type
<1>3. /\ upsets \in Nat /\ typed \in Nat /\ typed <= upsets /\ MaxUpsets \in Nat
      /\ due.keys \in Seq(1..MaxUpsets)
  BY <1>1, Parts, RemoteAssumption DEF Kinds
<1>4. typed + 1 \in 1..MaxUpsets /\ upsets + 1 \in 0..MaxUpsets /\ typed' <= upsets'
  BY <1>2, <1>3
<1>5. /\ client' \in Client /\ client'.lines = client.lines /\ client'.top = client.top
      /\ client'.cursor = client.cursor
  <2>1. typed + 1 \in 0..MaxUpsets
    BY <1>4
  <2> QED BY <1>1, <1>2, <2>1 DEF Client
<1>6. TypeOK'
  <2>1. Append(due.keys, typed + 1) \in Seq(1..MaxUpsets)
    BY <1>3, <1>4, AppendIs
  <2>2. due' \in [push : BOOLEAN, keys : Seq(1..MaxUpsets)]
    BY <1>1, <1>2, <2>1 DEF TypeOK
  <2>3. typed' \in 0..MaxUpsets
    BY <1>2, <1>4
  <2> QED BY <1>1, <1>2, <1>4, <1>5, <2>2, <2>3 DEF TypeOK, Client
<1>7. Kinds'
  BY <1>1, <1>2, <1>4, <1>6 DEF Kinds
<1> QED BY <1>2, <1>5, <1>7, QuietStep

----------------------------------------------------------------------------
(* Messages applied.                                                       *)

\* A message is taken: the others stay, in their order.
LEMMA Taken ==
    ASSUME TypeOK, NEW i \in DOMAIN wire, wire' = RemoveAt(wire, i)
    PROVE  /\ wire' \in Seq(Delta \cup Answer) /\ wire[i] \in Delta \cup Answer
           /\ \A q \in DOMAIN wire' :
                 /\ Place(i, q) \in DOMAIN wire /\ Place(i, q) # i /\ q \in Nat /\ q > 0
                 /\ wire'[q] = wire[Place(i, q)]
           /\ \A p \in DOMAIN wire : p # i =>
                 \E q \in DOMAIN wire' : Place(i, q) = p /\ wire'[q] = wire[p]
           /\ \A q, s \in DOMAIN wire' : Place(i, s) > Place(i, q) => s > q
<1>1. wire \in Seq(Delta \cup Answer)
  BY Parts
<1>2. /\ wire' \in Seq(Delta \cup Answer) /\ DOMAIN wire' = 1..(Len(wire) - 1)
      /\ \A q \in DOMAIN wire' : Place(i, q) \in DOMAIN wire /\ wire'[q] = wire[Place(i, q)]
      /\ \A p \in DOMAIN wire : p # i =>
            \E q \in DOMAIN wire' : Place(i, q) = p /\ wire'[q] = wire[p]
  BY <1>1, RemoveAtIs
<1>3. i \in Nat /\ Len(wire) \in Nat /\ DOMAIN wire = 1..Len(wire) /\ wire[i] \in Delta \cup Answer
  BY <1>1
<1>4. \A q \in DOMAIN wire' : Place(i, q) # i /\ q \in Nat /\ q > 0
  BY <1>2, <1>3 DEF Place
<1>5. \A q, s \in DOMAIN wire' : Place(i, s) > Place(i, q) => s > q
  BY <1>2, <1>3 DEF Place
<1> QED BY <1>2, <1>3, <1>4, <1>5

\* What is still to come stays so, if the message taken is not what brings it.
LEMMA TakenToCome ==
    ASSUME TypeOK, NEW i \in DOMAIN wire, wire' = RemoveAt(wire, i),
           UNCHANGED <<term, session, job>>,
           NEW r, NEW p \in Nat, NEW q \in Nat,
           q = 0 \/ (q \in DOMAIN wire' /\ p = Place(i, q)),
           ToComeAfter(r, p),
           p >= i \/ wire[i].type # "delta" \/ ~Brings(wire[i], r, term.ver[r])
    PROVE  ToComeAfter(r, q)'
<1>1. CASE InWork(r)
  BY <1>1 DEF ToComeAfter, InWork
<1>2. CASE OnItsWay(r, p)
  <2>1. PICK k \in DOMAIN wire : k > p /\ wire[k].type = "delta" /\ Brings(wire[k], r, term.ver[r])
    BY <1>2 DEF OnItsWay
  <2>2. k # i
    <3>1. wire \in Seq(Delta \cup Answer)
      BY Parts
    <3>2. i \in Nat /\ k \in Nat
      BY <3>1
    <3> QED BY <2>1, <3>2
  <2>3. PICK s \in DOMAIN wire' : Place(i, s) = k /\ wire'[s] = wire[k]
    BY <2>2, Taken
  <2>4. s > q
    <3>1. CASE q = 0
      BY <3>1, Taken
    <3>2. CASE q \in DOMAIN wire' /\ p = Place(i, q)
      BY <2>1, <2>3, <3>2, Taken
    <3> QED BY <3>1, <3>2
  <2>5. wire'[s].type = "delta" /\ Brings(wire'[s], r, term'.ver[r])
    BY <2>1, <2>3
  <2> QED BY <2>4, <2>5 DEF ToComeAfter, OnItsWay
<1> QED BY <1>1, <1>2 DEF ToComeAfter

\* What both kinds of messages need: the messages left still fit.
LEMMA TakenFits ==
    ASSUME TypeOK, NEW i \in DOMAIN wire, wire' = RemoveAt(wire, i), Reach' = Reach, Known
    PROVE  \A q \in DOMAIN wire' : MessageFits(wire'[q], Reach')
<1>1. \A q \in DOMAIN wire' : Place(i, q) \in DOMAIN wire /\ wire'[q] = wire[Place(i, q)]
  BY Taken
<1> QED BY <1>1 DEF Known

\* A delta is applied.  The rows that it speaks of take its lines or lose theirs, and
\* with them the tags of earlier fetches.
LEMMA TakeDeltaInv ==
    ASSUME IInv, NEW i \in DOMAIN wire, NEW admitted \in BOOLEAN, TakeDelta(i, admitted)
    PROVE  IInv'
<1>1. TypeOK /\ ScreenFits /\ Kinds /\ Known /\ NoOrphans /\ SeqnoTold /\ client \in Client
  <2>1. TypeOK /\ ScreenFits /\ Kinds /\ Known /\ NoOrphans /\ SeqnoTold
    BY DEF IInv, Kinds
  <2> QED BY <2>1, Parts
<1>2. PICK m : m = wire[i]
  OBVIOUS
<1>3. PICK t : t = Now
  OBVIOUS
<1> DEFINE rows == RowsToFetch(client, m)
           about == m.dirty \cup {m.cursor, client.cursor}
<1>4. /\ m.type = "delta" /\ (admitted => ClockRuns(rows))
      /\ client' = ApplyChanges(client, m, t, admitted)
      /\ asked' = IF admitted THEN Request(t, rows) ELSE asked
      /\ wire' = RemoveAt(wire, i)
      /\ overtaken' = (overtaken \/ \E j \in 1..(i - 1) : wire[j].type = "delta")
      /\ UNCHANGED <<term, session, job, due, connected, typed, upsets>>
  BY <1>2, <1>3 DEF TakeDelta
<1>5. m \in Delta
  <2>1. m \in Delta \cup Answer
    BY <1>1, <1>2, <1>4, Taken
  <2> QED BY <1>4, <2>1, MessageIs
<1>6. /\ t \in 0..MaxFetches
      /\ admitted /\ rows # {} => /\ t \in Instant
                                 /\ \A k \in DOMAIN wire : wire[k].type # "delta" => wire[k].at # t
  <2>1. CASE admitted
    <3>1. ClockRuns(rows)
      BY <1>4, <2>1
    <3> HIDE DEF rows
    <3> QED BY <1>3, <3>1, NowIs
  <2>2. CASE ~admitted
    <3>1. ClockRuns({})
      BY DEF ClockRuns
    <3> QED BY <1>3, <2>2, <3>1, NowIs
  <2> QED BY <2>1, <2>2
<1>7. /\ client' \in Client
      /\ client'.top = m.top /\ client'.cursor \in {m.cursor, client.cursor}
      /\ rows \subseteq about \cap Row
      /\ \A r \in Row :
           \/ r \in DOMAIN m.bonus /\ client'.lines[r].kind = "Line"
              /\ client'.lines[r].ver = m.bonus[r]
           \/ /\ r \in about /\ client'.lines[r].kind # "Line"
              /\ \A u \in 0..MaxFetches : TaggedAt(client'.lines[r], u) =>
                    u = t /\ admitted /\ r \in rows
           \/ r \notin DOMAIN m.bonus /\ r \notin m.dirty /\ client'.lines[r] = client.lines[r]
  BY <1>1, <1>4, <1>5, <1>6, ApplyIs
<1>8. Reach' = Reach /\ Reach \in Nat
  BY <1>1, <1>4, ReachIs DEF Reach
<1>9. /\ LastRow(m.top) <= Reach /\ m.cursor <= Reach /\ client.cursor <= Reach
      /\ m.dirty \cup DOMAIN m.bonus \subseteq 1..Reach /\ about \cap Row \subseteq 1..Reach
      /\ \A r \in about : r <= Reach
  <2>1. /\ LastRow(m.top) <= Reach /\ m.cursor <= Reach /\ client.cursor <= Reach
        /\ m.dirty \cup DOMAIN m.bonus \subseteq 1..Reach
    BY <1>1, <1>2, <1>4 DEF Known, MessageFits
  <2>2. \A r \in about : r <= Reach
    BY <1>8, <2>1
  <2>3. \A r \in about \cap Row : r \in 1..Reach
    BY <1>1, <1>8, <2>2, ReachIs
  <2> QED BY <2>1, <2>2, <2>3
<1> HIDE DEF rows, about
<1>10. /\ asked' \in SUBSET Fetch /\ IsFiniteSet(asked') /\ asked \subseteq asked'
       /\ admitted /\ rows # {} => \E f \in asked' : f.at = t /\ f.rows = rows
       /\ \A f \in asked' : f \in asked \/ f.rows = rows
  <2>1. CASE admitted
    <3>1. rows \in SUBSET Row /\ asked' = Request(t, rows)
      BY <1>4, <1>7, <2>1
    <3> QED BY <1>1, <1>6, <2>1, <3>1, RequestIs
  <2>2. CASE ~admitted
    BY <1>1, <1>4, <2>2, Parts DEF Kinds
  <2> QED BY <2>1, <2>2
<1>11. TypeOK'
  <2>1. wire' \in Seq(Delta \cup Answer) /\ overtaken \in BOOLEAN
    BY <1>1, <1>4, Taken, Parts
  <2> QED BY <1>1, <1>4, <1>7, <1>10, <2>1 DEF TypeOK, Client
<1>12. Kinds'
  BY <1>1, <1>4, <1>10, <1>11 DEF Kinds
<1>13. ScreenFits' /\ SeqnoTold'
  BY <1>1, <1>4 DEF ScreenFits, SeqnoTold
<1>14. Known'
  <2>1. LastRow(client'.top) <= Reach' /\ client'.cursor <= Reach'
    BY <1>7, <1>8, <1>9
  <2>2. ASSUME NEW r \in Row, client'.lines[r].kind # "Absent" PROVE r <= Reach'
    <3>1. CASE r \in DOMAIN m.bonus
      <4>1. r \in 1..Reach
        BY <1>9, <3>1
      <4> QED BY <1>8, <4>1
    <3>2. CASE r \in about
      BY <1>8, <1>9, <3>2
    <3>3. CASE client'.lines[r] = client.lines[r]
      BY <1>1, <1>8, <2>2, <3>3 DEF Known
    <3> QED BY <1>7, <3>1, <3>2, <3>3
  <2>3. \A f \in asked' : f.rows \subseteq 1..Reach'
    <3>1. rows \subseteq 1..Reach
      BY <1>7, <1>9
    <3> QED BY <1>1, <1>8, <1>10, <3>1 DEF Known
  <2>4. \A q \in DOMAIN wire' : MessageFits(wire'[q], Reach')
    BY <1>1, <1>4, <1>8, TakenFits
  <2> QED BY <2>1, <2>2, <2>3, <2>4 DEF Known
<1>15. NoOrphans'
  <2>1. ASSUME NEW r \in Row, NEW u \in 0..MaxFetches, TaggedAt(client'.lines[r], u)
        PROVE  Awaited(r, u)'
    <3>1. CASE client'.lines[r] = client.lines[r]
      <4>1. Awaited(r, u)
        BY <1>1, <2>1, <3>1 DEF NoOrphans, Tagged
      <4>2. CASE \E f \in asked : f.at = u /\ r \in f.rows
        BY <1>10, <4>2 DEF Awaited
      <4>3. CASE \E k \in DOMAIN wire : wire[k].type # "delta" /\ wire[k].at = u
                                        /\ r \in wire[k].rows
        <5>1. PICK k \in DOMAIN wire : wire[k].type # "delta" /\ wire[k].at = u
                                       /\ r \in wire[k].rows
          BY <4>3
        <5>2. k # i
          BY <1>2, <1>4, <5>1
        <5>3. PICK q \in DOMAIN wire' : wire'[q] = wire[k]
          BY <1>1, <1>4, <5>2, Taken
        <5> QED BY <5>1, <5>3 DEF Awaited
      <4> QED BY <4>1, <4>2, <4>3 DEF Awaited
    <3>2. CASE u = t /\ admitted /\ r \in rows
      BY <1>10, <3>2 DEF Awaited
    <3>3. CASE client'.lines[r].kind = "Line"
      BY <2>1, <3>3 DEF TaggedAt
    <3> QED BY <1>7, <2>1, <3>1, <3>2, <3>3
  <2> QED BY <2>1 DEF NoOrphans, Tagged
<1>16. ASSUME ~overtaken' PROVE Replaced'
  <2>1. Replaced /\ \A j \in 1..(i - 1) : wire[j].type # "delta"
    BY <1>4, <1>16 DEF IInv
  <2>2. i \in Nat /\ \A k \in DOMAIN wire : k \in Nat /\ k > 0
    <3>1. wire \in Seq(Delta \cup Answer)
      BY <1>1, Parts
    <3> QED BY <3>1
  <2>3. ASSUME NEW r, r \notin DOMAIN m.bonus, r \notin m.dirty, ToComeAfter(r, 0)
        PROVE  ToComeAfter(r, 0)'
    <3>1. ~Brings(wire[i], r, term.ver[r])
      BY <1>2, <2>3 DEF Brings
    <3> QED BY <1>1, <1>4, <2>3, <3>1, TakenToCome
  <2>4. ASSUME NEW r \in Row, client'.lines[r].kind = "Line"
        PROVE  client'.lines[r].ver = term.ver[r] \/ ToComeAfter(r, 0)'
    <3>1. CASE r \in DOMAIN m.bonus /\ client'.lines[r].ver = m.bonus[r]
      <4>1. m.bonus[r] = term.ver[r] \/ ToComeAfter(r, i)
        BY <1>2, <1>4, <2>1, <3>1 DEF Replaced
      <4>2. ToComeAfter(r, i) => ToComeAfter(r, 0)'
        BY <1>1, <1>4, <2>2, TakenToCome
      <4> QED BY <3>1, <4>1, <4>2
    <3>2. CASE r \notin DOMAIN m.bonus /\ r \notin m.dirty /\ client'.lines[r] = client.lines[r]
      <4>1. client.lines[r].ver = term.ver[r] \/ ToComeAfter(r, 0)
        BY <2>1, <2>4, <3>2 DEF Replaced
      <4> QED BY <2>3, <3>2, <4>1
    <3> QED BY <1>7, <2>4, <3>1, <3>2
  <2>5. ASSUME NEW q \in DOMAIN wire', NEW r \in Row
        PROVE  /\ wire'[q].type = "lines" /\ r \in wire'[q].rows
                    /\ TaggedAt(client'.lines[r], wire'[q].at) =>
                    (wire'[q].vers[r] = term.ver[r] \/ ToComeAfter(r, 0)')
               /\ wire'[q].type = "failed" /\ r \in wire'[q].rows
                    /\ TaggedAt(client'.lines[r], wire'[q].at)
                    /\ client'.lines[r].kind = "LineAndFetching" =>
                    (client'.lines[r].ver = term.ver[r] \/ ToComeAfter(r, 0)')
               /\ wire'[q].type = "delta" /\ r \in DOMAIN wire'[q].bonus =>
                    (wire'[q].bonus[r] = term.ver[r] \/ ToComeAfter(r, q)')
    <3>1. PICK p : p = Place(i, q)
      OBVIOUS
    <3>2. p \in DOMAIN wire /\ p # i /\ wire'[q] = wire[p] /\ q \in Nat /\ p \in Nat /\ p > 0
      BY <1>1, <1>4, <2>2, <3>1, Taken
    <3>3. ASSUME wire[p].type # "delta", TaggedAt(client'.lines[r], wire[p].at)
          PROVE  client'.lines[r] = client.lines[r] /\ r \notin DOMAIN m.bonus /\ r \notin m.dirty
      <4>1. wire[p].at \in 0..MaxFetches
        <5>1. wire[p] \in Delta \cup Answer
          BY <1>1, <3>2, Parts
        <5> QED BY <3>3, <5>1, MessageIs, CacheAssumption DEF Instant
      <4>2. client'.lines[r].kind # "Line"
        BY <3>3 DEF TaggedAt
      <4>3. ~(wire[p].at = t /\ admitted /\ r \in rows)
        BY <1>6, <3>2, <3>3
      <4> QED BY <1>7, <3>3, <4>1, <4>2, <4>3
    <3>4. ASSUME wire[p].type = "lines", r \in wire[p].rows,
                 TaggedAt(client'.lines[r], wire[p].at)
          PROVE  wire[p].vers[r] = term.ver[r] \/ ToComeAfter(r, 0)'
      <4>1. client'.lines[r] = client.lines[r] /\ r \notin DOMAIN m.bonus /\ r \notin m.dirty
        BY <3>3, <3>4
      <4>2. wire[p].vers[r] = term.ver[r] \/ ToComeAfter(r, 0)
        BY <2>1, <3>2, <3>4, <4>1 DEF Replaced, Tagged
      <4> QED BY <2>3, <4>1, <4>2
    <3>5. ASSUME wire[p].type = "failed", r \in wire[p].rows,
                 TaggedAt(client'.lines[r], wire[p].at),
                 client'.lines[r].kind = "LineAndFetching"
          PROVE  client'.lines[r].ver = term.ver[r] \/ ToComeAfter(r, 0)'
      <4>1. client'.lines[r] = client.lines[r] /\ r \notin DOMAIN m.bonus /\ r \notin m.dirty
        BY <3>3, <3>5
      <4>2. client.lines[r].ver = term.ver[r] \/ ToComeAfter(r, 0)
        BY <2>1, <3>2, <3>5, <4>1 DEF Replaced, Tagged
      <4> QED BY <2>3, <4>1, <4>2
    <3>6. ASSUME wire[p].type = "delta", r \in DOMAIN wire[p].bonus
          PROVE  wire[p].bonus[r] = term.ver[r] \/ ToComeAfter(r, q)'
      <4>1. wire[p].bonus[r] = term.ver[r] \/ ToComeAfter(r, p)
        BY <2>1, <3>2, <3>6 DEF Replaced
      <4>2. p >= i
        BY <2>1, <2>2, <3>2, <3>6
      <4>3. ToComeAfter(r, p) => ToComeAfter(r, q)'
        BY <1>1, <1>4, <3>1, <3>2, <4>2, TakenToCome
      <4> QED BY <4>1, <4>3
    <3> QED BY <3>2, <3>4, <3>5, <3>6
  <2> QED BY <1>4, <2>4, <2>5 DEF Replaced, Tagged
<1> QED BY <1>12, <1>13, <1>14, <1>15, <1>16 DEF IInv

\* An answer or a failure is applied, to the rows that are tagged with its fetch.
LEMMA TakeAnswerInv ==
    ASSUME IInv, NEW i \in DOMAIN wire, TakeAnswer(i)
    PROVE  IInv'
<1>1. TypeOK /\ ScreenFits /\ Kinds /\ Known /\ NoOrphans /\ SeqnoTold /\ client \in Client
  <2>1. TypeOK /\ ScreenFits /\ Kinds /\ Known /\ NoOrphans /\ SeqnoTold
    BY DEF IInv, Kinds
  <2> QED BY <2>1, Parts
<1>2. PICK m : m = wire[i]
  OBVIOUS
<1>3. /\ m.type # "delta" /\ wire' = RemoveAt(wire, i)
      /\ client' = IF m.type = "lines" THEN PutFetched(client, m.at, m.vers)
                   ELSE FailFetch(client, m.at, m.rows)
      /\ UNCHANGED <<term, session, job, due, connected, asked, typed, upsets, overtaken>>
  BY <1>2 DEF TakeAnswer
<1>4. /\ m.at \in Instant /\ m.rows \subseteq Row /\ m.type \in {"lines", "failed"}
      /\ m.type = "lines" => DOMAIN m.vers \subseteq Row
                             /\ \A r \in DOMAIN m.vers : m.vers[r] \in 1..MaxSeq
  <2>1. m \in Delta \cup Answer
    BY <1>1, <1>2, <1>3, Taken
  <2> QED BY <1>3, <2>1, MessageIs
<1>5. m.rows \subseteq 1..Reach /\ (m.type = "lines" => DOMAIN m.vers = m.rows)
  BY <1>1, <1>2, <1>3 DEF Known, MessageFits
<1>6. /\ client' \in Client /\ client'.top = client.top /\ client'.cursor = client.cursor
      /\ \A r \in Row :
           \/ /\ r \in m.rows /\ Tagged(r, m.at)
              /\ \/ client'.lines[r].kind = "Absent"
                 \/ /\ client'.lines[r].kind = "Line"
                    /\ \/ m.type = "lines" /\ client'.lines[r].ver = m.vers[r]
                       \/ /\ m.type = "failed" /\ client.lines[r].kind = "LineAndFetching"
                          /\ client'.lines[r].ver = client.lines[r].ver
           \/ ~(r \in m.rows /\ Tagged(r, m.at)) /\ client'.lines[r] = client.lines[r]
  <2>1. CASE m.type = "lines"
    <3>1. client' = PutFetched(client, m.at, m.vers) /\ DOMAIN m.vers = m.rows
      BY <1>3, <1>5, <2>1
    <3>2. PICK v : v = m.vers
      OBVIOUS
    <3>3. /\ client' = PutFetched(client, m.at, v) /\ DOMAIN v \subseteq Row
          /\ \A r \in DOMAIN v : v[r] \in 1..MaxSeq
      BY <1>4, <2>1, <3>1, <3>2
    <3>4. /\ client' \in Client /\ client'.top = client.top /\ client'.cursor = client.cursor
          /\ \A r \in Row :
               \/ /\ r \in DOMAIN v /\ TaggedAt(client.lines[r], m.at)
                  /\ client'.lines[r].kind = "Line" /\ client'.lines[r].ver = v[r]
               \/ /\ r \notin DOMAIN v \/ ~TaggedAt(client.lines[r], m.at)
                  /\ client'.lines[r] = client.lines[r]
      BY <1>1, <1>4, <3>3, PutIs
    <3> QED BY <2>1, <3>1, <3>2, <3>4 DEF Tagged
  <2>2. CASE m.type = "failed"
    <3>1. client' = FailFetch(client, m.at, m.rows)
      BY <1>3, <2>2
    <3>2. /\ client' \in Client /\ client'.top = client.top /\ client'.cursor = client.cursor
          /\ \A r \in Row :
               \/ /\ r \in m.rows /\ TaggedAt(client.lines[r], m.at)
                  /\ \/ client'.lines[r].kind = "Absent"
                     \/ /\ client.lines[r].kind = "LineAndFetching"
                        /\ client'.lines[r].kind = "Line"
                        /\ client'.lines[r].ver = client.lines[r].ver
               \/ /\ r \notin m.rows \/ ~TaggedAt(client.lines[r], m.at)
                  /\ client'.lines[r] = client.lines[r]
      BY <1>1, <1>4, <3>1, FailIs
    <3> QED BY <2>2, <3>2 DEF Tagged
  <2> QED BY <1>4, <2>1, <2>2
<1>7. Reach' = Reach /\ Reach \in Nat
  BY <1>1, <1>3, ReachIs DEF Reach
<1>8. TypeOK'
  <2>1. wire' \in Seq(Delta \cup Answer)
    BY <1>1, <1>3, Taken
  <2> QED BY <1>1, <1>3, <1>6, <2>1 DEF TypeOK, Client
<1>9. Kinds'
  BY <1>1, <1>3, <1>8 DEF Kinds
<1>10. ScreenFits' /\ SeqnoTold'
  BY <1>1, <1>3 DEF ScreenFits, SeqnoTold
<1>11. Known'
  <2>1. LastRow(client'.top) <= Reach' /\ client'.cursor <= Reach'
    BY <1>1, <1>6, <1>7 DEF Known
  <2>2. ASSUME NEW r \in Row, client'.lines[r].kind # "Absent" PROVE r <= Reach'
    <3>1. CASE r \in m.rows
      <4>1. r \in 1..Reach
        BY <1>5, <3>1
      <4> QED BY <1>7, <4>1
    <3>2. CASE client'.lines[r] = client.lines[r]
      BY <1>1, <1>7, <2>2, <3>2 DEF Known
    <3> QED BY <1>6, <3>1, <3>2
  <2>3. \A f \in asked' : f.rows \subseteq 1..Reach'
    BY <1>1, <1>3, <1>7 DEF Known
  <2>4. \A q \in DOMAIN wire' : MessageFits(wire'[q], Reach')
    BY <1>1, <1>3, <1>7, TakenFits
  <2> QED BY <2>1, <2>2, <2>3, <2>4 DEF Known
<1>12. ASSUME NEW r \in Row, NEW u, TaggedAt(client'.lines[r], u)
       PROVE  ~(r \in m.rows /\ Tagged(r, m.at)) /\ client'.lines[r] = client.lines[r]
  <2>1. client'.lines[r].kind \notin {"Line", "Absent"}
    BY <1>12 DEF TaggedAt
  <2> QED BY <1>6, <2>1
<1>13. NoOrphans'
  <2>1. ASSUME NEW r \in Row, NEW u \in 0..MaxFetches, TaggedAt(client'.lines[r], u)
        PROVE  Awaited(r, u)'
    <3>1. ~(r \in m.rows /\ Tagged(r, m.at)) /\ client'.lines[r] = client.lines[r]
      BY <1>12, <2>1
    <3>2. Awaited(r, u) /\ Tagged(r, u)
      BY <1>1, <2>1, <3>1 DEF NoOrphans, Tagged
    <3>3. CASE \E f \in asked : f.at = u /\ r \in f.rows
      BY <1>3, <3>3 DEF Awaited
    <3>4. CASE \E k \in DOMAIN wire : wire[k].type # "delta" /\ wire[k].at = u
                                      /\ r \in wire[k].rows
      <4>1. PICK k \in DOMAIN wire : wire[k].type # "delta" /\ wire[k].at = u
                                     /\ r \in wire[k].rows
        BY <3>4
      <4>2. k # i
        BY <1>2, <3>1, <3>2, <4>1
      <4>3. PICK q \in DOMAIN wire' : wire'[q] = wire[k]
        BY <1>1, <1>3, <4>2, Taken
      <4> QED BY <4>1, <4>3 DEF Awaited
    <3> QED BY <3>2, <3>3, <3>4 DEF Awaited
  <2> QED BY <2>1 DEF NoOrphans, Tagged
<1>14. ASSUME ~overtaken' PROVE Replaced'
  <2>1. Replaced
    BY <1>3, <1>14 DEF IInv
  <2>2. \A k \in DOMAIN wire : k \in Nat /\ k > 0
    <3>1. wire \in Seq(Delta \cup Answer)
      BY <1>1, Parts
    <3> QED BY <3>1
  <2>3. ASSUME NEW r, ToComeAfter(r, 0) PROVE ToComeAfter(r, 0)'
    BY <1>1, <1>2, <1>3, <2>3, TakenToCome
  <2>4. ASSUME NEW r \in Row, client'.lines[r].kind = "Line"
        PROVE  client'.lines[r].ver = term.ver[r] \/ ToComeAfter(r, 0)'
    <3>1. CASE r \in m.rows /\ Tagged(r, m.at) /\ m.type = "lines"
               /\ client'.lines[r].ver = m.vers[r]
      <4>1. m.vers[r] = term.ver[r] \/ ToComeAfter(r, 0)
        BY <1>2, <2>1, <3>1 DEF Replaced
      <4> QED BY <2>3, <3>1, <4>1
    <3>2. CASE r \in m.rows /\ Tagged(r, m.at) /\ m.type = "failed"
               /\ client.lines[r].kind = "LineAndFetching"
               /\ client'.lines[r].ver = client.lines[r].ver
      <4>1. client.lines[r].ver = term.ver[r] \/ ToComeAfter(r, 0)
        BY <1>2, <2>1, <3>2 DEF Replaced
      <4> QED BY <2>3, <3>2, <4>1
    <3>3. CASE client'.lines[r] = client.lines[r]
      <4>1. client.lines[r].ver = term.ver[r] \/ ToComeAfter(r, 0)
        BY <2>1, <2>4, <3>3 DEF Replaced
      <4> QED BY <2>3, <3>3, <4>1
    <3> QED BY <1>6, <2>4, <3>1, <3>2, <3>3
  <2>5. ASSUME NEW q \in DOMAIN wire', NEW r \in Row
        PROVE  /\ wire'[q].type = "lines" /\ r \in wire'[q].rows
                    /\ TaggedAt(client'.lines[r], wire'[q].at) =>
                    (wire'[q].vers[r] = term.ver[r] \/ ToComeAfter(r, 0)')
               /\ wire'[q].type = "failed" /\ r \in wire'[q].rows
                    /\ TaggedAt(client'.lines[r], wire'[q].at)
                    /\ client'.lines[r].kind = "LineAndFetching" =>
                    (client'.lines[r].ver = term.ver[r] \/ ToComeAfter(r, 0)')
               /\ wire'[q].type = "delta" /\ r \in DOMAIN wire'[q].bonus =>
                    (wire'[q].bonus[r] = term.ver[r] \/ ToComeAfter(r, q)')
    <3>1. PICK p : p = Place(i, q)
      OBVIOUS
    <3>2. p \in DOMAIN wire /\ wire'[q] = wire[p] /\ q \in Nat /\ p \in Nat
      BY <1>1, <1>3, <2>2, <3>1, Taken
    <3>3. ASSUME TaggedAt(client'.lines[r], wire[p].at)
          PROVE  client'.lines[r] = client.lines[r] /\ Tagged(r, wire[p].at)
      BY <1>12, <3>3 DEF Tagged
    <3>4. ASSUME wire[p].type = "lines", r \in wire[p].rows,
                 TaggedAt(client'.lines[r], wire[p].at)
          PROVE  wire[p].vers[r] = term.ver[r] \/ ToComeAfter(r, 0)'
      <4>1. wire[p].vers[r] = term.ver[r] \/ ToComeAfter(r, 0)
        BY <2>1, <3>2, <3>3, <3>4 DEF Replaced
      <4> QED BY <2>3, <4>1
    <3>5. ASSUME wire[p].type = "failed", r \in wire[p].rows,
                 TaggedAt(client'.lines[r], wire[p].at),
                 client'.lines[r].kind = "LineAndFetching"
          PROVE  client'.lines[r].ver = term.ver[r] \/ ToComeAfter(r, 0)'
      <4>1. client'.lines[r] = client.lines[r] /\ Tagged(r, wire[p].at)
        BY <3>3, <3>5
      <4>2. client.lines[r].ver = term.ver[r] \/ ToComeAfter(r, 0)
        BY <2>1, <3>2, <3>5, <4>1 DEF Replaced
      <4> QED BY <2>3, <4>1, <4>2
    <3>6. ASSUME wire[p].type = "delta", r \in DOMAIN wire[p].bonus
          PROVE  wire[p].bonus[r] = term.ver[r] \/ ToComeAfter(r, q)'
      <4>1. wire[p].bonus[r] = term.ver[r] \/ ToComeAfter(r, p)
        BY <2>1, <3>2, <3>6 DEF Replaced
      <4>2. ToComeAfter(r, p) => ToComeAfter(r, q)'
        BY <1>1, <1>2, <1>3, <3>1, <3>2, TakenToCome
      <4> QED BY <4>1, <4>2
    <3> QED BY <3>2, <3>4, <3>5, <3>6
  <2> QED BY <1>3, <2>4, <2>5 DEF Replaced, Tagged
<1> QED BY <1>9, <1>10, <1>11, <1>13, <1>14 DEF IInv


----------------------------------------------------------------------------
(* The connection.                                                         *)

\* What a finite set is mapped onto is finite.
LEMMA CoveredIsFinite ==
    ASSUME NEW S, IsFiniteSet(S), NEW T, NEW f \in [S -> T],
           \A y \in T : \E x \in S : f[x] = y
    PROVE  IsFiniteSet(T)
<1>1. f \in Surjection(S, T)
  BY DEF Surjection
<1> QED BY <1>1, FS_Surjection

\* Break, in parts: the answers not yet read, what the failures are about, and the
\* messages that are left.
Unread(kept) == {wire[i] : i \in {j \in DOMAIN wire : j > kept /\ wire[j].type # "delta"}}
Fetches(S) == {[at |-> m.at, rows |-> m.rows] : m \in S}
Failures(S) == {[type |-> "failed", images |-> FALSE, at |-> f.at, rows |-> f.rows] : f \in S}
Joined(s, kept, b) == SubSeq(s, 1, kept) \o b
Left(kept, lost) ==
    Joined(wire, kept, SetToSeq(Failures(Fetches(lost \cup Unread(kept)))))

\* The failures of what was lost: finitely many answers, one for each.
LEMMA FailuresAre ==
    ASSUME NEW dead, IsFiniteSet(dead),
           \A m \in dead : m.at \in Instant /\ m.rows \in SUBSET Row
    PROVE  /\ IsFiniteSet(Failures(Fetches(dead)))
           /\ \A x \in Failures(Fetches(dead)) :
                 x \in Answer /\ x.type = "failed"
                 /\ \E m \in dead : x.at = m.at /\ x.rows = m.rows
           /\ \A m \in dead : \E x \in Failures(Fetches(dead)) : x.at = m.at /\ x.rows = m.rows
<1>a. PICK failing : failing = Fetches(dead)
  OBVIOUS
<1>b. PICK fails : fails = Failures(failing)
  OBVIOUS
<1> DEFINE Shape(m) == [at |-> m.at, rows |-> m.rows]
           Failed(f) == [type |-> "failed", images |-> FALSE, at |-> f.at, rows |-> f.rows]
<1>1. /\ \A m \in dead : Shape(m) \in failing
      /\ \A f \in failing : \E m \in dead : f = Shape(m)
  BY <1>a DEF Fetches
<1>2. /\ \A f \in failing : Failed(f) \in fails
      /\ \A x \in fails : \E f \in failing : x = Failed(f)
  BY <1>b DEF Failures
<1>3. \A m \in dead : Shape(m).at = m.at /\ Shape(m).rows = m.rows
  OBVIOUS
<1>4. ASSUME NEW f, f.at \in Instant, f.rows \in SUBSET Row
      PROVE  /\ Failed(f) \in Answer /\ Failed(f).type = "failed"
             /\ Failed(f).at = f.at /\ Failed(f).rows = f.rows
  BY <1>4 DEF Answer
<1> HIDE DEF Shape, Failed
<1>5. IsFiniteSet(failing)
  <2>1. PICK g : g = [m \in dead |-> Shape(m)]
    OBVIOUS
  <2>2. g \in [dead -> failing] /\ \A y \in failing : \E x \in dead : g[x] = y
    BY <1>1, <2>1
  <2> QED BY <2>2, CoveredIsFinite
<1>6. IsFiniteSet(fails)
  <2>1. PICK g : g = [f \in failing |-> Failed(f)]
    OBVIOUS
  <2>2. g \in [failing -> fails] /\ \A y \in fails : \E x \in failing : g[x] = y
    BY <1>2, <2>1
  <2> QED BY <1>5, <2>2, CoveredIsFinite
<1>7. ASSUME NEW x \in fails
      PROVE  x \in Answer /\ x.type = "failed" /\ \E m \in dead : x.at = m.at /\ x.rows = m.rows
  <2>1. PICK f \in failing : x = Failed(f)
    BY <1>2
  <2>2. PICK m \in dead : f = Shape(m)
    BY <1>1
  <2>3. f.at = m.at /\ f.rows = m.rows /\ m.at \in Instant /\ m.rows \in SUBSET Row
    BY <1>3, <2>2
  <2>4. f.at \in Instant /\ f.rows \in SUBSET Row
    BY <2>3
  <2>5. /\ Failed(f) \in Answer /\ Failed(f).type = "failed"
        /\ Failed(f).at = f.at /\ Failed(f).rows = f.rows
    BY <1>4, <2>4
  <2> QED BY <2>1, <2>3, <2>5
<1>8. ASSUME NEW m \in dead PROVE \E x \in fails : x.at = m.at /\ x.rows = m.rows
  <2>1. Shape(m) \in failing /\ Shape(m).at = m.at /\ Shape(m).rows = m.rows
    BY <1>1, <1>3
  <2>2. PICK f \in failing : f.at = m.at /\ f.rows = m.rows
    BY <2>1
  <2>3. f.at \in Instant /\ f.rows \in SUBSET Row
    BY <2>2
  <2>4. Failed(f) \in fails /\ Failed(f).at = f.at /\ Failed(f).rows = f.rows
    BY <1>2, <1>4, <2>3
  <2> QED BY <2>2, <2>4
<1> QED BY <1>a, <1>b, <1>6, <1>7, <1>8

\* The first messages, and others after them.
LEMMA JoinedIs ==
    ASSUME NEW T, NEW s \in Seq(T), NEW kept \in 0..Len(s), NEW b \in Seq(T),
           NEW w, w = Joined(s, kept, b)
    PROVE  /\ w \in Seq(T) /\ DOMAIN s = 1..Len(s) /\ Len(s) \in Nat
           /\ \A i \in DOMAIN s : i <= kept => i \in DOMAIN w
           /\ \A i \in DOMAIN w : i <= kept => i \in DOMAIN s /\ w[i] = s[i]
           /\ \A i \in DOMAIN w : ~(i <= kept) => \E k \in DOMAIN b : w[i] = b[k]
           /\ \A k \in DOMAIN b : \E i \in DOMAIN w : w[i] = b[k]
<1> DEFINE a == SubSeq(s, 1, kept)
<1>1. /\ Len(s) \in Nat /\ DOMAIN s = 1..Len(s) /\ kept \in Nat /\ kept <= Len(s)
      /\ Len(b) \in Nat /\ DOMAIN b = 1..Len(b)
  OBVIOUS
<1>2. a \in Seq(T) /\ Len(a) = kept /\ \A i \in 1..kept : a[i] = s[i]
  BY <1>1
<1> HIDE DEF a
<1>3. /\ w \in Seq(T) /\ Len(w) = Len(a) + Len(b)
      /\ \A i \in 1..(Len(a) + Len(b)) : w[i] = IF i <= Len(a) THEN a[i] ELSE b[i - Len(a)]
  <2>1. w = a \o b
    BY DEF a, Joined
  <2>2. /\ a \o b \in Seq(T) /\ Len(a \o b) = Len(a) + Len(b)
        /\ \A i \in 1..(Len(a) + Len(b)) :
              (a \o b)[i] = IF i <= Len(a) THEN a[i] ELSE b[i - Len(a)]
    BY <1>2, ConcatProperties
  <2> QED BY <2>1, <2>2
<1>4. w \in Seq(T) /\ DOMAIN w = 1..(kept + Len(b))
  BY <1>2, <1>3
<1>5. \A i \in DOMAIN w : w[i] = IF i <= kept THEN a[i] ELSE b[i - kept]
  BY <1>2, <1>3, <1>4
<1>6. \A i \in DOMAIN s : i <= kept => i \in DOMAIN w
  BY <1>1, <1>4
<1>7. ASSUME NEW i \in DOMAIN w, i <= kept PROVE i \in DOMAIN s /\ w[i] = s[i]
  <2>1. i \in 1..kept /\ i \in 1..Len(s)
    BY <1>1, <1>4, <1>7
  <2> QED BY <1>1, <1>2, <1>5, <1>7, <2>1
<1>8. ASSUME NEW i \in DOMAIN w, ~(i <= kept) PROVE \E k \in DOMAIN b : w[i] = b[k]
  <2>1. i - kept \in 1..Len(b)
    BY <1>1, <1>4, <1>8
  <2> QED BY <1>1, <1>5, <1>8, <2>1
<1>9. ASSUME NEW k \in DOMAIN b PROVE \E i \in DOMAIN w : w[i] = b[k]
  <2>1. kept + k \in DOMAIN w /\ ~(kept + k <= kept) /\ (kept + k) - kept = k
    BY <1>1, <1>4
  <2> QED BY <1>5, <2>1
<1> QED BY <1>1, <1>4, <1>6, <1>7, <1>8, <1>9

\* What is left of the messages when a connection breaks: those already read, and a
\* failure for each request that will not be answered.
LEMMA BrokenIs ==
    ASSUME TypeOK, IsFiniteSet(asked), NEW kept \in 0..Len(wire), NEW lost \in SUBSET asked,
           NEW w, w = Left(kept, lost)
    PROVE  /\ w \in Seq(Delta \cup Answer)
           /\ \A i \in DOMAIN w :
                \/ i <= kept /\ i \in DOMAIN wire /\ w[i] = wire[i]
                \/ /\ w[i].type = "failed"
                   /\ \/ \E f \in asked : w[i].rows = f.rows
                      \/ \E k \in DOMAIN wire : wire[k].type # "delta" /\ w[i].rows = wire[k].rows
           /\ \A f \in lost : \E i \in DOMAIN w :
                 w[i].type # "delta" /\ w[i].at = f.at /\ w[i].rows = f.rows
           /\ \A k \in DOMAIN wire : wire[k].type # "delta" =>
                 \E i \in DOMAIN w :
                    w[i].type # "delta" /\ w[i].at = wire[k].at /\ w[i].rows = wire[k].rows
<1>1. /\ wire \in Seq(Delta \cup Answer) /\ asked \in SUBSET Fetch
      /\ Len(wire) \in Nat /\ DOMAIN wire = 1..Len(wire) /\ kept \in Nat
      /\ \A i \in DOMAIN wire : wire[i] \in Delta \cup Answer
  <2>1. wire \in Seq(Delta \cup Answer) /\ asked \in SUBSET Fetch
    BY Parts
  <2> QED BY <2>1
<1>2. PICK D : D = {j \in DOMAIN wire : j > kept /\ wire[j].type # "delta"}
  OBVIOUS
<1> DEFINE unread == Unread(kept)
<1>3. /\ D \subseteq DOMAIN wire
      /\ \A i \in D : wire[i].type # "delta" /\ wire[i] \in unread
      /\ \A m \in unread : \E i \in D : m = wire[i]
      /\ \A i \in DOMAIN wire : wire[i].type # "delta" /\ i > kept => i \in D
  BY <1>2 DEF Unread
<1> HIDE DEF unread
<1>4. IsFiniteSet(unread)
  <2>1. IsFiniteSet(D)
    <3>1. IsFiniteSet(1..Len(wire))
      BY <1>1, FS_Interval
    <3> QED BY <1>1, <1>3, <3>1, FS_Subset
  <2>2. PICK g : g = [i \in D |-> wire[i]]
    OBVIOUS
  <2>3. g \in [D -> unread] /\ \A y \in unread : \E x \in D : g[x] = y
    BY <1>3, <2>2
  <2> QED BY <2>1, <2>3, CoveredIsFinite
<1>5. PICK dead : dead = lost \cup unread
  OBVIOUS
<1>6. IsFiniteSet(dead)
  <2>1. IsFiniteSet(lost)
    BY FS_Subset
  <2> QED BY <1>4, <1>5, <2>1, FS_Union
<1>7. ASSUME NEW m \in dead PROVE m.at \in Instant /\ m.rows \in SUBSET Row
  <2>1. CASE m \in lost
    BY <1>1, <2>1 DEF Fetch
  <2>2. CASE m \in unread
    <3>1. PICK i \in D : m = wire[i]
      BY <1>3, <2>2
    <3>2. m \in Delta \cup Answer /\ m.type # "delta"
      BY <1>1, <1>3, <3>1
    <3> QED BY <3>2, MessageIs
  <2> QED BY <1>5, <2>1, <2>2
<1>8. PICK fails : fails = Failures(Fetches(dead))
  OBVIOUS
<1>9. /\ IsFiniteSet(fails)
      /\ \A x \in fails : x \in Answer /\ x.type = "failed"
                          /\ \E m \in dead : x.at = m.at /\ x.rows = m.rows
      /\ \A m \in dead : \E x \in fails : x.at = m.at /\ x.rows = m.rows
  BY <1>6, <1>7, <1>8, FailuresAre
<1>10. PICK b : b = SetToSeq(fails)
  OBVIOUS
<1>11. w = Joined(wire, kept, b)
  BY <1>5, <1>8, <1>10 DEF Left, unread
<1>12. b \in Seq(fails) /\ \A x \in fails : \E i \in DOMAIN b : b[i] = x
  BY <1>9, <1>10, SetToSeqIs
<1>13. b \in Seq(Delta \cup Answer) /\ \A k \in DOMAIN b : b[k] \in fails
  <2>1. Len(b) \in Nat /\ DOMAIN b = 1..Len(b) /\ \A i \in 1..Len(b) : b[i] \in fails
    BY <1>12
  <2>2. \A i \in 1..Len(b) : b[i] \in Delta \cup Answer
    BY <1>9, <2>1
  <2> QED BY <1>12, <2>1, <2>2
<1>14. /\ w \in Seq(Delta \cup Answer)
       /\ \A i \in DOMAIN wire : i <= kept => i \in DOMAIN w
       /\ \A i \in DOMAIN w : i <= kept => i \in DOMAIN wire /\ w[i] = wire[i]
       /\ \A i \in DOMAIN w : ~(i <= kept) => \E k \in DOMAIN b : w[i] = b[k]
       /\ \A k \in DOMAIN b : \E i \in DOMAIN w : w[i] = b[k]
  <2>1. PICK T : T = Delta \cup Answer
    OBVIOUS
  <2>2. wire \in Seq(T) /\ b \in Seq(T) /\ kept \in 0..Len(wire)
    BY <1>1, <1>13, <2>1
  <2>3. /\ w \in Seq(T)
        /\ \A i \in DOMAIN wire : i <= kept => i \in DOMAIN w
        /\ \A i \in DOMAIN w : i <= kept => i \in DOMAIN wire /\ w[i] = wire[i]
        /\ \A i \in DOMAIN w : ~(i <= kept) => \E k \in DOMAIN b : w[i] = b[k]
        /\ \A k \in DOMAIN b : \E i \in DOMAIN w : w[i] = b[k]
    BY <1>11, <2>2, JoinedIs
  <2> QED BY <2>1, <2>3
<1>15. ASSUME NEW i \in DOMAIN w, ~(i <= kept)
       PROVE  /\ w[i].type = "failed"
              /\ \/ \E f \in asked : w[i].rows = f.rows
                 \/ \E k \in DOMAIN wire : wire[k].type # "delta" /\ w[i].rows = wire[k].rows
  <2>1. w[i] \in fails
    BY <1>13, <1>14, <1>15
  <2>2. PICK m \in dead : w[i].rows = m.rows
    BY <1>9, <2>1
  <2>3. w[i].type = "failed"
    BY <1>9, <2>1
  <2>4. CASE m \in lost
    BY <2>2, <2>3, <2>4
  <2>5. CASE m \in unread
    <3>1. PICK k \in D : m = wire[k]
      BY <1>3, <2>5
    <3> QED BY <1>3, <2>2, <2>3, <3>1
  <2> QED BY <1>5, <2>4, <2>5
<1>16. ASSUME NEW m \in dead
       PROVE  \E i \in DOMAIN w : w[i].type # "delta" /\ w[i].at = m.at /\ w[i].rows = m.rows
  <2>1. PICK x \in fails : x.at = m.at /\ x.rows = m.rows
    BY <1>9
  <2>2. x.type # "delta"
    BY <1>9
  <2>3. PICK k \in DOMAIN b : b[k] = x
    BY <1>12
  <2>4. PICK i \in DOMAIN w : w[i] = x
    BY <1>14, <2>3
  <2> QED BY <2>1, <2>2, <2>4
<1>17. ASSUME NEW k \in DOMAIN wire, wire[k].type # "delta"
       PROVE  \E i \in DOMAIN w :
                 w[i].type # "delta" /\ w[i].at = wire[k].at /\ w[i].rows = wire[k].rows
  <2>1. CASE k <= kept
    <3>1. k \in DOMAIN w /\ w[k] = wire[k]
      BY <1>14, <2>1
    <3> QED BY <1>17, <3>1
  <2>2. CASE k > kept
    <3>1. wire[k] \in dead
      BY <1>3, <1>5, <1>17, <2>2
    <3> QED BY <1>16, <3>1
  <2> QED BY <1>1, <2>1, <2>2
<1>18. \A f \in lost : f \in dead
  BY <1>5
<1> QED BY <1>14, <1>15, <1>16, <1>17, <1>18

\* What is left of a sequence without its first elements.
LEMMA SuffixIs ==
    ASSUME NEW T, NEW s \in Seq(T), NEW n \in Nat \ {0}
    PROVE  SubSeq(s, n, Len(s)) \in Seq(T)
<1>1. Len(s) \in Nat /\ \A i \in 1..Len(s) : s[i] \in T
  OBVIOUS
<1>2. \A i \in n..Len(s) : i \in 1..Len(s)
  BY <1>1
<1>3. \A i \in n..Len(s) : s[i] \in T
  BY <1>1, <1>2
<1> QED BY <1>1, <1>3, SubSeqProperties

\* The connection breaks: everything is in work again, and whoever was waited for
\* fails.
LEMMA BreakInv ==
    ASSUME IInv, NEW kept \in 0..Len(wire), NEW lost \in SUBSET asked,
           NEW pushLost \in BOOLEAN, NEW keysLost \in 0..Len(due.keys),
           Break(kept, lost, pushLost, keysLost)
    PROVE  IInv'
<1>1. /\ TypeOK /\ ScreenFits /\ Kinds /\ Known /\ NoOrphans /\ IsFiniteSet(asked)
      /\ client \in Client /\ wire \in Seq(Delta \cup Answer) /\ asked \in SUBSET Fetch
  <2>1. TypeOK /\ ScreenFits /\ Kinds /\ Known /\ NoOrphans /\ IsFiniteSet(asked)
    BY DEF IInv, Kinds
  <2> QED BY <2>1, Parts
<1>2. PICK w : w = Left(kept, lost)
  OBVIOUS
<1>3. /\ upsets < MaxUpsets /\ connected' = FALSE /\ upsets' = upsets + 1
      /\ wire' = w /\ asked' = asked \ lost
      /\ session' = NewSession /\ job' = NoJob
      /\ due' = [push |-> due.push /\ ~pushLost,
                 keys |-> SubSeq(due.keys, keysLost + 1, Len(due.keys))]
      /\ UNCHANGED <<term, client, typed, overtaken>>
  BY <1>2 DEF Break, Left, Joined, Failures, Fetches, Unread
<1>4. /\ w \in Seq(Delta \cup Answer)
      /\ \A i \in DOMAIN w :
           \/ i <= kept /\ i \in DOMAIN wire /\ w[i] = wire[i]
           \/ /\ w[i].type = "failed"
              /\ \/ \E f \in asked : w[i].rows = f.rows
                 \/ \E k \in DOMAIN wire : wire[k].type # "delta" /\ w[i].rows = wire[k].rows
      /\ \A f \in lost : \E i \in DOMAIN w :
            w[i].type # "delta" /\ w[i].at = f.at /\ w[i].rows = f.rows
      /\ \A k \in DOMAIN wire : wire[k].type # "delta" =>
            \E i \in DOMAIN w :
               w[i].type # "delta" /\ w[i].at = wire[k].at /\ w[i].rows = wire[k].rows
  <2>1. TypeOK /\ IsFiniteSet(asked)
    BY <1>1
  <2> QED BY <1>2, <2>1, BrokenIs
<1>5. job'.stage = "none" /\ session'.seqno = 0
  BY <1>3 DEF NoJob, NewSession
<1>6. TypeOK'
  <2>1. session' \in [seqno : 0..MaxSeq, cursor : Row, top : 0..Rows]
    BY <1>3, CacheAssumption DEF NewSession, Row
  <2>2. job' \in [stage : {"none", "seqno", "dirty", "lines"}, serial : 0..MaxUpsets,
                  top : 0..Rows, cursor : 0..Rows, old : 0..MaxSeq, dirty : SUBSET Row]
    BY <1>3, CacheAssumption, RemoteAssumption DEF NoJob
  <2>3. due' \in [push : BOOLEAN, keys : Seq(1..MaxUpsets)]
    <3>1. due.keys \in Seq(1..MaxUpsets) /\ due.push \in BOOLEAN
      BY <1>1, Parts
    <3>2. keysLost + 1 \in Nat \ {0}
      BY <3>1
    <3>3. SubSeq(due.keys, keysLost + 1, Len(due.keys)) \in Seq(1..MaxUpsets)
      BY <3>1, <3>2, SuffixIs
    <3> QED BY <1>3, <3>1, <3>3
  <2>4. upsets' \in 0..MaxUpsets
    <3>1. upsets \in 0..MaxUpsets
      BY <1>1, Parts
    <3> QED BY <1>3, <3>1, RemoteAssumption
  <2>5. wire' \in Seq(Delta \cup Answer) /\ asked' \subseteq Fetch /\ connected' \in BOOLEAN
    BY <1>1, <1>3, <1>4
  <2> QED BY <1>1, <1>3, <2>1, <2>2, <2>3, <2>4, <2>5 DEF TypeOK
<1>7. Kinds'
  <2>1. typed \in Nat /\ upsets \in Nat /\ typed <= upsets
    BY <1>1, Parts, RemoteAssumption DEF Kinds
  <2>2. typed' <= upsets'
    BY <1>3, <2>1
  <2>3. IsFiniteSet(asked')
    BY <1>1, <1>3, FS_Subset
  <2> QED BY <1>6, <2>2, <2>3 DEF Kinds
<1>8. ScreenFits'
  BY <1>1, <1>3, <1>5 DEF ScreenFits
<1>9. SeqnoTold'
  BY <1>1, <1>3, <1>5, <1>6, Parts DEF SeqnoTold
<1>10. Reach \in Nat /\ Reach' \in Nat /\ Reach <= Reach' /\ Row \subseteq Nat
  <2>1. /\ Reach <= LastRow(term.top) /\ Reach \in Row /\ Row \subseteq Nat
        /\ \A n \in Nat : LastRow(n) = n + Screen - 1
        /\ Screen \in Nat /\ term.top \in 1..Rows
    BY <1>1, ReachIs
  <2>2. LastRow(term.top) \in Int /\ Reach \in Nat
    BY <2>1
  <2>3. Reach' = LastRow(term.top)
    BY <1>3, <1>5 DEF Reach
  <2> QED BY <2>1, <2>2, <2>3
<1>11. \A i \in DOMAIN wire : wire[i] \in Delta \cup Answer /\ MessageFits(wire[i], Reach)
  BY <1>1 DEF Known
<1>12. Known'
  <2>1. LastRow(client'.top) <= Reach' /\ client'.cursor <= Reach'
    <3>1. client.top \in Nat /\ client.cursor \in Nat
      BY <1>1, <1>10, Parts
    <3>2. LastRow(client.top) \in Int
      BY <3>1, RemoteAssumption, CacheAssumption DEF LastRow
    <3>3. LastRow(client.top) <= Reach /\ client.cursor <= Reach
      BY <1>1 DEF Known
    <3>4. LastRow(client.top) <= Reach' /\ client.cursor <= Reach'
      BY <1>10, <3>1, <3>2, <3>3
    <3> QED BY <1>3, <3>4 DEF LastRow
  <2>2. \A r \in Row : client'.lines[r].kind # "Absent" => r <= Reach'
    BY <1>1, <1>3, <1>10 DEF Known
  <2>3. 1..Reach \subseteq 1..Reach'
    BY <1>10
  <2>4. \A f \in asked' : f.rows \subseteq 1..Reach'
    BY <1>1, <1>3, <2>3 DEF Known
  <2>5. ASSUME NEW i \in DOMAIN w PROVE MessageFits(w[i], Reach')
    <3>1. CASE i \in DOMAIN wire /\ w[i] = wire[i]
      <4>1. PICK m : m = w[i]
        OBVIOUS
      <4>2. m \in Delta \cup Answer /\ MessageFits(m, Reach)
        BY <1>11, <3>1, <4>1
      <4> QED BY <1>10, <4>1, <4>2, FitsKept
    <3>2. CASE w[i].type = "failed" /\ \E f \in asked : w[i].rows = f.rows
      <4>1. w[i].rows \subseteq 1..Reach
        BY <1>1, <3>2 DEF Known
      <4> QED BY <2>3, <3>2, <4>1 DEF MessageFits
    <3>3. CASE w[i].type = "failed"
               /\ \E k \in DOMAIN wire : wire[k].type # "delta" /\ w[i].rows = wire[k].rows
      <4>1. w[i].rows \subseteq 1..Reach
        BY <1>11, <3>3 DEF MessageFits
      <4> QED BY <2>3, <3>3, <4>1 DEF MessageFits
    <3> QED BY <1>4, <3>1, <3>2, <3>3
  <2> QED BY <1>3, <2>1, <2>2, <2>4, <2>5 DEF Known
<1>13. NoOrphans'
  <2>1. ASSUME NEW r \in Row, NEW t \in 0..MaxFetches, Tagged(r, t) PROVE Awaited(r, t)'
    <3>1. Awaited(r, t)
      BY <1>1, <2>1 DEF NoOrphans
    <3>2. CASE \E f \in asked : f.at = t /\ r \in f.rows
      <4>1. PICK f \in asked : f.at = t /\ r \in f.rows
        BY <3>2
      <4>2. CASE f \in lost
        <5>1. PICK i \in DOMAIN w : w[i].type # "delta" /\ w[i].at = f.at /\ w[i].rows = f.rows
          BY <1>4, <4>2
        <5> QED BY <1>3, <4>1, <5>1 DEF Awaited
      <4>3. CASE f \notin lost
        BY <1>3, <4>1, <4>3 DEF Awaited
      <4> QED BY <4>2, <4>3
    <3>3. CASE \E k \in DOMAIN wire : wire[k].type # "delta" /\ wire[k].at = t
                                      /\ r \in wire[k].rows
      <4>1. PICK k \in DOMAIN wire : wire[k].type # "delta" /\ wire[k].at = t
                                     /\ r \in wire[k].rows
        BY <3>3
      <4>2. PICK i \in DOMAIN w :
               w[i].type # "delta" /\ w[i].at = wire[k].at /\ w[i].rows = wire[k].rows
        BY <1>4, <4>1
      <4> QED BY <1>3, <4>1, <4>2 DEF Awaited
    <3> QED BY <3>1, <3>2, <3>3 DEF Awaited
  <2> QED BY <1>3, <2>1 DEF NoOrphans, Tagged
<1>14. ASSUME NEW r \in Row PROVE InWork(r)'
  <2>1. term.ver[r] \in 1..MaxSeq
    BY <1>1, Parts
  <2>2. term.ver[r] > 0
    BY <2>1
  <2> QED BY <1>3, <1>5, <2>2 DEF InWork
<1>15. \A r \in Row : \A i : ToComeAfter(r, i)'
  BY <1>14 DEF ToComeAfter
<1>16. Replaced'
  BY <1>15 DEF Replaced
<1> QED BY <1>7, <1>8, <1>9, <1>12, <1>13, <1>16 DEF IInv

\* A new connection changes nothing of this.
LEMMA ReconnectInv ==
    ASSUME IInv, Reconnect
    PROVE  IInv'
<1>1. /\ connected' = TRUE
      /\ UNCHANGED <<term, session, job, due, wire, asked, client, typed, upsets, overtaken>>
  BY DEF Reconnect
<1>2. TypeOK'
  BY <1>1 DEF IInv, Kinds, TypeOK
<1>3. Kinds' /\ ScreenFits' /\ Known' /\ NoOrphans' /\ SeqnoTold'
  BY <1>1, <1>2 DEF IInv, Kinds, ScreenFits, Known, Reach, NoOrphans, Tagged, Awaited, SeqnoTold
<1>4. Replaced' <=> Replaced
  BY <1>1 DEF Replaced, Tagged, ToComeAfter, InWork, OnItsWay
<1> QED BY <1>1, <1>3, <1>4 DEF IInv

----------------------------------------------------------------------------
(* The theorems.                                                           *)

\* The first state: nothing is kept, asked for or on its way, and the session has been told
\* nothing.
LEMMA InitInv == Init => IInv
<1> SUFFICES ASSUME Init PROVE IInv
  OBVIOUS
<1>1. /\ Rows \in Nat \ {0} /\ MaxSeq \in Nat \ {0} /\ MaxUpsets \in Nat /\ MaxFetches \in Nat
      /\ Screen \in 1..Rows /\ Row = 1..Rows
  BY CacheAssumption, RemoteAssumption DEF Row
<1>2. 0 \in 0..MaxSeq /\ 1 \in 1..MaxSeq /\ 1 \in Row /\ 0 \in 0..MaxUpsets /\ 0 \in 0..MaxFetches
      /\ 0 \in 0..Rows
  BY <1>1
<1>3. TypeOK
  <2>1. /\ term \in [seqno : 1..MaxSeq, ver : [Row -> 1..MaxSeq], cursor : Row, top : Row]
        /\ session \in [seqno : 0..MaxSeq, cursor : Row, top : 0..Rows]
        /\ job \in [stage : {"none", "seqno", "dirty", "lines"}, serial : 0..MaxUpsets,
                    top : 0..Rows, cursor : 0..Rows, old : 0..MaxSeq, dirty : SUBSET Row]
    BY <1>2 DEF Init, NewSession, NoJob
  <2>2. client \in [lines : [Row -> LineEntry], seqno : 0..MaxSeq, cursor : Row,
                    top : Row, serial : 0..MaxUpsets]
    <3>1. Absent \in LineEntry
      BY <1>2 DEF Absent, LineEntry
    <3> HIDE DEF Absent
    <3> QED BY <1>2, <3>1 DEF Init
  <2>3. due \in [push : BOOLEAN, keys : Seq(1..MaxUpsets)] /\ wire \in Seq(Delta \cup Answer)
        /\ connected \in BOOLEAN /\ asked \subseteq Fetch
    BY DEF Init
  <2> QED BY <1>2, <2>1, <2>2, <2>3 DEF Init, TypeOK
<1>4. job.stage = "none" /\ term.top = 1 /\ term.cursor = 1 /\ session.seqno = 0
      /\ term.seqno = 1 /\ client.top = 1 /\ client.cursor = 1
      /\ wire = <<>> /\ asked = {} /\ \A r \in Row : client.lines[r] = Absent
  BY DEF Init, NoJob, NewSession
<1>5. Kinds
  <2>1. IsFiniteSet({})
    BY FS_EmptySet
  <2>2. typed <= upsets
    BY DEF Init
  <2> QED BY <1>3, <1>4, <2>1, <2>2 DEF Kinds
<1>6. LastRow(1) = Screen /\ 1 \in 1..Screen
  BY <1>1 DEF LastRow
<1>7. ScreenFits
  BY <1>1, <1>4, <1>6 DEF ScreenFits
<1>8. Reach = Screen
  BY <1>4, <1>6 DEF Reach
<1>9. DOMAIN wire = {}
  BY <1>4
<1>10. \A r \in Row : client.lines[r].kind = "Absent"
  BY <1>4 DEF Absent
<1>11. Known
  BY <1>1, <1>4, <1>6, <1>8, <1>9, <1>10 DEF Known
<1>12. NoOrphans
  BY <1>10 DEF NoOrphans, Tagged, TaggedAt
<1>13. SeqnoTold
  BY <1>4 DEF SeqnoTold
<1>14. Replaced
  BY <1>9, <1>10 DEF Replaced
<1> QED BY <1>5, <1>7, <1>11, <1>12, <1>13, <1>14 DEF IInv

\* Every step keeps the inductive invariant.
LEMMA NextInv ==
    ASSUME ~LocalEcho, IInv, [Next]_vars
    PROVE  IInv'
<1>1. ASSUME NEW changed \in SUBSET Row, NEW cursor \in Row, NEW scrolls \in BOOLEAN,
             Output(changed, cursor, scrolls)
      PROVE  IInv'
  BY <1>1, OutputInv
<1>2. ASSUME Push PROVE IInv'
  BY <1>2, StartPushInv, TakeSeqnoInv, TakeDirtyInv, SendPushInv DEF Push
<1>3. ASSUME NEW f \in asked, NEW images \in BOOLEAN, AnswerFetch(f, images) PROVE IInv'
  BY <1>3, AnswerFetchInv
<1>4. ASSUME Deliver PROVE IInv'
  BY <1>4, TakeAnswerInv, TakeDeltaInv DEF Deliver
<1>5. ASSUME NEW first \in Row, NEW polls \in BOOLEAN, Paint(first, polls) PROVE IInv'
  BY <1>5, PaintInv
<1>6. CASE Invalidate
  BY <1>6, InvalidateInv
<1>7. ASSUME NEW key \in {"none", "char", "up", "down"}, Type(key) PROVE IInv'
  BY <1>7, TypeInv
<1>8. ASSUME NEW kept \in 0..Len(wire), NEW lost \in SUBSET asked, NEW pushLost \in BOOLEAN,
             NEW keysLost \in 0..Len(due.keys), Break(kept, lost, pushLost, keysLost)
      PROVE  IInv'
  BY <1>8, BreakInv
<1>9. CASE Reconnect
  BY <1>9, ReconnectInv
<1>10. CASE UNCHANGED vars
  <2>1. UNCHANGED <<term, session, job, due, connected, wire, asked, client, typed, upsets,
                    overtaken>>
    BY <1>10 DEF vars
  <2>2. TypeOK'
    BY <2>1 DEF IInv, Kinds, TypeOK
  <2>3. Kinds' /\ ScreenFits' /\ Known' /\ NoOrphans' /\ SeqnoTold'
    BY <2>1, <2>2 DEF IInv, Kinds, ScreenFits, Known, Reach, NoOrphans, Tagged, Awaited, SeqnoTold
  <2>4. Replaced' <=> Replaced
    BY <2>1 DEF Replaced, Tagged, ToComeAfter, InWork, OnItsWay
  <2> QED BY <2>1, <2>3, <2>4 DEF IInv
<1> QED BY <1>1, <1>2, <1>3, <1>4, <1>5, <1>6, <1>7, <1>8, <1>9, <1>10 DEF Next

\* The inductive invariant says what the runs check.
LEMMA InvImplies ==
    ASSUME IInv
    PROVE  TypeOK /\ LineIsCurrent /\ NoOrphanFetch
<1>1. TypeOK /\ NoOrphans
  BY DEF IInv, Kinds
<1>2. LineIsCurrent
  <2>1. SUFFICES ASSUME ~overtaken, NEW r \in Row, client.lines[r].kind = "Line"
                 PROVE  client.lines[r].ver = term.ver[r] \/ StillToCome(r)
    BY DEF LineIsCurrent
  <2>2. client.lines[r].ver = term.ver[r] \/ ToComeAfter(r, 0)
    BY <2>1 DEF IInv, Replaced
  <2>3. InWork(r) => StillToCome(r)
    BY DEF InWork, StillToCome
  <2>4. OnItsWay(r, 0) => StillToCome(r)
    BY DEF OnItsWay, Brings, StillToCome
  <2> QED BY <2>2, <2>3, <2>4 DEF ToComeAfter
<1>3. NoOrphanFetch
  <2>1. ASSUME NEW r \in Row, client.lines[r].kind \in {"Fetching", "LineAndFetching"}
        PROVE  Awaited(r, client.lines[r].at)
    <3>1. client.lines[r].at \in 0..MaxFetches
      <4>1. client.lines \in [Row -> LineEntry]
        BY <1>1, Parts
      <4> QED BY <4>1 DEF LineEntry
    <3>2. Tagged(r, client.lines[r].at)
      BY <2>1 DEF Tagged, TaggedAt
    <3> QED BY <1>1, <3>1, <3>2 DEF NoOrphans
  <2> QED BY <1>1, <2>1 DEF NoOrphanFetch, Awaited
<1> QED BY <1>1, <1>2, <1>3

\* The inductive invariant, when nothing is predicted of keys.
THEOREM IndCorrect ==
    ASSUME ~LocalEcho
    PROVE  Spec => []IInv
<1>1. Init => IInv
  BY InitInv
<1>2. IInv /\ [Next]_vars => IInv'
  BY NextInv
<1> QED BY <1>1, <1>2, PTL DEF Spec

\* Messages and the state on both sides keep their form.
THEOREM TypeCorrect ==
    ASSUME ~LocalEcho
    PROVE  Spec => []TypeOK
<1>1. IInv => TypeOK
  BY InvImplies
<1> QED BY <1>1, IndCorrect, PTL

\* A row that the client keeps as being fetched is waited for by someone.
THEOREM NoOrphanCorrect ==
    ASSUME ~LocalEcho
    PROVE  Spec => []NoOrphanFetch
<1>1. IInv => NoOrphanFetch
  BY InvImplies
<1> QED BY <1>1, IndCorrect, PTL

\* A line called up to date is so, or a change of it is still to come.
THEOREM CurrentCorrect ==
    ASSUME ~LocalEcho
    PROVE  Spec => []LineIsCurrent
<1>1. IInv => LineIsCurrent
  BY InvImplies
<1> QED BY <1>1, IndCorrect, PTL
=============================================================================

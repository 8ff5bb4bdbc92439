---------------------------- MODULE SidebarProofs ----------------------------
(***************************************************************************)
(* Proofs about Sidebar, for any workspaces, any configuration and lists   *)
(* of any length, and about SidebarFile: what one process saves, for any   *)
(* number of changes, crashes and restarts.                                *)
(***************************************************************************)
EXTENDS Sidebar, SidebarFile, SequenceTheorems, WellFoundedInduction, TLAPS

----------------------------------------------------------------------------
(* Induction and recursion over the names of a sequence.                   *)

\* Numbers are ordered well.
LEMMA NatLess == IsWellFoundedOn({ss \in Nat \X Nat : ss[1] < ss[2]}, Nat)
BY NatLessThanWellFounded DEF OpToRel

\* A set with 0 and with the successor of each of its members has all numbers.
LEMMA SetInduction ==
    ASSUME NEW T \in SUBSET Nat, 0 \in T, \A n \in T : n + 1 \in T
    PROVE  T = Nat
<1> DEFINE R == {ss \in Nat \X Nat : ss[1] < ss[2]}
           U == Nat \ T
<1>1. \A x, y \in Nat : <<x, y>> \in R <=> x < y
  OBVIOUS
<1>2. IsWellFoundedOn(R, Nat)
  BY NatLess
<1> HIDE DEF R
<1>3. SUFFICES ASSUME U # {} PROVE FALSE
  OBVIOUS
<1>4. U \subseteq Nat
  OBVIOUS
<1> HIDE DEF U
<1>5. PICK x \in U : \A y \in U : ~(<<y, x>> \in R)
  BY <1>2, <1>3, <1>4, WFMin
<1>6. x \in Nat /\ x # 0 /\ x \notin T
  BY <1>5 DEF U
<1>7. x - 1 \in Nat /\ x - 1 < x
  BY <1>6
<1>8. x - 1 \notin U
  BY <1>1, <1>4, <1>5, <1>7
<1>9. x - 1 \in T
  BY <1>7, <1>8 DEF U
<1>10. (x - 1) + 1 = x
  BY <1>6
<1> QED BY <1>6, <1>9, <1>10

\* What holds of no names, and of names with one more when it holds of them, holds
\* of all sequences of names.
LEMMA SeqInduction ==
    ASSUME NEW S, NEW T \in SUBSET Seq(S), <<>> \in T,
           \A s \in T : \A x \in S : Append(s, x) \in T
    PROVE  T = Seq(S)
<1> DEFINE N == {n \in Nat : \A s \in Seq(S) : Len(s) = n => s \in T}
<1>1. N \in SUBSET Nat
  OBVIOUS
<1>2. 0 \in N
  <2>1. \A s \in Seq(S) : Len(s) = 0 => s = <<>>
    BY EmptySeq
  <2> QED BY <2>1
<1>3. ASSUME NEW n \in N PROVE n + 1 \in N
  <2>1. n \in Nat /\ n + 1 \in Nat
    OBVIOUS
  <2>2. ASSUME NEW s \in Seq(S), Len(s) = n + 1 PROVE s \in T
    <3>1. s # <<>>
      BY <2>1, <2>2
    <3>2. PICK t \in Seq(S), x \in S : s = Append(t, x)
      BY <3>1, SequenceEmptyOrAppend
    <3>3. Len(t) = n
      BY <2>1, <2>2, <3>2
    <3>4. t \in T
      BY <3>3
    <3> QED BY <3>2, <3>4
  <2> QED BY <2>1, <2>2
<1> HIDE DEF N
<1>4. N = Nat
  BY <1>1, <1>2, <1>3, SetInduction
<1>5. ASSUME NEW s \in Seq(S) PROVE s \in T
  <2>1. Len(s) \in N
    BY <1>4
  <2> QED BY <2>1 DEF N
<1> QED BY <1>5

\* There is a function built up from 0 to m, each value from the one before.
Buildable(m, S, x, g) ==
    \E f \in [0..m -> S] : f[0] = x /\ \A n \in 1..m : f[n] = g[<<n, f[n - 1]>>]

\* There is always one.
LEMMA Recursion ==
    ASSUME NEW m \in Nat, NEW S, NEW x \in S, NEW g \in [(1..m) \X S -> S]
    PROVE  Buildable(m, S, x, g)
<1> DEFINE Built(k, f) == f[0] = x /\ \A n \in 1..k : f[n] = g[<<n, f[n - 1]>>]
           T == {k \in Nat : k <= m => \E f \in [0..k -> S] : Built(k, f)}
<1>1. 0 \in T
  <2>1. [n \in 0..0 |-> x] \in [0..0 -> S] /\ Built(0, [n \in 0..0 |-> x])
    OBVIOUS
  <2> QED BY <2>1
<1>2. ASSUME NEW k \in T PROVE k + 1 \in T
  <2>1. k \in Nat /\ k + 1 \in Nat
    OBVIOUS
  <2>2. ASSUME k + 1 <= m PROVE \E f \in [0..(k + 1) -> S] : Built(k + 1, f)
    <3>1. PICK f \in [0..k -> S] : Built(k, f)
      BY <2>1, <2>2
    <3> DEFINE h == [n \in 0..(k + 1) |-> IF n <= k THEN f[n] ELSE g[<<k + 1, f[k]>>]]
    <3>2. k + 1 \in 1..m /\ f[k] \in S /\ g[<<k + 1, f[k]>>] \in S
      BY <2>1, <2>2
    <3>3. h \in [0..(k + 1) -> S]
      BY <2>1, <3>2
    <3>4. \A n \in 0..k : h[n] = f[n]
      BY <2>1
    <3>5. h[k + 1] = g[<<k + 1, f[k]>>]
      BY <2>1
    <3> HIDE DEF h
    <3>6. ASSUME NEW n \in 1..(k + 1) PROVE h[n] = g[<<n, h[n - 1]>>]
      <4>1. CASE n = k + 1
        <5>1. n - 1 = k /\ k \in 0..k
          BY <2>1, <4>1
        <5> QED BY <3>4, <3>5, <4>1, <5>1
      <4>2. CASE n # k + 1
        <5>1. n \in 1..k /\ n \in 0..k /\ n - 1 \in 0..k
          BY <2>1, <4>2
        <5> QED BY <3>1, <3>4, <5>1
      <4> QED BY <4>1, <4>2
    <3>7. h[0] = x
      BY <2>1, <3>1, <3>4
    <3> QED BY <3>3, <3>6, <3>7
  <2> QED BY <2>1, <2>2
<1>3. T = Nat
  <2>1. T \in SUBSET Nat
    OBVIOUS
  <2> HIDE DEF T
  <2> QED BY <1>1, <1>2, <2>1, SetInduction
<1>4. m \in T
  BY <1>3
<1> QED BY <1>4 DEF Buildable

----------------------------------------------------------------------------
(* Only and Distinct go through a sequence, a name at a time.              *)

\* Every name there is.
W == Workspaces

\* f[n] is what step makes of the first n names of s.
Goes(f, s, step) ==
    /\ f \in [0..Len(s) -> Seq(W)]
    /\ f[0] = <<>>
    /\ \A n \in 1..Len(s) : f[n] = step[<<n, f[n - 1]>>]

\* A step that looks only at the name goes one way through what two sequences have
\* in common.
LEMMA GoesOneWay ==
    ASSUME NEW s \in Seq(W), NEW t \in Seq(W), NEW a, NEW b, NEW f, NEW g,
           Goes(f, s, a), Goes(g, t, b), Len(s) <= Len(t),
           \A n \in 1..Len(s) : \A x \in Seq(W) : a[<<n, x>>] = b[<<n, x>>]
    PROVE  \A n \in 0..Len(s) : f[n] = g[n]
<1> DEFINE T == {n \in Nat : n <= Len(s) => f[n] = g[n]}
<1>1. 0 \in T
  BY DEF Goes
<1>2. ASSUME NEW n \in T PROVE n + 1 \in T
  <2>1. n \in Nat /\ n + 1 \in Nat
    OBVIOUS
  <2>2. ASSUME n + 1 <= Len(s) PROVE f[n + 1] = g[n + 1]
    <3>1. n + 1 \in 1..Len(s) /\ n + 1 \in 1..Len(t) /\ (n + 1) - 1 = n /\ n <= Len(s)
      BY <2>1, <2>2
    <3>2. f[n] = g[n] /\ f[n] \in Seq(W)
      BY <2>1, <3>1 DEF Goes
    <3>3. f[n + 1] = a[<<n + 1, f[n]>>] /\ g[n + 1] = b[<<n + 1, g[n]>>]
      BY <3>1 DEF Goes
    <3> QED BY <3>1, <3>2, <3>3
  <2> QED BY <2>1, <2>2
<1>3. T = Nat
  <2>1. T \in SUBSET Nat
    OBVIOUS
  <2> HIDE DEF T
  <2> QED BY <1>1, <1>2, <2>1, SetInduction
<1> QED BY <1>3

----------------------------------------------------------------------------
(* Only: the names that are in a set, in their order.                      *)

\* One step of it.
Pick(s, S) == [p \in (1..Len(s)) \X Seq(W) |-> IF s[p[1]] \in S THEN Append(p[2], s[p[1]]) ELSE p[2]]

\* Only is what such a function makes of the whole sequence.
LEMMA OnlyGoes ==
    ASSUME NEW s \in Seq(W), NEW S
    PROVE  \E f : Goes(f, s, Pick(s, S)) /\ Only(s, S) = f[Len(s)]
<1> DEFINE m == Len(s)
           P(f) == f = [n \in 0..m |-> IF n = 0 THEN <<>> ELSE IF s[n] \in S THEN Append(f[n - 1], s[n]) ELSE f[n - 1]]
           names == CHOOSE f : P(f)
           g == Pick(s, S)
<1>1. Only(s, S) = names[m]
  BY DEF Only
<1>2. m \in Nat /\ \A n \in 1..m : s[n] \in W
  OBVIOUS
<1>3. ASSUME NEW n \in 1..m, NEW y \in Seq(W)
      PROVE  g[<<n, y>>] = IF s[n] \in S THEN Append(y, s[n]) ELSE y
  BY DEF Pick
<1>4. g \in [(1..m) \X Seq(W) -> Seq(W)]
  BY <1>2 DEF Pick
<1>5. PICK f \in [0..m -> Seq(W)] : f[0] = <<>> /\ \A n \in 1..m : f[n] = g[<<n, f[n - 1]>>]
  <2> DEFINE e == <<>>
             Q == Seq(W)
  <2>1. m \in Nat /\ e \in Q /\ g \in [(1..m) \X Q -> Q]
    BY <1>2, <1>4
  <2> HIDE DEF g, m, e, Q
  <2>2. Buildable(m, Q, e, g)
    BY <2>1, Recursion
  <2> QED BY <2>2 DEF e, Q, Buildable
<1> HIDE DEF g
<1>6. ASSUME NEW n \in 1..m
      PROVE  f[n] = IF s[n] \in S THEN Append(f[n - 1], s[n]) ELSE f[n - 1]
  <2>1. n - 1 \in 0..m
    BY <1>2
  <2> DEFINE y == f[n - 1]
  <2>2. y \in Seq(W)
    BY <2>1
  <2>3. f[n] = g[<<n, y>>]
    BY <1>5
  <2> HIDE DEF y
  <2>4. g[<<n, y>>] = IF s[n] \in S THEN Append(y, s[n]) ELSE y
    BY <1>3, <2>2
  <2> QED BY <2>3, <2>4 DEF y
<1>7. 0 \in 0..m /\ (\A n \in 0..m : n # 0 => n \in 1..m) /\ \A n \in 1..m : n \in 0..m /\ n # 0
  BY <1>2
<1> HIDE DEF m
<1>8. P(f)
  <2>1. \A n \in 0..m : f[n] = IF n = 0 THEN <<>> ELSE IF s[n] \in S THEN Append(f[n - 1], s[n]) ELSE f[n - 1]
    BY <1>5, <1>6, <1>7
  <2> QED BY <2>1
<1> HIDE DEF P
<1>9. P(names)
  BY <1>8
<1> HIDE DEF names
<1>10. names = [n \in 0..m |-> IF n = 0 THEN <<>> ELSE IF s[n] \in S THEN Append(names[n - 1], s[n]) ELSE names[n - 1]]
  BY <1>9 DEF P
<1> DEFINE N == {n \in Nat : n \in 0..m => names[n] \in Seq(W)}
<1>11. 0 \in N
  BY <1>2, <1>10
<1>12. ASSUME NEW n \in N PROVE n + 1 \in N
  <2>1. n \in Nat /\ n + 1 \in Nat
    OBVIOUS
  <2>2. ASSUME n + 1 \in 0..m PROVE names[n + 1] \in Seq(W)
    <3>1. n \in 0..m /\ n + 1 \in 1..m /\ n + 1 # 0 /\ (n + 1) - 1 = n
      BY <1>2, <2>1, <2>2
    <3>2. names[n] \in Seq(W) /\ s[n + 1] \in W
      BY <1>2, <3>1
    <3>3. names[n + 1] = IF s[n + 1] \in S THEN Append(names[n], s[n + 1]) ELSE names[n]
      BY <1>10, <2>2, <3>1
    <3> QED BY <3>2, <3>3
  <2> QED BY <2>1, <2>2
<1>13. N = Nat
  <2>1. N \in SUBSET Nat
    OBVIOUS
  <2> HIDE DEF N
  <2> QED BY <1>11, <1>12, <2>1, SetInduction
<1>14. ASSUME NEW n \in 0..m PROVE names[n] \in Seq(W)
  <2>1. n \in N
    BY <1>2, <1>13
  <2> QED BY <2>1
<1> HIDE DEF N
<1>15. names \in [0..m -> Seq(W)] /\ names[0] = <<>>
  BY <1>7, <1>10, <1>14
<1>16. ASSUME NEW n \in 1..m PROVE names[n] = g[<<n, names[n - 1]>>]
  <2>1. names[n] = IF s[n] \in S THEN Append(names[n - 1], s[n]) ELSE names[n - 1]
    BY <1>7, <1>10
  <2>2. names[n - 1] \in Seq(W)
    BY <1>2, <1>14
  <2> QED BY <1>3, <2>1, <2>2
<1>17. Goes(names, s, g)
  BY <1>15, <1>16 DEF Goes, m
<1> QED BY <1>1, <1>17 DEF m, g

\* Of no names there are none.
LEMMA OnlyEmpty == ASSUME NEW S PROVE Only(<<>>, S) = <<>>
<1>1. <<>> \in Seq(W) /\ Len(<<>>) = 0
  OBVIOUS
<1>2. PICK f : Goes(f, <<>>, Pick(<<>>, S)) /\ Only(<<>>, S) = f[Len(<<>>)]
  BY <1>1, OnlyGoes
<1> QED BY <1>1, <1>2 DEF Goes

\* The name that comes last is the last one of them, if it is in the set.
LEMMA OnlyAppend ==
    ASSUME NEW s \in Seq(W), NEW x \in W, NEW S
    PROVE  Only(Append(s, x), S) = IF x \in S THEN Append(Only(s, S), x) ELSE Only(s, S)
<1> DEFINE t == Append(s, x)
<1>1. /\ t \in Seq(W) /\ Len(t) = Len(s) + 1 /\ Len(s) \in Nat
      /\ \A n \in 1..Len(s) : s[n] = t[n]
      /\ t[Len(s) + 1] = x
  OBVIOUS
<1> HIDE DEF t
<1>2. PICK f : Goes(f, s, Pick(s, S)) /\ Only(s, S) = f[Len(s)]
  BY OnlyGoes
<1>3. PICK g : Goes(g, t, Pick(t, S)) /\ Only(t, S) = g[Len(t)]
  BY <1>1, OnlyGoes
<1>4. ASSUME NEW n \in 1..Len(s), NEW y \in Seq(W)
      PROVE  Pick(s, S)[<<n, y>>] = Pick(t, S)[<<n, y>>]
  <2>1. n \in 1..Len(t)
    BY <1>1
  <2> QED BY <1>1, <2>1 DEF Pick
<1>5. f[Len(s)] = g[Len(s)]
  <2>1. Len(s) <= Len(t) /\ Len(s) \in 0..Len(s)
    BY <1>1
  <2> QED BY <1>1, <1>2, <1>3, <1>4, <2>1, GoesOneWay
<1>6. Len(t) \in 1..Len(t) /\ Len(t) - 1 = Len(s) /\ f[Len(s)] \in Seq(W)
  BY <1>1, <1>2 DEF Goes
<1> DEFINE y == f[Len(s)]
<1>7. g[Len(t)] = Pick(t, S)[<<Len(t), y>>]
  BY <1>3, <1>5, <1>6 DEF Goes
<1>8. Pick(t, S)[<<Len(t), y>>] = IF t[Len(t)] \in S THEN Append(y, t[Len(t)]) ELSE y
  BY <1>6 DEF Pick
<1>9. y = Only(s, S) /\ t[Len(t)] = x
  BY <1>1, <1>2
<1> HIDE DEF y
<1>10. Only(t, S) = IF x \in S THEN Append(Only(s, S), x) ELSE Only(s, S)
  BY <1>3, <1>7, <1>8, <1>9
<1> QED BY <1>10 DEF t

\* They are names.
LEMMA OnlyType == ASSUME NEW s \in Seq(W), NEW S PROVE Only(s, S) \in Seq(W)
<1>1. PICK f : Goes(f, s, Pick(s, S)) /\ Only(s, S) = f[Len(s)]
  BY OnlyGoes
<1>2. Len(s) \in 0..Len(s)
  OBVIOUS
<1> QED BY <1>1, <1>2 DEF Goes

----------------------------------------------------------------------------
(* Distinct: the names of a sequence, each where it is first.              *)

\* One step of it.
AddNth(s) == [p \in (1..Len(s)) \X Seq(W) |-> AddName(p[2], s[p[1]])]

\* Distinct is what such a function makes of the whole sequence.
LEMMA DistinctGoes ==
    ASSUME NEW s \in Seq(W)
    PROVE  \E f : Goes(f, s, AddNth(s)) /\ Distinct(s) = f[Len(s)]
<1> DEFINE m == Len(s)
           P(f) == f = [n \in 0..m |-> IF n = 0 THEN <<>> ELSE AddName(f[n - 1], s[n])]
           names == CHOOSE f : P(f)
           g == AddNth(s)
<1>1. Distinct(s) = names[m]
  BY DEF Distinct
<1>2. m \in Nat /\ \A n \in 1..m : s[n] \in W
  OBVIOUS
<1>3. ASSUME NEW n \in 1..m, NEW y \in Seq(W)
      PROVE  g[<<n, y>>] = AddName(y, s[n])
  BY DEF AddNth
<1>4. g \in [(1..m) \X Seq(W) -> Seq(W)]
  BY <1>2 DEF AddNth, AddName
<1>5. PICK f \in [0..m -> Seq(W)] : f[0] = <<>> /\ \A n \in 1..m : f[n] = g[<<n, f[n - 1]>>]
  <2> DEFINE e == <<>>
             Q == Seq(W)
  <2>1. m \in Nat /\ e \in Q /\ g \in [(1..m) \X Q -> Q]
    BY <1>2, <1>4
  <2> HIDE DEF g, m, e, Q
  <2>2. Buildable(m, Q, e, g)
    BY <2>1, Recursion
  <2> QED BY <2>2 DEF e, Q, Buildable
<1> HIDE DEF g
<1>6. ASSUME NEW n \in 1..m
      PROVE  f[n] = AddName(f[n - 1], s[n])
  <2>1. n - 1 \in 0..m
    BY <1>2
  <2> DEFINE y == f[n - 1]
  <2>2. y \in Seq(W)
    BY <2>1
  <2>3. f[n] = g[<<n, y>>]
    BY <1>5
  <2> HIDE DEF y
  <2>4. g[<<n, y>>] = AddName(y, s[n])
    BY <1>3, <2>2
  <2> QED BY <2>3, <2>4 DEF y
<1>7. 0 \in 0..m /\ (\A n \in 0..m : n # 0 => n \in 1..m) /\ \A n \in 1..m : n \in 0..m /\ n # 0
  BY <1>2
<1> HIDE DEF m
<1>8. P(f)
  <2>1. \A n \in 0..m : f[n] = IF n = 0 THEN <<>> ELSE AddName(f[n - 1], s[n])
    BY <1>5, <1>6, <1>7
  <2> QED BY <2>1
<1> HIDE DEF P
<1>9. P(names)
  BY <1>8
<1> HIDE DEF names
<1>10. names = [n \in 0..m |-> IF n = 0 THEN <<>> ELSE AddName(names[n - 1], s[n])]
  BY <1>9 DEF P
<1> DEFINE N == {n \in Nat : n \in 0..m => names[n] \in Seq(W)}
<1>11. 0 \in N
  BY <1>2, <1>10
<1>12. ASSUME NEW n \in N PROVE n + 1 \in N
  <2>1. n \in Nat /\ n + 1 \in Nat
    OBVIOUS
  <2>2. ASSUME n + 1 \in 0..m PROVE names[n + 1] \in Seq(W)
    <3>1. n \in 0..m /\ n + 1 \in 1..m /\ n + 1 # 0 /\ (n + 1) - 1 = n
      BY <1>2, <2>1, <2>2
    <3>2. names[n] \in Seq(W) /\ s[n + 1] \in W
      BY <1>2, <3>1
    <3>3. names[n + 1] = AddName(names[n], s[n + 1])
      BY <1>10, <2>2, <3>1
    <3> QED BY <3>2, <3>3 DEF AddName
  <2> QED BY <2>1, <2>2
<1>13. N = Nat
  <2>1. N \in SUBSET Nat
    OBVIOUS
  <2> HIDE DEF N
  <2> QED BY <1>11, <1>12, <2>1, SetInduction
<1>14. ASSUME NEW n \in 0..m PROVE names[n] \in Seq(W)
  <2>1. n \in N
    BY <1>2, <1>13
  <2> QED BY <2>1
<1> HIDE DEF N
<1>15. names \in [0..m -> Seq(W)] /\ names[0] = <<>>
  BY <1>7, <1>10, <1>14
<1>16. ASSUME NEW n \in 1..m PROVE names[n] = g[<<n, names[n - 1]>>]
  <2>1. names[n] = AddName(names[n - 1], s[n])
    BY <1>7, <1>10
  <2>2. names[n - 1] \in Seq(W)
    BY <1>2, <1>14
  <2> QED BY <1>3, <2>1, <2>2
<1>17. Goes(names, s, g)
  BY <1>15, <1>16 DEF Goes, m
<1> QED BY <1>1, <1>17 DEF m, g

\* Of no names there are none.
LEMMA DistinctEmpty == Distinct(<<>>) = <<>>
<1>1. <<>> \in Seq(W) /\ Len(<<>>) = 0
  OBVIOUS
<1>2. PICK f : Goes(f, <<>>, AddNth(<<>>)) /\ Distinct(<<>>) = f[Len(<<>>)]
  BY <1>1, DistinctGoes
<1> QED BY <1>1, <1>2 DEF Goes

\* The name that comes last is added if it is new.
LEMMA DistinctAppend ==
    ASSUME NEW s \in Seq(W), NEW x \in W
    PROVE  Distinct(Append(s, x)) = AddName(Distinct(s), x)
<1> DEFINE t == Append(s, x)
<1>1. /\ t \in Seq(W) /\ Len(t) = Len(s) + 1 /\ Len(s) \in Nat
      /\ \A n \in 1..Len(s) : s[n] = t[n]
      /\ t[Len(s) + 1] = x
  OBVIOUS
<1> HIDE DEF t
<1>2. PICK f : Goes(f, s, AddNth(s)) /\ Distinct(s) = f[Len(s)]
  BY DistinctGoes
<1>3. PICK g : Goes(g, t, AddNth(t)) /\ Distinct(t) = g[Len(t)]
  BY <1>1, DistinctGoes
<1>4. ASSUME NEW n \in 1..Len(s), NEW y \in Seq(W)
      PROVE  AddNth(s)[<<n, y>>] = AddNth(t)[<<n, y>>]
  <2>1. n \in 1..Len(t)
    BY <1>1
  <2> QED BY <1>1, <2>1 DEF AddNth
<1>5. f[Len(s)] = g[Len(s)]
  <2>1. Len(s) <= Len(t) /\ Len(s) \in 0..Len(s)
    BY <1>1
  <2> QED BY <1>1, <1>2, <1>3, <1>4, <2>1, GoesOneWay
<1>6. Len(t) \in 1..Len(t) /\ Len(t) - 1 = Len(s) /\ f[Len(s)] \in Seq(W)
  BY <1>1, <1>2 DEF Goes
<1> DEFINE y == f[Len(s)]
<1>7. g[Len(t)] = AddNth(t)[<<Len(t), y>>]
  BY <1>3, <1>5, <1>6 DEF Goes
<1>8. AddNth(t)[<<Len(t), y>>] = AddName(y, t[Len(t)])
  BY <1>6 DEF AddNth
<1>9. y = Distinct(s) /\ t[Len(t)] = x
  BY <1>1, <1>2
<1> HIDE DEF y
<1>10. Distinct(t) = AddName(Distinct(s), x)
  BY <1>3, <1>7, <1>8, <1>9
<1> QED BY <1>10 DEF t

\* They are names.
LEMMA DistinctType == ASSUME NEW s \in Seq(W) PROVE Distinct(s) \in Seq(W)
<1>1. PICK f : Goes(f, s, AddNth(s)) /\ Distinct(s) = f[Len(s)]
  BY DistinctGoes
<1>2. Len(s) \in 0..Len(s)
  OBVIOUS
<1> QED BY <1>1, <1>2 DEF Goes

----------------------------------------------------------------------------
(* What they do to sequences.                                              *)

\* The names of no name, of one more, and of two sequences.
LEMMA ToSetAppend ==
    ASSUME NEW s \in Seq(W), NEW x
    PROVE  ToSet(Append(s, x)) = ToSet(s) \cup {x}
<1> DEFINE t == Append(s, x)
<1>1. /\ DOMAIN s = 1..Len(s) /\ Len(s) \in Nat /\ DOMAIN t = 1..(Len(s) + 1)
      /\ t[Len(s) + 1] = x /\ \A i \in 1..Len(s) : t[i] = s[i]
  OBVIOUS
<1> HIDE DEF t
<1>2. \A i \in 1..(Len(s) + 1) : i \in 1..Len(s) \/ i = Len(s) + 1
  BY <1>1
<1>3. \A i \in 1..Len(s) : i \in 1..(Len(s) + 1)
  BY <1>1
<1>4. Len(s) + 1 \in 1..(Len(s) + 1)
  BY <1>1
<1>5. ToSet(t) = ToSet(s) \cup {x}
  BY <1>1, <1>2, <1>3, <1>4 DEF ToSet
<1> QED BY <1>5 DEF t

\* Nothing is in the empty sequence.
LEMMA ToSetEmpty == ToSet(<<>>) = {}
BY DEF ToSet

\* What is in a sequence of names is a name.
LEMMA ToSetIn == ASSUME NEW s \in Seq(W) PROVE ToSet(s) \subseteq W
BY DEF ToSet

\* A sequence without repetitions has none after a new name.
LEMMA InjectiveAppend ==
    ASSUME NEW s \in Seq(W), NEW x
    PROVE  IsInjective(Append(s, x)) <=> IsInjective(s) /\ x \notin ToSet(s)
<1> DEFINE t == Append(s, x)
<1>1. /\ DOMAIN s = 1..Len(s) /\ Len(s) \in Nat /\ DOMAIN t = 1..(Len(s) + 1)
      /\ t[Len(s) + 1] = x /\ \A i \in 1..Len(s) : t[i] = s[i]
  OBVIOUS
<1> HIDE DEF t
<1>2. \A i \in 1..(Len(s) + 1) : i \in 1..Len(s) \/ i = Len(s) + 1
  BY <1>1
<1>3. \A i \in 1..Len(s) : i \in 1..(Len(s) + 1) /\ i # Len(s) + 1
  BY <1>1
<1>4. Len(s) + 1 \in 1..(Len(s) + 1)
  BY <1>1
<1>5. ASSUME IsInjective(t) PROVE IsInjective(s) /\ x \notin ToSet(s)
  BY <1>1, <1>3, <1>4, <1>5 DEF IsInjective, ToSet
<1>6. ASSUME IsInjective(s), x \notin ToSet(s) PROVE IsInjective(t)
  BY <1>1, <1>2, <1>6 DEF IsInjective, ToSet
<1> QED BY <1>5, <1>6 DEF t

\* The empty sequence repeats nothing.
LEMMA InjectiveEmpty == IsInjective(<<>>)
BY DEF IsInjective

\* Appending to the second of two sequences appends to both of them.
LEMMA ConcatAppend ==
    ASSUME NEW s \in Seq(W), NEW t \in Seq(W), NEW x \in W
    PROVE  /\ s \o Append(t, x) = Append(s \o t, x)
           /\ s \o t \in Seq(W) /\ Append(t, x) \in Seq(W)
OBVIOUS

\* The empty sequence adds nothing.
LEMMA ConcatNone ==
    ASSUME NEW s \in Seq(W) PROVE s \o <<>> = s /\ <<>> \o s = s
OBVIOUS

\* The names of two sequences one after the other.
LEMMA ToSetConcat ==
    ASSUME NEW s \in Seq(W), NEW t \in Seq(W)
    PROVE  ToSet(s \o t) = ToSet(s) \cup ToSet(t)
<1> DEFINE T == {r \in Seq(W) : ToSet(s \o r) = ToSet(s) \cup ToSet(r)}
<1>1. <<>> \in T
  BY ConcatNone, ToSetEmpty
<1>2. ASSUME NEW r \in T, NEW x \in W PROVE Append(r, x) \in T
  <2>1. r \in Seq(W) /\ Append(r, x) \in Seq(W)
    OBVIOUS
  <2>2. ToSet(s \o r) = ToSet(s) \cup ToSet(r)
    OBVIOUS
  <2>3. s \o Append(r, x) = Append(s \o r, x) /\ s \o r \in Seq(W)
    BY <2>1, ConcatAppend
  <2>4. ToSet(Append(s \o r, x)) = ToSet(s \o r) \cup {x}
    BY <2>3, ToSetAppend
  <2>5. ToSet(Append(r, x)) = ToSet(r) \cup {x}
    BY <2>1, ToSetAppend
  <2> QED BY <2>1, <2>2, <2>3, <2>4, <2>5
<1>3. T = Seq(W)
  <2>1. T \in SUBSET Seq(W)
    OBVIOUS
  <2> HIDE DEF T
  <2> QED BY <1>1, <1>2, <2>1, SeqInduction
<1> QED BY <1>3

\* Only keeps what is in the set.
LEMMA OnlyToSet ==
    ASSUME NEW s \in Seq(W), NEW S
    PROVE  ToSet(Only(s, S)) = ToSet(s) \cap S
<1> DEFINE T == {r \in Seq(W) : ToSet(Only(r, S)) = ToSet(r) \cap S}
<1>1. <<>> \in T
  BY OnlyEmpty, ToSetEmpty
<1>2. ASSUME NEW r \in T, NEW x \in W PROVE Append(r, x) \in T
  <2>1. r \in Seq(W) /\ Append(r, x) \in Seq(W)
    OBVIOUS
  <2>2. ToSet(Only(r, S)) = ToSet(r) \cap S /\ Only(r, S) \in Seq(W)
    BY <2>1, OnlyType
  <2>3. Only(Append(r, x), S) = IF x \in S THEN Append(Only(r, S), x) ELSE Only(r, S)
    BY <2>1, OnlyAppend
  <2>4. ToSet(Append(Only(r, S), x)) = ToSet(Only(r, S)) \cup {x}
    BY <2>2, ToSetAppend
  <2>5. ToSet(Append(r, x)) = ToSet(r) \cup {x}
    BY <2>1, ToSetAppend
  <2>6. ToSet(Only(Append(r, x), S)) = ToSet(Append(r, x)) \cap S
    BY <2>2, <2>3, <2>4, <2>5
  <2> QED BY <2>1, <2>6
<1>3. T = Seq(W)
  <2>1. T \in SUBSET Seq(W)
    OBVIOUS
  <2> HIDE DEF T
  <2> QED BY <1>1, <1>2, <2>1, SeqInduction
<1> QED BY <1>3

\* Distinct loses no name.
LEMMA DistinctToSet ==
    ASSUME NEW s \in Seq(W)
    PROVE  ToSet(Distinct(s)) = ToSet(s)
<1> DEFINE T == {r \in Seq(W) : ToSet(Distinct(r)) = ToSet(r)}
<1>1. <<>> \in T
  BY DistinctEmpty, ToSetEmpty
<1>2. ASSUME NEW r \in T, NEW x \in W PROVE Append(r, x) \in T
  <2>1. r \in Seq(W) /\ Append(r, x) \in Seq(W)
    OBVIOUS
  <2>2. ToSet(Distinct(r)) = ToSet(r) /\ Distinct(r) \in Seq(W)
    BY <2>1, DistinctType
  <2>3. Distinct(Append(r, x)) = AddName(Distinct(r), x)
    BY <2>1, DistinctAppend
  <2>4. ToSet(Append(Distinct(r), x)) = ToSet(Distinct(r)) \cup {x}
    BY <2>2, ToSetAppend
  <2>5. ToSet(Append(r, x)) = ToSet(r) \cup {x}
    BY <2>1, ToSetAppend
  <2>6. ToSet(Distinct(Append(r, x))) = ToSet(Append(r, x))
    BY <2>2, <2>3, <2>4, <2>5 DEF AddName
  <2> QED BY <2>1, <2>6
<1>3. T = Seq(W)
  <2>1. T \in SUBSET Seq(W)
    OBVIOUS
  <2> HIDE DEF T
  <2> QED BY <1>1, <1>2, <2>1, SeqInduction
<1> QED BY <1>3

\* Only repeats no name that was not repeated.
LEMMA OnlyInjective ==
    ASSUME NEW s \in Seq(W), NEW S
    PROVE  IsInjective(s) => IsInjective(Only(s, S))
<1> DEFINE T == {r \in Seq(W) : IsInjective(r) => IsInjective(Only(r, S))}
<1>1. <<>> \in T
  BY OnlyEmpty, InjectiveEmpty
<1>2. ASSUME NEW r \in T, NEW x \in W PROVE Append(r, x) \in T
  <2>1. r \in Seq(W) /\ Append(r, x) \in Seq(W)
    OBVIOUS
  <2>2. (IsInjective(r) => IsInjective(Only(r, S))) /\ Only(r, S) \in Seq(W)
    BY <2>1, OnlyType
  <2>3. Only(Append(r, x), S) = IF x \in S THEN Append(Only(r, S), x) ELSE Only(r, S)
    BY <2>1, OnlyAppend
  <2>4. IsInjective(Append(Only(r, S), x)) <=> IsInjective(Only(r, S)) /\ x \notin ToSet(Only(r, S))
    BY <2>2, InjectiveAppend
  <2>5. IsInjective(Append(r, x)) <=> IsInjective(r) /\ x \notin ToSet(r)
    BY <2>1, InjectiveAppend
  <2>6. ToSet(Only(r, S)) \subseteq ToSet(r)
    BY <2>1, OnlyToSet
  <2>7. IsInjective(Append(r, x)) => IsInjective(Only(Append(r, x), S))
    BY <2>2, <2>3, <2>4, <2>5, <2>6
  <2> QED BY <2>1, <2>7
<1>3. T = Seq(W)
  <2>1. T \in SUBSET Seq(W)
    OBVIOUS
  <2> HIDE DEF T
  <2> QED BY <1>1, <1>2, <2>1, SeqInduction
<1> QED BY <1>3

\* Distinct repeats none.
LEMMA DistinctInjective ==
    ASSUME NEW s \in Seq(W)
    PROVE  IsInjective(Distinct(s))
<1> DEFINE T == {r \in Seq(W) : IsInjective(Distinct(r))}
<1>1. <<>> \in T
  BY DistinctEmpty, InjectiveEmpty
<1>2. ASSUME NEW r \in T, NEW x \in W PROVE Append(r, x) \in T
  <2>1. r \in Seq(W) /\ Append(r, x) \in Seq(W)
    OBVIOUS
  <2>2. IsInjective(Distinct(r)) /\ Distinct(r) \in Seq(W)
    BY <2>1, DistinctType
  <2>3. Distinct(Append(r, x)) = AddName(Distinct(r), x)
    BY <2>1, DistinctAppend
  <2>4. IsInjective(Append(Distinct(r), x)) <=> IsInjective(Distinct(r)) /\ x \notin ToSet(Distinct(r))
    BY <2>2, InjectiveAppend
  <2>5. IsInjective(Distinct(Append(r, x)))
    BY <2>2, <2>3, <2>4 DEF AddName
  <2> QED BY <2>1, <2>5
<1>3. T = Seq(W)
  <2>1. T \in SUBSET Seq(W)
    OBVIOUS
  <2> HIDE DEF T
  <2> QED BY <1>1, <1>2, <2>1, SeqInduction
<1> QED BY <1>3

\* Nor do two sequences without a name in common.
LEMMA ConcatInjective ==
    ASSUME NEW s \in Seq(W), NEW t \in Seq(W), IsInjective(s), IsInjective(t),
           ToSet(s) \cap ToSet(t) = {}
    PROVE  IsInjective(s \o t)
<1> DEFINE T == {r \in Seq(W) : IsInjective(r) /\ ToSet(s) \cap ToSet(r) = {} => IsInjective(s \o r)}
<1>1. <<>> \in T
  BY ConcatNone
<1>2. ASSUME NEW r \in T, NEW x \in W PROVE Append(r, x) \in T
  <2>1. r \in Seq(W) /\ Append(r, x) \in Seq(W)
    OBVIOUS
  <2>2. IsInjective(r) /\ ToSet(s) \cap ToSet(r) = {} => IsInjective(s \o r)
    OBVIOUS
  <2>3. s \o Append(r, x) = Append(s \o r, x) /\ s \o r \in Seq(W)
    BY <2>1, ConcatAppend
  <2>4. IsInjective(Append(s \o r, x)) <=> IsInjective(s \o r) /\ x \notin ToSet(s \o r)
    BY <2>3, InjectiveAppend
  <2>5. IsInjective(Append(r, x)) <=> IsInjective(r) /\ x \notin ToSet(r)
    BY <2>1, InjectiveAppend
  <2>6. ToSet(Append(r, x)) = ToSet(r) \cup {x} /\ ToSet(s \o r) = ToSet(s) \cup ToSet(r)
    BY <2>1, ToSetAppend, ToSetConcat
  <2>7. IsInjective(Append(r, x)) /\ ToSet(s) \cap ToSet(Append(r, x)) = {}
          => IsInjective(s \o Append(r, x))
    BY <2>2, <2>3, <2>4, <2>5, <2>6
  <2> QED BY <2>1, <2>7
<1>3. T = Seq(W)
  <2>1. T \in SUBSET Seq(W)
    OBVIOUS
  <2> HIDE DEF T
  <2> QED BY <1>1, <1>2, <2>1, SeqInduction
<1> QED BY <1>3

\* Only goes through two sequences one after the other.
LEMMA OnlyConcat ==
    ASSUME NEW s \in Seq(W), NEW t \in Seq(W), NEW S
    PROVE  Only(s \o t, S) = Only(s, S) \o Only(t, S)
<1> DEFINE T == {r \in Seq(W) : Only(s \o r, S) = Only(s, S) \o Only(r, S)}
<1>1. <<>> \in T
  BY ConcatNone, OnlyEmpty, OnlyType
<1>2. ASSUME NEW r \in T, NEW x \in W PROVE Append(r, x) \in T
  <2>1. r \in Seq(W) /\ Append(r, x) \in Seq(W)
    OBVIOUS
  <2> DEFINE o == Only(s, S)
             q == Only(r, S)
  <2>2. Only(s \o r, S) = o \o q /\ o \in Seq(W) /\ q \in Seq(W)
    BY <2>1, OnlyType
  <2>3. s \o Append(r, x) = Append(s \o r, x) /\ s \o r \in Seq(W)
    BY <2>1, ConcatAppend
  <2>4. Only(Append(s \o r, x), S) = IF x \in S THEN Append(o \o q, x) ELSE o \o q
    <3> DEFINE u == s \o r
    <3>1. u \in Seq(W) /\ Only(u, S) = o \o q
      BY <2>2, <2>3
    <3> HIDE DEF u, o, q
    <3>2. Only(Append(u, x), S) = IF x \in S THEN Append(Only(u, S), x) ELSE Only(u, S)
      BY ONLY <3>1, x \in W, OnlyAppend, Zenon
    <3> QED BY <3>1, <3>2 DEF u
  <2>5. Only(Append(r, x), S) = IF x \in S THEN Append(q, x) ELSE q
    BY <2>1, OnlyAppend
  <2> HIDE DEF o, q
  <2>6. o \o Append(q, x) = Append(o \o q, x)
    BY <2>2, ConcatAppend
  <2>7. Only(s \o Append(r, x), S) = o \o Only(Append(r, x), S)
    BY <2>3, <2>4, <2>5, <2>6
  <2> QED BY <2>1, <2>7 DEF o
<1>3. T = Seq(W)
  <2>1. T \in SUBSET Seq(W)
    OBVIOUS
  <2> HIDE DEF T
  <2> QED BY <1>1, <1>2, <2>1, SeqInduction
<1> QED BY <1>3

\* What is in one set and then in another is in both.
LEMMA OnlyOnly ==
    ASSUME NEW s \in Seq(W), NEW S, NEW R
    PROVE  Only(Only(s, S), R) = Only(s, S \cap R)
<1> DEFINE T == {r \in Seq(W) : Only(Only(r, S), R) = Only(r, S \cap R)}
<1>1. <<>> \in T
  BY OnlyEmpty
<1>2. ASSUME NEW r \in T, NEW x \in W PROVE Append(r, x) \in T
  <2>1. r \in Seq(W) /\ Only(Only(r, S), R) = Only(r, S \cap R) /\ Only(r, S) \in Seq(W)
    BY OnlyType
  <2> DEFINE o == Only(r, S)
             V == S \cap R
  <2>2. Only(Append(r, x), V) = IF x \in V THEN Append(Only(r, V), x) ELSE Only(r, V)
    BY <2>1, OnlyAppend
  <2>3. Only(Append(r, x), S) = IF x \in S THEN Append(o, x) ELSE o
    BY <2>1, OnlyAppend
  <2>4. Only(Append(o, x), R) = IF x \in R THEN Append(Only(o, R), x) ELSE Only(o, R)
    BY <2>1, OnlyAppend
  <2>5. Only(Only(Append(r, x), S), R) = Only(Append(r, x), V)
    <3>1. x \in V <=> x \in S /\ x \in R
      OBVIOUS
    <3>2. Only(o, R) = Only(r, V)
      BY <2>1
    <3> HIDE DEF o, V
    <3> QED BY <2>2, <2>3, <2>4, <3>1, <3>2
  <2>6. Append(r, x) \in Seq(W)
    BY <2>1
  <2> QED BY <2>5, <2>6
<1>3. T = Seq(W)
  <2>1. T \in SUBSET Seq(W)
    OBVIOUS
  <2> HIDE DEF T
  <2> QED BY <1>1, <1>2, <2>1, SeqInduction
<1> QED BY <1>3

\* Only looks at no name that is not there.
LEMMA OnlySame ==
    ASSUME NEW s \in Seq(W), NEW S, NEW R, ToSet(s) \cap S = ToSet(s) \cap R
    PROVE  Only(s, S) = Only(s, R)
<1> DEFINE T == {r \in Seq(W) : ToSet(r) \cap S = ToSet(r) \cap R => Only(r, S) = Only(r, R)}
<1>1. <<>> \in T
  BY OnlyEmpty
<1>2. ASSUME NEW r \in T, NEW x \in W PROVE Append(r, x) \in T
  <2>1. r \in Seq(W) /\ (ToSet(r) \cap S = ToSet(r) \cap R => Only(r, S) = Only(r, R))
    OBVIOUS
  <2>2. ASSUME ToSet(Append(r, x)) \cap S = ToSet(Append(r, x)) \cap R
        PROVE  Only(Append(r, x), S) = Only(Append(r, x), R)
    <3>1. ToSet(Append(r, x)) = ToSet(r) \cup {x}
      BY <2>1, ToSetAppend
    <3>2. (x \in S <=> x \in R) /\ ToSet(r) \cap S = ToSet(r) \cap R
      BY <2>2, <3>1
    <3>3. Only(r, S) = Only(r, R)
      BY <2>1, <3>2
    <3>4. Only(Append(r, x), S) = IF x \in S THEN Append(Only(r, S), x) ELSE Only(r, S)
      BY <2>1, OnlyAppend
    <3>5. Only(Append(r, x), R) = IF x \in R THEN Append(Only(r, R), x) ELSE Only(r, R)
      BY <2>1, OnlyAppend
    <3> QED BY <3>2, <3>3, <3>4, <3>5
  <2>3. Append(r, x) \in Seq(W)
    BY <2>1
  <2> QED BY <2>2, <2>3
<1>3. T = Seq(W)
  <2>1. T \in SUBSET Seq(W)
    OBVIOUS
  <2> HIDE DEF T
  <2> QED BY <1>1, <1>2, <2>1, SeqInduction
<1> QED BY <1>3

\* Where all are in the set, all are kept.
LEMMA OnlyAll ==
    ASSUME NEW s \in Seq(W), NEW S, ToSet(s) \subseteq S
    PROVE  Only(s, S) = s
<1> DEFINE T == {r \in Seq(W) : ToSet(r) \subseteq S => Only(r, S) = r}
<1>1. <<>> \in T
  BY OnlyEmpty
<1>2. ASSUME NEW r \in T, NEW x \in W PROVE Append(r, x) \in T
  <2>1. r \in Seq(W) /\ Append(r, x) \in Seq(W)
    OBVIOUS
  <2>2. Only(Append(r, x), S) = IF x \in S THEN Append(Only(r, S), x) ELSE Only(r, S)
    BY <2>1, OnlyAppend
  <2>3. ToSet(Append(r, x)) = ToSet(r) \cup {x}
    BY <2>1, ToSetAppend
  <2>4. ToSet(Append(r, x)) \subseteq S => Only(Append(r, x), S) = Append(r, x)
    BY <2>2, <2>3
  <2> QED BY <2>1, <2>4
<1>3. T = Seq(W)
  <2>1. T \in SUBSET Seq(W)
    OBVIOUS
  <2> HIDE DEF T
  <2> QED BY <1>1, <1>2, <2>1, SeqInduction
<1> QED BY <1>3

\* Where none is, none is.
LEMMA OnlyNone ==
    ASSUME NEW s \in Seq(W), NEW S, ToSet(s) \cap S = {}
    PROVE  Only(s, S) = <<>>
<1> DEFINE T == {r \in Seq(W) : ToSet(r) \cap S = {} => Only(r, S) = <<>>}
<1>1. <<>> \in T
  BY OnlyEmpty
<1>2. ASSUME NEW r \in T, NEW x \in W PROVE Append(r, x) \in T
  <2>1. r \in Seq(W) /\ Append(r, x) \in Seq(W)
    OBVIOUS
  <2>2. Only(Append(r, x), S) = IF x \in S THEN Append(Only(r, S), x) ELSE Only(r, S)
    BY <2>1, OnlyAppend
  <2>3. ToSet(Append(r, x)) = ToSet(r) \cup {x}
    BY <2>1, ToSetAppend
  <2>4. ToSet(Append(r, x)) \cap S = {} => Only(Append(r, x), S) = <<>>
    BY <2>2, <2>3
  <2> QED BY <2>1, <2>4
<1>3. T = Seq(W)
  <2>1. T \in SUBSET Seq(W)
    OBVIOUS
  <2> HIDE DEF T
  <2> QED BY <1>1, <1>2, <2>1, SeqInduction
<1> QED BY <1>3

\* Distinct and Only can change places.
LEMMA DistinctOnly ==
    ASSUME NEW s \in Seq(W), NEW S
    PROVE  Distinct(Only(s, S)) = Only(Distinct(s), S)
<1> DEFINE T == {r \in Seq(W) : Distinct(Only(r, S)) = Only(Distinct(r), S)}
<1>1. <<>> \in T
  BY OnlyEmpty, DistinctEmpty
<1>2. ASSUME NEW r \in T, NEW x \in W PROVE Append(r, x) \in T
  <2>1. r \in Seq(W) /\ Distinct(Only(r, S)) = Only(Distinct(r), S)
    OBVIOUS
  <2>2. Only(r, S) \in Seq(W) /\ Distinct(r) \in Seq(W) /\ Append(r, x) \in Seq(W)
    BY <2>1, OnlyType, DistinctType
  <2>3. CASE x \in S
    <3> DEFINE o == Only(r, S)
               d == Distinct(r)
    <3>1. (x \in ToSet(o) <=> x \in ToSet(r)) /\ ToSet(d) = ToSet(r) /\ ToSet(Distinct(o)) = ToSet(o)
      BY <2>1, <2>2, <2>3, OnlyToSet, DistinctToSet
    <3>2. Only(Append(r, x), S) = Append(o, x)
      BY <2>1, <2>3, OnlyAppend
    <3>3. Distinct(Append(o, x)) = AddName(Distinct(o), x)
      BY <2>2, DistinctAppend
    <3>4. Distinct(Append(r, x)) = AddName(d, x)
      BY <2>1, DistinctAppend
    <3>5. Only(Append(d, x), S) = Append(Only(d, S), x)
      BY <2>2, <2>3, OnlyAppend
    <3>6. Distinct(o) = Only(d, S)
      BY <2>1
    <3> HIDE DEF o, d
    <3>7. Distinct(Only(Append(r, x), S)) = Only(Distinct(Append(r, x)), S)
      BY <3>1, <3>2, <3>3, <3>4, <3>5, <3>6 DEF AddName
    <3> QED BY <2>2, <3>7
  <2>4. CASE x \notin S
    <3>1. Only(Append(r, x), S) = Only(r, S)
      BY <2>1, <2>4, OnlyAppend
    <3>2. Only(Append(Distinct(r), x), S) = Only(Distinct(r), S)
      BY <2>2, <2>4, OnlyAppend
    <3>3. Only(Distinct(Append(r, x)), S) = Only(Distinct(r), S)
      BY <2>1, <3>2, DistinctAppend DEF AddName
    <3> QED BY <2>1, <2>2, <3>1, <3>3
  <2> QED BY <2>3, <2>4
<1>3. T = Seq(W)
  <2>1. T \in SUBSET Seq(W)
    OBVIOUS
  <2> HIDE DEF T
  <2> QED BY <1>1, <1>2, <2>1, SeqInduction
<1> QED BY <1>3

\* Of the second of two sequences Distinct leaves what the first does not have.
LEMMA DistinctConcat ==
    ASSUME NEW s \in Seq(W), NEW t \in Seq(W)
    PROVE  Distinct(s \o t) = Distinct(s) \o Only(Distinct(t), W \ ToSet(s))
<1> DEFINE T == {r \in Seq(W) : Distinct(s \o r) = Distinct(s) \o Only(Distinct(r), W \ ToSet(s))}
<1>1. <<>> \in T
  BY ConcatNone, OnlyEmpty, DistinctEmpty, DistinctType
<1>2. ASSUME NEW r \in T, NEW x \in W PROVE Append(r, x) \in T
  <2> DEFINE R == W \ ToSet(s)
  <2>1. r \in Seq(W) /\ Distinct(s \o r) = Distinct(s) \o Only(Distinct(r), R)
    OBVIOUS
  <2> HIDE DEF T
  <2>2. /\ Distinct(s) \in Seq(W) /\ Distinct(r) \in Seq(W) /\ Only(Distinct(r), R) \in Seq(W)
        /\ s \o r \in Seq(W) /\ Append(r, x) \in Seq(W)
    BY <2>1, OnlyType, DistinctType, ConcatAppend
  <2>3. Distinct(s \o Append(r, x)) = AddName(Distinct(s \o r), x)
    <3>1. s \o Append(r, x) = Append(s \o r, x)
      BY <2>1, ConcatAppend
    <3>2. Distinct(Append(s \o r, x)) = AddName(Distinct(s \o r), x)
      BY ONLY <2>2, x \in W, DistinctAppend, Zenon
    <3> QED BY <3>1, <3>2
  <2>4. ToSet(Distinct(s \o r)) = ToSet(s) \cup ToSet(r) /\ ToSet(Distinct(r)) = ToSet(r)
    BY <2>1, <2>2, DistinctToSet, ToSetConcat
  <2>5. Distinct(Append(r, x)) = AddName(Distinct(r), x)
    BY <2>1, DistinctAppend
  <2>6. Distinct(s \o Append(r, x)) = Distinct(s) \o Only(Distinct(Append(r, x)), R)
    <3>1. CASE x \in ToSet(r)
      BY <2>1, <2>3, <2>4, <2>5, <3>1 DEF AddName
    <3>2. CASE x \notin ToSet(r) /\ x \in ToSet(s)
      <4>1. Only(Append(Distinct(r), x), R) = Only(Distinct(r), R)
        BY <2>2, <3>2, OnlyAppend
      <4> QED BY <2>1, <2>3, <2>4, <2>5, <3>2, <4>1 DEF AddName
    <3>3. CASE x \notin ToSet(r) /\ x \notin ToSet(s)
      <4>1. Only(Append(Distinct(r), x), R) = Append(Only(Distinct(r), R), x)
        <5> DEFINE d == Distinct(r)
        <5>1. x \in R /\ d \in Seq(W)
          BY <2>2, <3>3
        <5> HIDE DEF d, R
        <5>2. Only(Append(d, x), R) = Append(Only(d, R), x)
          BY <5>1, OnlyAppend
        <5> QED BY <5>2 DEF d
      <4>2. Distinct(s \o Append(r, x)) = Append(Distinct(s) \o Only(Distinct(r), R), x)
        BY <2>1, <2>3, <2>4, <3>3 DEF AddName
      <4>3. Distinct(Append(r, x)) = Append(Distinct(r), x)
        BY <2>4, <2>5, <3>3 DEF AddName
      <4> DEFINE d == Distinct(s)
                 o == Only(Distinct(r), R)
      <4>4. d \in Seq(W) /\ o \in Seq(W)
        BY <2>2
      <4>5. Distinct(s \o Append(r, x)) = Append(d \o o, x)
        BY <4>2
      <4>6. Only(Distinct(Append(r, x)), R) = Append(o, x)
        BY <4>1, <4>3
      <4> HIDE DEF o
      <4>7. d \o Append(o, x) = Append(d \o o, x)
        BY <4>4, ConcatAppend
      <4> QED BY <4>5, <4>6, <4>7
    <3> QED BY <3>1, <3>2, <3>3
  <2> QED BY <2>2, <2>6 DEF T
<1>3. T = Seq(W)
  <2>1. T \in SUBSET Seq(W)
    OBVIOUS
  <2> HIDE DEF T
  <2> QED BY <1>1, <1>2, <2>1, SeqInduction
<1> QED BY <1>3

\* Distinct changes nothing where nothing is repeated.
LEMMA DistinctSame ==
    ASSUME NEW s \in Seq(W), IsInjective(s)
    PROVE  Distinct(s) = s
<1> DEFINE T == {r \in Seq(W) : IsInjective(r) => Distinct(r) = r}
<1>1. <<>> \in T
  BY DistinctEmpty
<1>2. ASSUME NEW r \in T, NEW x \in W PROVE Append(r, x) \in T
  <2>1. r \in Seq(W) /\ Append(r, x) \in Seq(W)
    OBVIOUS
  <2>2. Distinct(Append(r, x)) = AddName(Distinct(r), x)
    BY <2>1, DistinctAppend
  <2>3. IsInjective(Append(r, x)) <=> IsInjective(r) /\ x \notin ToSet(r)
    BY <2>1, InjectiveAppend
  <2>4. IsInjective(Append(r, x)) => Distinct(Append(r, x)) = Append(r, x)
    BY <2>2, <2>3 DEF AddName
  <2> QED BY <2>1, <2>4
<1>3. T = Seq(W)
  <2>1. T \in SUBSET Seq(W)
    OBVIOUS
  <2> HIDE DEF T
  <2> QED BY <1>1, <1>2, <2>1, SeqInduction
<1> QED BY <1>3

----------------------------------------------------------------------------
(* The list.                                                               *)

\* Overrides whose sequences may have any length.
Overrides == [order : Seq(W), hidden : SUBSET W, remembered : Seq(W)]

\* What is merged, before the order is applied.
Merged(ws, o) == Distinct(configured \o Live(ws) \o o.remembered)

\* The alphabetical list of those that have windows.
LEMMA LiveIs ==
    ASSUME NEW ws \in SUBSET W
    PROVE  Live(ws) \in Seq(W) /\ ToSet(Live(ws)) = ws
<1>1. Names \in Seq(W) /\ ToSet(Names) = W
  BY NamesAssumption DEF W, Workspaces
<1>2. Only(Names, ws) \in Seq(W) /\ ToSet(Only(Names, ws)) = ToSet(Names) \cap ws
  BY <1>1, OnlyType, OnlyToSet
<1> QED BY <1>1, <1>2 DEF Live

\* Three lists are merged without repetition.
LEMMA MergedIs ==
    ASSUME configured \in Configs, NEW ws \in SUBSET W, NEW o \in Overrides
    PROVE  /\ Merged(ws, o) \in Seq(W) /\ IsInjective(Merged(ws, o))
           /\ ToSet(Merged(ws, o)) = ToSet(configured) \cup ws \cup ToSet(o.remembered)
           /\ configured \in Seq(W) /\ Live(ws) \in Seq(W) /\ o.remembered \in Seq(W)
<1>1. configured \in Seq(W) /\ o.remembered \in Seq(W)
  BY NamesAssumption DEF W, Overrides
<1>2. Live(ws) \in Seq(W) /\ ToSet(Live(ws)) = ws
  BY LiveIs
<1> DEFINE l == Live(ws)
           r == o.remembered
<1> HIDE DEF l
<1>3. configured \o l \in Seq(W) /\ ToSet(configured \o l) = ToSet(configured) \cup ToSet(l)
  BY <1>1, <1>2, ToSetConcat DEF l
<1> DEFINE cl == configured \o l
<1>4. /\ cl \in Seq(W) /\ r \in Seq(W)
      /\ ToSet(cl) = ToSet(configured) \cup ToSet(l)
  BY <1>1, <1>3
<1> HIDE DEF r, cl
<1>5. cl \o r \in Seq(W) /\ ToSet(cl \o r) = ToSet(cl) \cup ToSet(r)
  BY <1>4, ToSetConcat
<1> DEFINE m == Distinct(cl \o r)
<1>6. m \in Seq(W) /\ IsInjective(m) /\ ToSet(m) = ToSet(cl \o r)
  BY <1>5, DistinctType, DistinctInjective, DistinctToSet
<1>7. m = Merged(ws, o)
  BY DEF Merged, cl, l, r
<1> HIDE DEF m
<1> QED BY <1>1, <1>2, <1>4, <1>5, <1>6, <1>7 DEF l, r

\* The order moves names, and neither introduces nor repeats one.
LEMMA OrderedIs ==
    ASSUME NEW m \in Seq(W), IsInjective(m), NEW order \in Seq(W)
    PROVE  /\ Ordered(m, order) \in Seq(W) /\ IsInjective(Ordered(m, order))
           /\ ToSet(Ordered(m, order)) = ToSet(m)
<1> DEFINE o == Only(order, ToSet(m))
           a == Distinct(o)
           b == Only(m, W \ ToSet(order))
<1>1. ToSet(order) \subseteq W /\ ToSet(m) \subseteq W
  BY ToSetIn
<1>2. o \in Seq(W) /\ ToSet(o) = ToSet(order) \cap ToSet(m)
  BY OnlyType, OnlyToSet
<1>3. a \in Seq(W) /\ IsInjective(a) /\ ToSet(a) = ToSet(o)
  <2> HIDE DEF o
  <2> QED BY <1>2, DistinctType, DistinctInjective, DistinctToSet
<1>4. b \in Seq(W) /\ IsInjective(b) /\ ToSet(b) = ToSet(m) \cap (W \ ToSet(order))
  BY OnlyType, OnlyInjective, OnlyToSet
<1>5. Ordered(m, order) = a \o b
  BY DEF Ordered, W
<1> HIDE DEF a, b
<1>6. ToSet(a) \cap ToSet(b) = {} /\ ToSet(a) \cup ToSet(b) = ToSet(m)
  BY <1>1, <1>2, <1>3, <1>4
<1>7. IsInjective(a \o b)
  BY <1>3, <1>4, <1>6, ConcatInjective
<1>8. a \o b \in Seq(W) /\ ToSet(a \o b) = ToSet(a) \cup ToSet(b)
  BY <1>3, <1>4, ToSetConcat
<1> QED BY <1>5, <1>6, <1>7, <1>8

\* What is listed, each once: the names of the configuration, those with windows and
\* those that are remembered, without those that are hidden.
LEMMA ListedIs ==
    ASSUME configured \in Configs, NEW ws \in SUBSET W, NEW o \in Overrides
    PROVE  /\ Listed(ws, o) \in Seq(W) /\ IsInjective(Listed(ws, o))
           /\ ToSet(Listed(ws, o)) =
                (ToSet(configured) \cup ws \cup ToSet(o.remembered)) \ o.hidden
<1> DEFINE m == Merged(ws, o)
           r == Ordered(m, o.order)
<1>1. m \in Seq(W) /\ IsInjective(m) /\ o.order \in Seq(W)
      /\ ToSet(m) = ToSet(configured) \cup ws \cup ToSet(o.remembered)
  BY MergedIs DEF Overrides
<1>2. Listed(ws, o) = Only(r, W \ o.hidden)
  BY DEF Listed, Merged, W
<1> HIDE DEF m
<1>3. r \in Seq(W) /\ IsInjective(r) /\ ToSet(r) = ToSet(m)
  BY <1>1, OrderedIs
<1> HIDE DEF r
<1>4. ToSet(r) \subseteq W
  BY <1>3, ToSetIn
<1>5. Only(r, W \ o.hidden) \in Seq(W) /\ IsInjective(Only(r, W \ o.hidden))
      /\ ToSet(Only(r, W \ o.hidden)) = ToSet(r) \cap (W \ o.hidden)
  BY <1>3, OnlyType, OnlyInjective, OnlyToSet
<1> QED BY <1>1, <1>2, <1>3, <1>4, <1>5

----------------------------------------------------------------------------
(* The order after a move.                                                 *)

\* Before and after its k-th name, a sequence is in two.
LEMMA Cut ==
    ASSUME NEW s \in Seq(W), NEW k \in 0..Len(s)
    PROVE  /\ SubSeq(s, 1, k) \in Seq(W) /\ SubSeq(s, k + 1, Len(s)) \in Seq(W)
           /\ Len(SubSeq(s, 1, k)) = k /\ Len(SubSeq(s, k + 1, Len(s))) = Len(s) - k
           /\ s = SubSeq(s, 1, k) \o SubSeq(s, k + 1, Len(s))
<1>1. Len(s) \in Nat /\ k \in Nat /\ k <= Len(s)
  OBVIOUS
<1>2. /\ SubSeq(s, 1, k) \in Seq(W) /\ SubSeq(s, k + 1, Len(s)) \in Seq(W)
      /\ Len(SubSeq(s, 1, k)) = k /\ Len(SubSeq(s, k + 1, Len(s))) = Len(s) - k
  BY <1>1
<1>3. 1 \in 1..(Len(s) + 1) /\ k \in (1 - 1)..Len(s) /\ Len(s) \in k..Len(s)
  BY <1>1
<1>4. SubSeq(s, 1, k) \o SubSeq(s, k + 1, Len(s)) = SubSeq(s, 1, Len(s))
  BY <1>3, ConcatAdjacentSubSeq
<1>5. SubSeq(s, 1, Len(s)) = s
  BY SubSeqFull
<1> QED BY <1>2, <1>4, <1>5

\* t is s with w in another place: a and b are what is before and after it.
Replaced(s, t, w) ==
    \E a, b, c, d \in Seq(W) :
        /\ s = a \o <<w>> \o b /\ t = c \o <<w>> \o d /\ a \o b = c \o d
        /\ w \notin ToSet(a)

\* move_in_order puts the first occurrence of a name in another place.
LEMMA ShiftedIs ==
    ASSUME NEW s \in Seq(W), NEW w \in W, NEW up \in BOOLEAN, w \in ToSet(s)
    PROVE  Replaced(s, Shifted(s, w, up), w)
<1> DEFINE First(i) == s[i] = w /\ \A j \in 1..(i - 1) : s[j] # w
           i == CHOOSE i \in DOMAIN s : First(i)
           rest == RemoveAt(s, i)
           k == IF up THEN (IF i > 1 THEN i - 1 ELSE 1)
                ELSE (IF i > Len(rest) THEN i ELSE i + 1)
           a == SubSeq(s, 1, i - 1)
           b == SubSeq(s, i + 1, Len(s))
<1>1. DOMAIN s = 1..Len(s) /\ Len(s) \in Nat
  OBVIOUS
<1>2. \E j \in 1..Len(s) : First(j)
  <2> DEFINE T == {n \in Nat : \A j \in 1..Len(s) : j <= n /\ s[j] = w => \E h \in 1..Len(s) : First(h)}
  <2>1. 0 \in T
    OBVIOUS
  <2>2. ASSUME NEW n \in T PROVE n + 1 \in T
    <3>1. n \in Nat /\ n + 1 \in Nat
      OBVIOUS
    <3>2. ASSUME NEW j \in 1..Len(s), j <= n + 1, s[j] = w
          PROVE  \E h \in 1..Len(s) : First(h)
      <4>1. CASE \E h \in 1..(j - 1) : s[h] = w
        <5>1. PICK h \in 1..(j - 1) : s[h] = w
          BY <4>1
        <5>2. h \in 1..Len(s) /\ h <= n
          BY <1>1, <3>1, <3>2
        <5> QED BY <5>1, <5>2
      <4>2. CASE ~\E h \in 1..(j - 1) : s[h] = w
        BY <3>2, <4>2
      <4> QED BY <4>1, <4>2
    <3> QED BY <3>1, <3>2
  <2>3. T = Nat
    <3>1. T \in SUBSET Nat
      OBVIOUS
    <3> HIDE DEF T
    <3> QED BY <2>1, <2>2, <3>1, SetInduction
  <2>4. PICK j \in 1..Len(s) : s[j] = w
    BY <1>1 DEF ToSet
  <2>5. j \in T /\ j \in Nat
    BY <2>3, <1>1
  <2>6. j <= j
    BY <2>5
  <2> HIDE DEF First
  <2> QED BY <2>4, <2>5, <2>6
<1>3. i \in 1..Len(s) /\ First(i)
  BY <1>1, <1>2
<1>4. Shifted(s, w, up) = InsertAt(rest, k, w)
  BY DEF Shifted
<1>5. rest = a \o b
  BY DEF RemoveAt
<1> HIDE DEF i
<1>6. /\ i - 1 \in 0..Len(s) /\ (i - 1) + 1 = i /\ i \in Nat
  BY <1>1, <1>3
<1>7. a \in Seq(W) /\ Len(a) = i - 1
  <2> DEFINE h == i - 1
  <2>1. h \in 0..Len(s) /\ h = i - 1
    BY <1>6
  <2> HIDE DEF h
  <2>2. SubSeq(s, 1, h) \in Seq(W) /\ Len(SubSeq(s, 1, h)) = h
    BY ONLY <2>1, s \in Seq(W), Cut, Zenon
  <2> QED BY <2>1, <2>2
<1>8. SubSeq(s, 1, i) = a \o <<s[i]>>
  <2>1. 1 \in 1..Len(s) /\ i \in 1..Len(s)
    BY <1>1, <1>3
  <2> QED BY <2>1, SubSeqRecursiveSecond
<1>9. b \in Seq(W) /\ Len(b) = Len(s) - i /\ s = SubSeq(s, 1, i) \o b
  <2>1. i \in 0..Len(s)
    BY <1>1, <1>3
  <2> QED BY <2>1, Cut
<1>10. w \notin ToSet(a)
  <2>1. \A j \in 1..(i - 1) : a[j] = s[j]
    BY <1>1, <1>3, <1>6
  <2>2. DOMAIN a = 1..(i - 1)
    BY <1>7
  <2> QED BY <1>3, <2>1, <2>2 DEF ToSet
<1> HIDE DEF a, b
<1>11. s = a \o <<w>> \o b
  BY <1>3, <1>8, <1>9, Zenon
<1>12. rest \in Seq(W) /\ Len(rest) = Len(s) - 1
  <2>1. a \o b \in Seq(W) /\ Len(a \o b) = Len(a) + Len(b)
    BY <1>7, <1>9, ConcatProperties
  <2> QED BY <1>1, <1>3, <1>5, <1>6, <1>7, <1>9, <2>1
<1> HIDE DEF rest
<1>13. k - 1 \in 0..Len(rest) /\ (k - 1) + 1 = k
  BY <1>1, <1>3, <1>6, <1>12
<1> DEFINE c == SubSeq(rest, 1, k - 1)
           d == SubSeq(rest, k, Len(rest))
<1> HIDE DEF k
<1>14. c \in Seq(W) /\ d \in Seq(W) /\ rest = c \o d
  <2> DEFINE h == k - 1
  <2>1. h \in 0..Len(rest) /\ h + 1 = k
    BY <1>13
  <2> HIDE DEF h
  <2>2. /\ SubSeq(rest, 1, h) \in Seq(W) /\ SubSeq(rest, h + 1, Len(rest)) \in Seq(W)
        /\ rest = SubSeq(rest, 1, h) \o SubSeq(rest, h + 1, Len(rest))
    BY ONLY <1>12, <2>1, Cut, Zenon
  <2> QED BY <2>1, <2>2 DEF h
<1>15. InsertAt(rest, k, w) = c \o <<w>> \o d
  BY DEF InsertAt
<1> HIDE DEF c, d
<1> QED BY <1>4, <1>5, <1>7, <1>9, <1>10, <1>11, <1>14, <1>15 DEF Replaced

\* The sequence that has a name between two others.
Around(a, w, b) == a \o <<w>> \o b

\* A name that is between two sequences.
LEMMA Between ==
    ASSUME NEW a \in Seq(W), NEW b \in Seq(W), NEW w \in W
    PROVE  /\ Around(a, w, b) \in Seq(W) /\ Len(Around(a, w, b)) = Len(a \o b) + 1
           /\ ToSet(Around(a, w, b)) = ToSet(a \o b) \cup {w}
           /\ \A S : w \notin S => Only(Around(a, w, b), S) = Only(a \o b, S)
<1> DEFINE e == <<w>>
           p == a \o e
<1>1. e \in Seq(W) /\ Len(e) = 1 /\ e = Append(<<>>, w)
  OBVIOUS
<1>2. ToSet(e) = {w}
  <2>1. <<>> \in Seq(W) /\ ToSet(<<>>) = {}
    BY ToSetEmpty
  <2>2. ToSet(Append(<<>>, w)) = ToSet(<<>>) \cup {w}
    BY <2>1, ToSetAppend
  <2> QED BY <1>1, <2>1, <2>2
<1> HIDE DEF e
<1>3. e \in Seq(W) /\ Len(e) = 1
  BY <1>1
<1>4. p \in Seq(W) /\ Len(p) = Len(a) + 1
  <2>1. a \o e \in Seq(W) /\ Len(a \o e) = Len(a) + Len(e)
    BY <1>3, ConcatProperties
  <2> QED BY <1>3, <2>1
<1>5. ToSet(p) = ToSet(a) \cup {w}
  BY <1>2, <1>3, ToSetConcat
<1>6. ASSUME NEW S, w \notin S PROVE Only(p, S) = Only(a, S)
  <2>1. ToSet(e) \cap S = {}
    BY <1>2, <1>6
  <2>2. Only(e, S) = <<>>
    BY <1>3, <2>1, OnlyNone
  <2>3. Only(p, S) = Only(a, S) \o Only(e, S)
    BY <1>3, OnlyConcat
  <2>4. Only(a, S) \in Seq(W)
    BY OnlyType
  <2>5. Only(a, S) \o <<>> = Only(a, S)
    BY <2>4, ConcatNone
  <2> QED BY <2>2, <2>3, <2>5
<1> HIDE DEF p
<1>7. /\ p \o b \in Seq(W) /\ Len(p \o b) = Len(p) + Len(b) /\ Len(a \o b) = Len(a) + Len(b)
      /\ Len(a) \in Nat /\ Len(b) \in Nat
  BY <1>4
<1>8. ToSet(p \o b) = ToSet(p) \cup ToSet(b) /\ ToSet(a \o b) = ToSet(a) \cup ToSet(b)
  BY <1>4, ToSetConcat
<1>9. ASSUME NEW S, w \notin S PROVE Only(p \o b, S) = Only(a \o b, S)
  <2>1. Only(p \o b, S) = Only(p, S) \o Only(b, S)
    BY <1>4, OnlyConcat
  <2>2. Only(a \o b, S) = Only(a, S) \o Only(b, S)
    BY OnlyConcat
  <2> QED BY <1>6, <1>9, <2>1, <2>2
<1>10. p \o b = Around(a, w, b)
  BY DEF p, e, Around
<1>11. Len(p \o b) = Len(a \o b) + 1
  BY <1>4, <1>7
<1>12. ToSet(p \o b) = ToSet(a \o b) \cup {w}
  BY <1>5, <1>8
<1> QED BY <1>7, <1>9, <1>10, <1>11, <1>12

\* Neither the names nor their number change, nor the order of the others.
LEMMA ReplacedIs ==
    ASSUME NEW s \in Seq(W), NEW t, NEW w \in W, Replaced(s, t, w)
    PROVE  /\ t \in Seq(W) /\ Len(t) = Len(s) /\ ToSet(t) = ToSet(s)
           /\ \A S : w \notin S => Only(t, S) = Only(s, S)
<1>1. PICK a, b, c, d \in Seq(W) :
        s = Around(a, w, b) /\ t = Around(c, w, d) /\ a \o b = c \o d
  <2>1. PICK a, b, c, d \in Seq(W) :
          /\ s = a \o <<w>> \o b /\ t = c \o <<w>> \o d /\ a \o b = c \o d
          /\ w \notin ToSet(a)
    BY DEF Replaced
  <2>2. s = Around(a, w, b) /\ t = Around(c, w, d)
    BY <2>1, Zenon DEF Around
  <2> QED BY <2>1, <2>2, Zenon
<1>2. /\ Around(a, w, b) \in Seq(W) /\ Len(Around(a, w, b)) = Len(a \o b) + 1
      /\ ToSet(Around(a, w, b)) = ToSet(a \o b) \cup {w}
      /\ \A S : w \notin S => Only(Around(a, w, b), S) = Only(a \o b, S)
  <2>1. a \in Seq(W) /\ b \in Seq(W)
    BY <1>1
  <2> QED BY ONLY <2>1, w \in W, Between, Zenon
<1>3. /\ Around(c, w, d) \in Seq(W) /\ Len(Around(c, w, d)) = Len(c \o d) + 1
      /\ ToSet(Around(c, w, d)) = ToSet(c \o d) \cup {w}
      /\ \A S : w \notin S => Only(Around(c, w, d), S) = Only(c \o d, S)
  <2>1. c \in Seq(W) /\ d \in Seq(W)
    BY <1>1
  <2> QED BY ONLY <2>1, w \in W, Between, Zenon
<1> QED BY <1>1, <1>2, <1>3, Zenon

\* So it is after move_in_order, also when the name is not in the order.
LEMMA ShiftedKeeps ==
    ASSUME NEW s \in Seq(W), NEW w \in W, NEW up \in BOOLEAN
    PROVE  LET t == Shifted(s, w, up) IN
           /\ t \in Seq(W) /\ Len(t) = Len(s) /\ ToSet(t) = ToSet(s)
           /\ \A S : w \notin S => Only(t, S) = Only(s, S)
<1> DEFINE t == Shifted(s, w, up)
<1>1. CASE w \in ToSet(s)
  <2>1. Replaced(s, t, w)
    BY <1>1, ShiftedIs
  <2> HIDE DEF t
  <2>2. /\ t \in Seq(W) /\ Len(t) = Len(s) /\ ToSet(t) = ToSet(s)
        /\ \A S : w \notin S => Only(t, S) = Only(s, S)
    BY <2>1, ReplacedIs
  <2> QED BY <2>2 DEF t
<1>2. CASE w \notin ToSet(s)
  <2>1. t = s
    BY <1>2 DEF Shifted
  <2> QED BY <2>1
<1> QED BY <1>1, <1>2

----------------------------------------------------------------------------
(* The inductive invariant.                                                *)

\* The file has what is in memory, but for metadata that sets nothing.
SavedAll ==
    /\ saved.overrides = overrides
    /\ \A w \in W : saved.metadata[w] = "set" <=> metadata[w] = "set"

\* The inductive invariant: a state of the list is on the disk.
IInv == TypeOK /\ SavedAll

\* The lists of names are the sequences within the bound.
LEMMA NamesSeqIs == NamesSeq = {s \in Seq(W) : Len(s) <= MaxLength}
<1>1. ASSUME NEW s \in NamesSeq PROVE s \in Seq(W) /\ Len(s) <= MaxLength
  <2>1. PICK n \in 0..MaxLength : s \in [1..n -> W]
    BY DEF NamesSeq, W
  <2>2. s \in Seq(W) /\ Len(s) = n
    BY <2>1, BoundAssumption
  <2> QED BY <2>1, <2>2, BoundAssumption
<1>2. ASSUME NEW s \in Seq(W), Len(s) <= MaxLength PROVE s \in NamesSeq
  <2>1. s \in [1..Len(s) -> W] /\ Len(s) \in 0..MaxLength
    BY <1>2, BoundAssumption
  <2> QED BY <2>1 DEF NamesSeq, W
<1> QED BY <1>1, <1>2

\* The fields of the overrides, each within its bound.
LEMMA OverridesIs ==
    ASSUME NEW o
    PROVE  o \in OverridesType <=>
              /\ o \in Overrides
              /\ Len(o.order) <= MaxLength /\ Len(o.remembered) <= MaxLength
BY NamesSeqIs DEF OverridesType, Overrides, W

\* What ensure_workspace_remembered leaves.
LEMMA RememberType ==
    ASSUME TypeOK, NEW w \in W
    PROVE  Remember(w) \in Seq(W)
<1>1. overrides.remembered \in Seq(W)
  BY OverridesIs DEF TypeOK, Overrides
<1> QED BY <1>1 DEF Remember, AddName

\* Renaming changes no length.
LEMMA RenamedType ==
    ASSUME NEW s \in Seq(W), NEW old, NEW new \in W
    PROVE  Renamed(s, old, new) \in Seq(W) /\ Len(Renamed(s, old, new)) = Len(s)
<1> DEFINE t == Renamed(s, old, new)
<1>1. Len(s) \in Nat /\ DOMAIN s = 1..Len(s) /\ \A i \in 1..Len(s) : s[i] \in W
  OBVIOUS
<1>2. t \in [1..Len(s) -> W]
  BY <1>1 DEF Renamed
<1> QED BY <1>1, <1>2

\* No list and no metadata.
LEMMA InitInv == Init => IInv
<1> SUFFICES ASSUME Init PROVE IInv
  OBVIOUS
<1>1. Default \in W
  BY NamesAssumption DEF W
<1>2. NoOverrides \in OverridesType
  <2>1. <<>> \in Seq(W) /\ Len(<<>>) = 0 /\ 0 <= MaxLength
    BY BoundAssumption
  <2>2. <<>> \in NamesSeq
    BY <2>1, NamesSeqIs
  <2> QED BY <2>2 DEF NoOverrides, OverridesType
<1>3. NoMetadata \in [Workspaces -> {"none", "set"}]
  BY DEF NoMetadata
<1> QED BY <1>1, <1>2, <1>3 DEF Init, IInv, TypeOK, SavedAll, NoMetadata, W

\* What is persisted has its type, and is all there is.
LEMMA PersistKeeps ==
    ASSUME NEW o \in OverridesType, NEW m \in [Workspaces -> {"none", "unset", "set"}],
           saved' = [overrides |-> o,
                     metadata |-> [w \in Workspaces |-> IF m[w] = "set" THEN "set" ELSE "none"]]
    PROVE  /\ saved' \in [overrides : OverridesType, metadata : [Workspaces -> {"none", "set"}]]
           /\ saved'.overrides = o
           /\ \A w \in W : saved'.metadata[w] = "set" <=> m[w] = "set"
<1> DEFINE n == [w \in Workspaces |-> IF m[w] = "set" THEN "set" ELSE "none"]
<1>1. n \in [Workspaces -> {"none", "set"}] /\ \A w \in W : n[w] = "set" <=> m[w] = "set"
  BY DEF W
<1>2. saved' = [overrides |-> o, metadata |-> n]
  OBVIOUS
<1> HIDE DEF n
<1> QED BY <1>1, <1>2

\* Each operation keeps it.
LEMMA StepInv == IInv /\ [Next]_vars => IInv'
<1> SUFFICES ASSUME IInv, [Next]_vars PROVE IInv'
  OBVIOUS
<1>0. /\ TypeOK /\ SavedAll /\ overrides \in Overrides /\ overrides \in OverridesType
      /\ Len(overrides.order) <= MaxLength /\ Len(overrides.remembered) <= MaxLength
  BY OverridesIs DEF IInv, TypeOK
<1>1. ASSUME NEW w \in Workspaces, Switch(w) PROVE IInv'
  <2>1. Remember(w) \in Seq(W) /\ Len(Remember(w)) <= MaxLength
    BY <1>0, <1>1, RememberType DEF Switch, W
  <2>2. overrides' \in OverridesType
    <3>1. overrides' = [overrides EXCEPT !.remembered = Remember(w)]
      BY <1>1 DEF Switch
    <3>2. overrides' \in Overrides /\ overrides'.order = overrides.order /\ overrides'.remembered = Remember(w)
      BY <1>0, <2>1, <3>1 DEF Overrides
    <3> QED BY <1>0, <2>1, <3>2, OverridesIs
  <2>3. metadata' = metadata /\ configured' = configured /\ live' = live
    BY <1>1 DEF Switch
  <2>4. CASE overrides' = overrides
    <3>1. saved' = saved
      BY <1>1, <2>4 DEF Switch
    <3> QED BY <1>0, <2>2, <2>3, <2>4, <3>1 DEF IInv, TypeOK, SavedAll
  <2>5. CASE overrides' # overrides
    <3>1. Persist
      BY <1>1, <2>5 DEF Switch
    <3>2. metadata' \in [Workspaces -> {"none", "unset", "set"}]
      BY <1>0, <2>3 DEF TypeOK
    <3> QED BY <1>0, <2>2, <2>3, <3>1, <3>2, PersistKeeps DEF IInv, TypeOK, SavedAll, Persist
  <2> QED BY <2>4, <2>5
<1>2. ASSUME NEW w \in Workspaces, WindowOpens(w) \/ WindowsClose(w) PROVE IInv'
  BY <1>0, <1>2 DEF WindowOpens, WindowsClose, IInv, TypeOK, SavedAll
<1>3. ASSUME NEW old \in Workspaces, NEW new \in Workspaces, Rename(old, new) PROVE IInv'
  <2>1. live' \subseteq Workspaces /\ configured' \in Configs
    BY <1>0, <1>3 DEF Rename, LiveAfter, TypeOK
  <2>2. metadata' \in [Workspaces -> {"none", "unset", "set"}]
    <3>1. CASE metadata[old] = "none"
      BY <1>0, <1>3, <3>1 DEF Rename, TypeOK
    <3>2. CASE metadata[old] # "none"
      BY <1>0, <1>3, <3>2 DEF Rename, TypeOK
    <3> QED BY <3>1, <3>2
  <2>3. overrides' \in OverridesType
    <3>1. overrides' = OverridesAfter(old, new)
      BY <1>3 DEF Rename
    <3>2. overrides.order \in Seq(W) /\ overrides.remembered \in Seq(W) /\ overrides.hidden \in SUBSET W
      BY <1>0 DEF Overrides
    <3> DEFINE a == Renamed(overrides.order, old, new)
               b == Renamed(overrides.remembered, old, new)
    <3>3. /\ a \in Seq(W) /\ Len(a) <= MaxLength /\ b \in Seq(W) /\ Len(b) <= MaxLength
      BY <1>0, <3>2, RenamedType DEF W
    <3>4. overrides'.order = a /\ overrides'.remembered = b /\ overrides' \in Overrides
      <4>1. overrides' = [order |-> a,
                          hidden |-> IF old \in overrides.hidden
                                     THEN (overrides.hidden \ {old}) \cup {new} ELSE overrides.hidden,
                          remembered |-> b]
        BY <3>1 DEF OverridesAfter
      <4> HIDE DEF a, b
      <4> QED BY <3>2, <3>3, <4>1 DEF Overrides, W
    <3> QED BY <3>3, <3>4, OverridesIs
  <2>4. Persist
    BY <1>3 DEF Rename
  <2> QED BY <2>1, <2>2, <2>3, <2>4, PersistKeeps DEF IInv, TypeOK, SavedAll, Persist
<1>4. ASSUME NEW w \in Workspaces, SetMetadata(w) PROVE IInv'
  <2>1. Remember(w) \in Seq(W) /\ Len(Remember(w)) <= MaxLength
    BY <1>0, <1>4, RememberType DEF SetMetadata, W
  <2>2. overrides' \in OverridesType
    <3>1. overrides' = [overrides EXCEPT !.remembered = Remember(w)]
      BY <1>4 DEF SetMetadata
    <3>2. overrides' \in Overrides /\ overrides'.order = overrides.order /\ overrides'.remembered = Remember(w)
      BY <1>0, <2>1, <3>1 DEF Overrides
    <3> QED BY <1>0, <2>1, <3>2, OverridesIs
  <2>3. metadata' \in [Workspaces -> {"none", "unset", "set"}]
    BY <1>0, <1>4 DEF SetMetadata, TypeOK
  <2>4. Persist /\ configured' = configured /\ live' = live
    BY <1>4 DEF SetMetadata
  <2> QED BY <1>0, <2>2, <2>3, <2>4, PersistKeeps DEF IInv, TypeOK, SavedAll, Persist
<1>5. ASSUME NEW w \in Workspaces, Hide(w) PROVE IInv'
  <2>1. overrides' = [overrides EXCEPT !.hidden = @ \cup {w}]
    BY <1>5 DEF Hide
  <2>2. overrides' \in OverridesType
    BY <1>0, <2>1 DEF OverridesType
  <2>3. Persist /\ configured' = configured /\ live' = live /\ metadata' = metadata
    BY <1>5 DEF Hide
  <2> QED BY <1>0, <2>2, <2>3, PersistKeeps DEF IInv, TypeOK, SavedAll, Persist
<1>6. ASSUME NEW w \in Workspaces, NEW up \in BOOLEAN, Move(w, up) PROVE IInv'
  <2> DEFINE m == Materialized(overrides.order)
             q == Shifted(m, w, up)
  <2>1. q \in Seq(W)
    <3>1. Entries \in Seq(W)
      BY <1>0, ListedIs DEF Entries, TypeOK, W
    <3>2. m \in Seq(W)
      <4>1. Only(Entries, Workspaces \ ToSet(overrides.order)) \in Seq(W)
        BY <3>1, OnlyType
      <4>2. overrides.order \in Seq(W)
        BY <1>0 DEF Overrides
      <4> QED BY <4>1, <4>2 DEF Materialized
    <3> HIDE DEF m
    <3> QED BY <3>2, ShiftedKeeps DEF W
  <2>2. overrides' = [overrides EXCEPT !.order = q] /\ Len(overrides'.order) <= MaxLength
    BY <1>6 DEF Move, Moved
  <2> HIDE DEF q
  <2>3. overrides' \in OverridesType
    <3>1. overrides' \in Overrides /\ overrides'.remembered = overrides.remembered
      BY <1>0, <2>1, <2>2 DEF Overrides
    <3> QED BY <1>0, <2>2, <3>1, OverridesIs
  <2>4. Persist /\ configured' = configured /\ live' = live /\ metadata' = metadata
    BY <1>6 DEF Move
  <2> QED BY <1>0, <2>3, <2>4, PersistKeeps DEF IInv, TypeOK, SavedAll, Persist
<1>7. CASE Reload
  BY <1>0, <1>7 DEF Reload, IInv, TypeOK, SavedAll
<1>8. CASE Restart
  <2>1. Default \in Workspaces
    BY NamesAssumption
  <2>2. saved.metadata \in [Workspaces -> {"none", "set"}] /\ saved.overrides \in OverridesType
    BY <1>0 DEF TypeOK
  <2> QED BY <1>0, <1>8, <2>1, <2>2 DEF Restart, IInv, TypeOK, SavedAll
<1>9. CASE UNCHANGED vars
  BY <1>0, <1>9 DEF vars, IInv, TypeOK, SavedAll
<1> QED
  BY <1>1, <1>2, <1>3, <1>4, <1>5, <1>6, <1>7, <1>8, <1>9 DEF Next

\* The inductive invariant of the operations on the sidebar.
THEOREM Invariance == Spec => []IInv
BY InitInv, StepInv, PTL DEF Spec

\* Through all changes, reloads and restarts, the lists stay lists of workspaces, in
\* memory and in the file.
THEOREM TypeCorrect == Spec => []TypeOK
<1>1. IInv => TypeOK
  BY DEF IInv
<1> QED BY Invariance, <1>1, PTL

\* No workspace is listed twice, however often the order and the remembered names
\* repeat themselves.
THEOREM ListedOnceCorrect == Spec => []ListedOnce
<1>1. IInv => ListedOnce
  <2> SUFFICES ASSUME IInv PROVE ListedOnce
    OBVIOUS
  <2>1. TypeOK /\ overrides \in Overrides
    BY OverridesIs DEF IInv, TypeOK
  <2>2. IsInjective(Entries)
    BY <2>1, ListedIs DEF Entries, TypeOK, W
  <2> QED BY <2>1, <2>2 DEF ListedOnce
<1> QED BY Invariance, <1>1, PTL

\* A restart loses none of the list but what is there for its windows only, brings
\* back nothing that is hidden, and keeps the defaults that are set.
THEOREM RestartCorrect == Spec => []RestartKeepsList
<1>1. IInv => RestartKeepsList
  <2> SUFFICES ASSUME IInv PROVE RestartKeepsList
    OBVIOUS
  <2> DEFINE o == overrides
  <2>1. /\ TypeOK /\ o \in Overrides /\ saved.overrides = o
        /\ \A w \in W : saved.metadata[w] = "set" <=> metadata[w] = "set"
    BY OverridesIs DEF IInv, TypeOK, SavedAll
  <2>2. {Default} \in SUBSET W /\ live \in SUBSET W /\ configured \in Configs
    BY <2>1, NamesAssumption DEF TypeOK, W
  <2>3. ToSet(Entries) = (ToSet(configured) \cup live \cup ToSet(o.remembered)) \ o.hidden
    BY <2>1, <2>2, ListedIs DEF Entries
  <2>4. ToSet(Listed({Default}, o)) =
          (ToSet(configured) \cup {Default} \cup ToSet(o.remembered)) \ o.hidden
    BY <2>1, <2>2, ListedIs
  <2>5. ToSet(Listed({Default}, o)) =
          {w \in ToSet(Entries) : w \in ToSet(configured) \cup ToSet(o.remembered)}
            \cup ({Default} \ o.hidden)
    BY <2>3, <2>4
  <2> QED BY <2>1, <2>5 DEF RestartKeepsList, W
<1> QED BY Invariance, <1>1, PTL

----------------------------------------------------------------------------
(* Moves.                                                                  *)

\* What can be listed: the merged names that are not hidden.
Shown(ws, o) == ToSet(Merged(ws, o)) \ o.hidden

\* The list is that of the names of the order, then that of the others.
LEMMA ListedForm ==
    ASSUME configured \in Configs, NEW ws \in SUBSET W, NEW o \in Overrides
    PROVE  /\ Listed(ws, o) = Distinct(Only(o.order, Shown(ws, o)))
                                \o Only(Merged(ws, o), Shown(ws, o) \ ToSet(o.order))
           /\ ToSet(Listed(ws, o)) = Shown(ws, o) /\ Shown(ws, o) \subseteq W
           /\ o.order \in Seq(W) /\ Merged(ws, o) \in Seq(W) /\ IsInjective(Merged(ws, o))
<1> DEFINE m == Merged(ws, o)
           s == o.order
           V == W \ o.hidden
           E == Shown(ws, o)
           b == Only(m, W \ ToSet(s))
           p == Only(s, ToSet(m))
           a == Distinct(p)
<1>1. m \in Seq(W) /\ IsInjective(m) /\ s \in Seq(W)
      /\ ToSet(m) = ToSet(configured) \cup ws \cup ToSet(o.remembered)
  BY MergedIs DEF Overrides
<1>2. Listed(ws, o) = Only(a \o b, V)
  BY DEF Listed, Ordered, Merged, W
<1>3. E = ToSet(m) \cap V /\ E \subseteq W
  BY <1>1, ToSetIn DEF Shown
<1>4. ToSet(Listed(ws, o)) = E
  BY <1>1, ListedIs DEF Shown
<1> HIDE DEF m, s, V, E
<1>5. p \in Seq(W) /\ b \in Seq(W)
  BY <1>1, OnlyType
<1>6. Only(b, V) = Only(m, E \ ToSet(s))
  <2>1. Only(b, V) = Only(m, (W \ ToSet(s)) \cap V)
    BY <1>1, OnlyOnly
  <2>2. ToSet(m) \cap ((W \ ToSet(s)) \cap V) = ToSet(m) \cap (E \ ToSet(s))
    BY <1>3
  <2>3. Only(m, (W \ ToSet(s)) \cap V) = Only(m, E \ ToSet(s))
    BY <1>1, <2>2, OnlySame
  <2> QED BY <2>1, <2>3
<1>7. Only(p, V) = Only(s, E)
  BY <1>1, <1>3, OnlyOnly
<1> HIDE DEF p, b
<1>8. a \in Seq(W) /\ Only(a, V) = Distinct(Only(p, V))
  BY <1>5, DistinctType, DistinctOnly
<1> HIDE DEF a
<1>9. Only(a \o b, V) = Only(a, V) \o Only(b, V)
  BY <1>5, <1>8, OnlyConcat
<1> QED BY <1>1, <1>2, <1>3, <1>4, <1>6, <1>7, <1>8, <1>9 DEF m, s, E

\* The materialized order is in no way different from the one on display: applied
\* to the names that are shown it is the list.
LEMMA MaterializedIs ==
    ASSUME configured \in Configs, NEW ws \in SUBSET W, NEW o \in Overrides,
           NEW list, list = Listed(ws, o)
    PROVE  LET M == o.order \o Only(list, Workspaces \ ToSet(o.order)) IN
           /\ M \in Seq(W) /\ ToSet(M) = ToSet(o.order) \cup Shown(ws, o)
           /\ Distinct(Only(M, Shown(ws, o))) = list
<1> DEFINE m == Merged(ws, o)
           s == o.order
           E == Shown(ws, o)
           a == Distinct(Only(s, E))
           b == Only(m, E \ ToSet(s))
           R == W \ ToSet(s)
           M == s \o Only(list, R)
<1>1. /\ list = a \o b /\ ToSet(list) = E /\ E \subseteq W
      /\ s \in Seq(W) /\ m \in Seq(W) /\ IsInjective(m)
  BY ListedForm
<1> HIDE DEF m, s, E
<1>2. /\ Only(s, E) \in Seq(W) /\ ToSet(Only(s, E)) = ToSet(s) \cap E
      /\ b \in Seq(W) /\ ToSet(b) = ToSet(m) \cap (E \ ToSet(s)) /\ IsInjective(b)
  BY <1>1, OnlyType, OnlyToSet, OnlyInjective
<1>3. a \in Seq(W) /\ ToSet(a) = ToSet(s) \cap E
  <2> DEFINE p == Only(s, E)
  <2>1. p \in Seq(W) /\ ToSet(p) = ToSet(s) \cap E
    BY <1>2
  <2> HIDE DEF p
  <2>2. Distinct(p) \in Seq(W) /\ ToSet(Distinct(p)) = ToSet(p)
    BY <2>1, DistinctType, DistinctToSet
  <2> QED BY <2>1, <2>2 DEF p
<1>4. Only(b, E) = b /\ Only(b, R) = b /\ Only(b, W \ ToSet(Only(s, E))) = b
  <2>1. ToSet(b) \subseteq E /\ ToSet(b) \subseteq R /\ ToSet(b) \subseteq W \ ToSet(Only(s, E))
    BY <1>1, <1>2
  <2> HIDE DEF b, R
  <2> QED BY <1>2, <2>1, OnlyAll
<1>5. Only(list, R) = b
  <2>1. Only(a, R) = <<>>
    <3>1. ToSet(a) \cap R = {}
      BY <1>3
    <3> HIDE DEF a, R
    <3> QED BY <1>3, <3>1, OnlyNone
  <2> HIDE DEF a, b, R
  <2>2. Only(a \o b, R) = Only(a, R) \o Only(b, R)
    BY <1>2, <1>3, OnlyConcat
  <2>3. <<>> \o b = b
    BY <1>2, ConcatNone
  <2> QED BY <1>1, <1>4, <2>1, <2>2, <2>3
<1>6. M = s \o b
  BY <1>5
<1>7. M \in Seq(W) /\ ToSet(M) = ToSet(s) \cup E
  <2> HIDE DEF M, b
  <2>1. s \o b \in Seq(W)
    BY <1>1, <1>2
  <2>2. ToSet(s \o b) = ToSet(s) \cup ToSet(b)
    BY <1>1, <1>2, ToSetConcat
  <2>3. ToSet(list) = ToSet(a) \cup ToSet(b)
    <3> HIDE DEF a
    <3> QED BY <1>1, <1>2, <1>3, ToSetConcat
  <2> QED BY <1>1, <1>2, <1>3, <1>6, <2>1, <2>2, <2>3
<1>8. Distinct(Only(M, E)) = list
  <2> DEFINE p == Only(s, E)
  <2>1. p \in Seq(W) /\ Only(b, W \ ToSet(p)) = b /\ Distinct(p) = a
    BY <1>2, <1>4
  <2> HIDE DEF M, a, b, p
  <2>2. Only(s \o b, E) = Only(s, E) \o Only(b, E)
    <3>1. s \in Seq(W) /\ b \in Seq(W)
      BY <1>1, <1>2
    <3> HIDE DEF s, E
    <3> QED BY ONLY <3>1, OnlyConcat
  <2>3. Only(M, E) = p \o b
    BY <1>4, <1>6, <2>2 DEF p
  <2>4. Distinct(p \o b) = Distinct(p) \o Only(Distinct(b), W \ ToSet(p))
    BY <1>2, <2>1, DistinctConcat
  <2>5. Distinct(b) = b
    BY <1>2, DistinctSame
  <2> QED BY <1>1, <2>1, <2>3, <2>4, <2>5
<1> QED BY <1>7, <1>8 DEF s, E, W

\* With an order that has all that is shown, the list is what is shown of it.
LEMMA ListedByOrder ==
    ASSUME configured \in Configs, NEW ws \in SUBSET W, NEW o \in Overrides,
           NEW q \in Seq(W), Shown(ws, o) \subseteq ToSet(q)
    PROVE  Listed(ws, [o EXCEPT !.order = q]) = Distinct(Only(q, Shown(ws, o)))
<1> DEFINE v == [o EXCEPT !.order = q]
           E == Shown(ws, o)
           d == Distinct(Only(q, E))
<1>1. v \in Overrides /\ v.order = q /\ v.hidden = o.hidden /\ v.remembered = o.remembered
  BY DEF Overrides
<1>2. Merged(ws, v) = Merged(ws, o) /\ Shown(ws, v) = E
  BY <1>1 DEF Merged, Shown
<1> HIDE DEF v, E
<1>3. Listed(ws, v) = Distinct(Only(q, E)) \o Only(Merged(ws, v), E \ ToSet(q))
      /\ Merged(ws, v) \in Seq(W)
  BY <1>1, <1>2, ListedForm
<1>4. ToSet(Merged(ws, v)) \cap (E \ ToSet(q)) = {}
  BY DEF E
<1>5. Only(Merged(ws, v), E \ ToSet(q)) = <<>>
  BY <1>3, <1>4, OnlyNone
<1>6. d \in Seq(W)
  <2>1. Only(q, E) \in Seq(W)
    BY OnlyType
  <2> QED BY <2>1, DistinctType
<1>7. d \o <<>> = d
  BY <1>6, ConcatNone
<1> QED BY <1>3, <1>5, <1>7 DEF v, E

\* What a move makes of the order.
LEMMA MovedIs ==
    ASSUME TypeOK, NEW w \in W, NEW up \in BOOLEAN
    PROVE  LET M == Materialized(overrides.order)
               q == Shifted(M, w, up)
               E == Shown(live, overrides) IN
           /\ M \in Seq(W) /\ E \subseteq ToSet(M)
           /\ q \in Seq(W) /\ ToSet(q) = ToSet(M)
           /\ \A S : w \notin S => Only(q, S) = Only(M, S)
           /\ ToSet(Entries) = E /\ Entries \in Seq(W) /\ Distinct(Only(M, E)) = Entries
           /\ Listed(live, Moved(w, up)) = Distinct(Only(q, E))
<1> DEFINE M == Materialized(overrides.order)
           q == Shifted(M, w, up)
           E == Shown(live, overrides)
<1>1. overrides \in Overrides /\ live \in SUBSET W /\ configured \in Configs
  BY OverridesIs DEF TypeOK, W
<1>2. M \in Seq(W) /\ ToSet(M) = ToSet(overrides.order) \cup E /\ Distinct(Only(M, E)) = Entries
  <2>1. M = overrides.order \o Only(Entries, Workspaces \ ToSet(overrides.order))
    BY DEF Materialized
  <2>2. /\ M \in Seq(W) /\ ToSet(M) = ToSet(overrides.order) \cup E
        /\ Distinct(Only(M, E)) = Listed(live, overrides)
    <3> HIDE DEF M
    <3>1. Entries = Listed(live, overrides)
      BY DEF Entries
    <3> HIDE DEF E
    <3>2. /\ M \in Seq(W) /\ ToSet(M) = ToSet(overrides.order) \cup Shown(live, overrides)
          /\ Distinct(Only(M, Shown(live, overrides))) = Entries
      BY ONLY <1>1, <2>1, <3>1, MaterializedIs, Zenon
    <3> QED BY <3>1, <3>2 DEF E
  <2> QED BY <2>2 DEF Entries
<1>3. ToSet(Entries) = E /\ Entries \in Seq(W)
  BY <1>1, ListedForm, ListedIs DEF Entries
<1> HIDE DEF M, E
<1>4. q \in Seq(W) /\ ToSet(q) = ToSet(M) /\ \A S : w \notin S => Only(q, S) = Only(M, S)
  BY <1>2, ShiftedKeeps
<1>5. Moved(w, up) = [overrides EXCEPT !.order = q]
  BY DEF Moved, M
<1> HIDE DEF q
<1>6. E \subseteq ToSet(q) /\ E \subseteq ToSet(M)
  BY <1>2, <1>4
<1>7. Listed(live, [overrides EXCEPT !.order = q]) = Distinct(Only(q, E))
  BY <1>1, <1>4, <1>6, ListedByOrder DEF E
<1> QED BY <1>2, <1>3, <1>4, <1>5, <1>6, <1>7 DEF q, M, E

\* A move changes the place of one entry, whatever the order has.
THEOREM MovesCorrect == Spec => []MoveKeepsOthers
<1>1. IInv => MoveKeepsOthers
  <2> SUFFICES ASSUME IInv, NEW w \in W, NEW up \in BOOLEAN
               PROVE  LET after == Listed(live, Moved(w, up)) IN
                      /\ Only(after, W \ {w}) = Only(Entries, W \ {w})
                      /\ ToSet(after) = ToSet(Entries)
    BY DEF MoveKeepsOthers, W
  <2> DEFINE M == Materialized(overrides.order)
             q == Shifted(M, w, up)
             E == Shown(live, overrides)
             R == W \ {w}
             after == Listed(live, Moved(w, up))
  <2>1. /\ M \in Seq(W) /\ E \subseteq ToSet(M)
        /\ q \in Seq(W) /\ ToSet(q) = ToSet(M)
        /\ \A S : w \notin S => Only(q, S) = Only(M, S)
        /\ ToSet(Entries) = E /\ Entries \in Seq(W) /\ Distinct(Only(M, E)) = Entries
        /\ after = Distinct(Only(q, E))
    BY MovedIs DEF IInv
  <2> HIDE DEF M, q, E, after
  <2>2. ASSUME NEW s \in Seq(W)
        PROVE  Only(Distinct(Only(s, E)), R) = Distinct(Only(s, E \cap R))
    <3> DEFINE p == Only(s, E)
    <3>1. p \in Seq(W) /\ Only(p, R) = Only(s, E \cap R)
      BY OnlyType, OnlyOnly
    <3> HIDE DEF p
    <3>2. Distinct(Only(p, R)) = Only(Distinct(p), R)
      BY <3>1, DistinctOnly
    <3> QED BY <3>1, <3>2 DEF p
  <2>3. Only(after, R) = Only(Entries, R)
    <3>1. w \notin E \cap R
      OBVIOUS
    <3>2. Only(q, E \cap R) = Only(M, E \cap R)
      BY <2>1, <3>1
    <3> QED BY <2>1, <2>2, <3>2
  <2>4. ToSet(after) = ToSet(Entries)
    <3> DEFINE p == Only(q, E)
    <3>1. p \in Seq(W) /\ ToSet(p) = ToSet(q) \cap E
      BY <2>1, OnlyType, OnlyToSet
    <3> HIDE DEF p
    <3>2. ToSet(Distinct(p)) = ToSet(p)
      BY <3>1, DistinctToSet
    <3> QED BY <2>1, <3>1, <3>2 DEF p
  <2> QED BY <2>3, <2>4 DEF after, R
<1> QED BY Invariance, <1>1, PTL

----------------------------------------------------------------------------
(* Going up.                                                               *)

\* A sequence from its k-th name on.
LEMMA FromIs ==
    ASSUME NEW r \in Seq(W), NEW k \in 1..Len(r)
    PROVE  LET d == SubSeq(r, k, Len(r)) IN
           /\ d \in Seq(W) /\ Len(d) = (Len(r) - k) + 1
           /\ \A j \in 1..((Len(r) - k) + 1) : d[j] = r[(k + j) - 1]
<1>1. Len(r) \in Nat
  OBVIOUS
<1> QED BY <1>1

\* Vec::remove and Vec::insert, one place before: two names change places.
LEMMA SwapIs ==
    ASSUME NEW s \in Seq(W), NEW i \in 2..Len(s)
    PROVE  InsertAt(RemoveAt(s, i), i - 1, s[i]) = [s EXCEPT ![i - 1] = s[i], ![i] = s[i - 1]]
<1> DEFINE a == SubSeq(s, 1, i - 1)
           b == SubSeq(s, i + 1, Len(s))
           r == a \o b
           c == SubSeq(r, 1, (i - 1) - 1)
           d == SubSeq(r, i - 1, Len(r))
           e == <<s[i]>>
           p == c \o e
           t == [s EXCEPT ![i - 1] = s[i], ![i] = s[i - 1]]
<1>1. Len(s) \in Nat /\ i \in Nat /\ 2 <= i /\ i <= Len(s)
  OBVIOUS
<1>2. RemoveAt(s, i) = r /\ InsertAt(r, i - 1, s[i]) = p \o d
  BY DEF RemoveAt, InsertAt
<1>3. /\ a \in Seq(W) /\ Len(a) = i - 1 /\ \A j \in 1..(i - 1) : a[j] = s[j]
  BY <1>1
<1>4. /\ b \in Seq(W) /\ Len(b) = Len(s) - i /\ \A j \in 1..(Len(s) - i) : b[j] = s[i + j]
  BY <1>1
<1> HIDE DEF a, b
<1>5. /\ r \in Seq(W) /\ Len(r) = Len(a) + Len(b)
      /\ \A j \in 1..(Len(a) + Len(b)) : r[j] = IF j <= Len(a) THEN a[j] ELSE b[j - Len(a)]
  BY <1>3, <1>4, ConcatProperties
<1>6. Len(r) = Len(s) - 1
  BY <1>1, <1>3, <1>4, <1>5
<1>7. ASSUME NEW j \in 1..(Len(s) - 1)
      PROVE  r[j] = IF j < i THEN s[j] ELSE s[j + 1]
  <2>1. CASE j < i
    BY <1>1, <1>3, <1>4, <1>5, <2>1
  <2>2. CASE ~(j < i)
    <3> DEFINE h == Len(a)
    <3>0. h = i - 1 /\ j \in Nat /\ j <= Len(s) - 1
      BY <1>1, <1>3
    <3> HIDE DEF h
    <3>1. j - h \in 1..(Len(s) - i) /\ i + (j - h) = j + 1
      BY <1>1, <2>2, <3>0
    <3>2. j - Len(a) \in 1..(Len(s) - i) /\ i + (j - Len(a)) = j + 1
      BY <3>1 DEF h
    <3>3. r[j] = b[j - Len(a)]
      BY <1>1, <1>3, <1>4, <1>5, <2>2
    <3> QED BY <1>4, <2>2, <3>2, <3>3
  <2> QED BY <2>1, <2>2
<1> HIDE DEF r
<1>8. /\ c \in Seq(W) /\ Len(c) = i - 2 /\ \A j \in 1..(i - 2) : c[j] = r[j]
  BY <1>1, <1>5, <1>6
<1>9. /\ d \in Seq(W) /\ Len(d) = (Len(s) - i) + 1
      /\ \A j \in 1..((Len(s) - i) + 1) : d[j] = r[(i + j) - 2]
  <2> DEFINE h == Len(r)
             k == i - 1
  <2>0. r \in Seq(W) /\ h \in Nat
    BY <1>5
  <2>1. h = Len(s) - 1 /\ k \in 1..h
    BY <1>1, <1>6
  <2>2. /\ d \in Seq(W) /\ Len(d) = (h - k) + 1
        /\ \A j \in 1..((h - k) + 1) : d[j] = r[(k + j) - 1]
    <3> HIDE DEF k
    <3> QED BY <2>0, <2>1, FromIs DEF d, k
  <2>3. (h - k) + 1 = (Len(s) - i) + 1
    BY <1>1, <2>1
  <2>4. \A j \in 1..((Len(s) - i) + 1) : (k + j) - 1 = (i + j) - 2
    BY <1>1
  <2> HIDE DEF h, k, d
  <2> QED BY <2>2, <2>3, <2>4
<1>10. e \in Seq(W) /\ Len(e) = 1 /\ e[1] = s[i]
  BY <1>1
<1> HIDE DEF c, d, e
<1>11. /\ p \in Seq(W) /\ Len(p) = i - 1 /\ p[i - 1] = s[i]
       /\ \A j \in 1..(i - 2) : p[j] = c[j]
  <2>1. /\ p \in Seq(W) /\ Len(p) = Len(c) + Len(e)
        /\ \A j \in 1..(Len(c) + Len(e)) : p[j] = IF j <= Len(c) THEN c[j] ELSE e[j - Len(c)]
    BY <1>8, <1>10, ConcatProperties
  <2>2. Len(p) = i - 1 /\ i - 1 \in 1..(Len(c) + Len(e)) /\ ~(i - 1 <= Len(c)) /\ (i - 1) - Len(c) = 1
    BY <1>1, <1>8, <1>10, <2>1
  <2>3. p[i - 1] = s[i]
    BY <1>10, <2>1, <2>2
  <2>4. ASSUME NEW j \in 1..(i - 2) PROVE p[j] = c[j]
    BY <1>1, <1>8, <1>10, <2>1
  <2> QED BY <2>1, <2>2, <2>3, <2>4
<1> HIDE DEF p
<1>12. /\ p \o d \in Seq(W) /\ Len(p \o d) = Len(p) + Len(d)
       /\ \A j \in 1..(Len(p) + Len(d)) : (p \o d)[j] = IF j <= Len(p) THEN p[j] ELSE d[j - Len(p)]
  BY <1>9, <1>11, ConcatProperties
<1>13. Len(p) + Len(d) = Len(s)
  BY <1>1, <1>9, <1>11
<1>14. /\ t \in Seq(W) /\ Len(t) = Len(s)
       /\ \A j \in 1..Len(s) : t[j] = IF j = i THEN s[i - 1] ELSE IF j = i - 1 THEN s[i] ELSE s[j]
  BY <1>1
<1> HIDE DEF t
<1>15. ASSUME NEW j \in 1..Len(s) PROVE (p \o d)[j] = t[j]
  <2>1. CASE j < i - 1
    <3>1. j \in 1..(i - 2) /\ j \in 1..(Len(s) - 1) /\ j <= Len(p) /\ j < i /\ j # i /\ j # i - 1
      BY <1>1, <1>11, <2>1
    <3>2. (p \o d)[j] = s[j]
      BY <1>7, <1>8, <1>11, <1>12, <1>13, <3>1
    <3> QED BY <1>14, <3>1, <3>2
  <2>2. CASE j = i - 1
    <3>1. j <= Len(p) /\ j # i
      BY <1>1, <1>11, <2>2
    <3> QED BY <1>11, <1>12, <1>13, <1>14, <2>2, <3>1
  <2>3. CASE j > i - 1
    <3> DEFINE k == j - (i - 1)
    <3>1. /\ k \in 1..((Len(s) - i) + 1) /\ (i + k) - 2 = j - 1 /\ ~(j <= Len(p)) /\ j # i - 1
          /\ j - Len(p) = k /\ j - 1 \in 1..(Len(s) - 1)
      BY <1>1, <1>11, <2>3
    <3>2. (p \o d)[j] = d[k]
      BY <1>12, <1>13, <3>1
    <3> HIDE DEF k
    <3>3. d[k] = r[j - 1]
      BY <1>9, <3>1
    <3>4. r[j - 1] = IF j - 1 < i THEN s[j - 1] ELSE s[(j - 1) + 1]
      BY <1>7, <3>1
    <3>5. (j - 1 < i <=> j = i) /\ (j - 1) + 1 = j
      BY <1>1, <2>3
    <3> QED BY <1>14, <3>1, <3>2, <3>3, <3>4, <3>5
  <2>4. j < i - 1 \/ j = i - 1 \/ j > i - 1
    BY <1>1
  <2> QED BY <2>1, <2>2, <2>3, <2>4
<1>16. p \o d = t
  BY <1>12, <1>13, <1>14, <1>15, SeqEqual
<1> QED BY <1>2, <1>16 DEF t

\* So goes a name up in an order that has it once.
LEMMA ShiftedUp ==
    ASSUME NEW s \in Seq(W), IsInjective(s), NEW i \in 2..Len(s)
    PROVE  Shifted(s, s[i], TRUE) = [s EXCEPT ![i - 1] = s[i], ![i] = s[i - 1]]
<1> DEFINE w == s[i]
           First(n) == s[n] = w /\ \A j \in 1..(n - 1) : s[j] # w
           n == CHOOSE n \in DOMAIN s : First(n)
<1>1. DOMAIN s = 1..Len(s) /\ Len(s) \in Nat /\ i \in 1..Len(s) /\ i > 1 /\ i \in Nat
  OBVIOUS
<1>2. \A j \in 1..Len(s) : s[j] = w => j = i
  BY <1>1 DEF IsInjective
<1>3. First(i)
  BY <1>1, <1>2
<1>4. n = i
  BY <1>1, <1>2, <1>3
<1>5. w \in ToSet(s)
  BY <1>1 DEF ToSet
<1>6. Shifted(s, w, TRUE) = InsertAt(RemoveAt(s, n), IF n > 1 THEN n - 1 ELSE 1, w)
  BY <1>5 DEF Shifted
<1> HIDE DEF n
<1>7. Shifted(s, w, TRUE) = InsertAt(RemoveAt(s, i), i - 1, w)
  BY <1>1, <1>4, <1>6
<1> QED BY <1>7, SwapIs

\* Two names that change places are there as before, each once.
LEMMA SwapKeeps ==
    ASSUME NEW s \in Seq(W), IsInjective(s), NEW i \in 2..Len(s)
    PROVE  LET t == [s EXCEPT ![i - 1] = s[i], ![i] = s[i - 1]] IN
           t \in Seq(W) /\ IsInjective(t)
<1> DEFINE t == [s EXCEPT ![i - 1] = s[i], ![i] = s[i - 1]]
<1>1. DOMAIN s = 1..Len(s) /\ Len(s) \in Nat /\ i \in 1..Len(s) /\ i - 1 \in 1..Len(s) /\ i - 1 # i
  OBVIOUS
<1>2. /\ t \in Seq(W) /\ DOMAIN t = 1..Len(s)
      /\ \A j \in 1..Len(s) : t[j] = IF j = i THEN s[i - 1] ELSE IF j = i - 1 THEN s[i] ELSE s[j]
  BY <1>1
<1> HIDE DEF t
<1> DEFINE k == i - 1
<1>3. k \in 1..Len(s) /\ k # i
  BY <1>1
<1>4. \A j \in 1..Len(s) : t[j] = IF j = i THEN s[k] ELSE IF j = k THEN s[i] ELSE s[j]
  BY <1>2
<1> HIDE DEF k
<1>5. IsInjective(t)
  BY <1>1, <1>2, <1>3, <1>4 DEF IsInjective
<1> QED BY <1>2, <1>5 DEF t

\* An entry that is moved up changes places with the one above it, in an order that
\* has only names that are displayed, each once.
THEOREM UpCorrect == Spec => []MoveGoesUp
<1>1. IInv => MoveGoesUp
  <2> SUFFICES ASSUME IInv, IsInjective(overrides.order),
                      ToSet(overrides.order) \subseteq ToSet(Entries),
                      NEW i \in 2..Len(Entries)
               PROVE  Listed(live, Moved(Entries[i], TRUE))
                        = [Entries EXCEPT ![i - 1] = Entries[i], ![i] = Entries[i - 1]]
    BY DEF MoveGoesUp
  <2> DEFINE s == Entries
             o == overrides
             w == s[i]
             M == Materialized(o.order)
             q == Shifted(M, w, TRUE)
             E == Shown(live, o)
  <2>1. TypeOK /\ o \in Overrides /\ live \in SUBSET W /\ configured \in Configs
    BY OverridesIs DEF IInv, TypeOK, W
  <2>2. s \in Seq(W) /\ IsInjective(s)
    BY <2>1, ListedIs DEF Entries
  <2>3. w \in W
    BY <2>2
  <2>4. /\ M \in Seq(W) /\ E \subseteq ToSet(M)
        /\ q \in Seq(W) /\ ToSet(q) = ToSet(M)
        /\ ToSet(s) = E /\ Distinct(Only(M, E)) = s
        /\ Listed(live, Moved(w, TRUE)) = Distinct(Only(q, E))
    <3> HIDE DEF s, w, M, q, E, o
    <3>1. TRUE \in BOOLEAN
      OBVIOUS
    <3> QED BY <2>1, <2>3, <3>1, MovedIs DEF s, M, q, E, o
  <2>5. M = s
    <3> DEFINE r == Only(s, W \ ToSet(o.order))
    <3>1. o.order \in Seq(W) /\ M = o.order \o r /\ ToSet(M) = ToSet(o.order) \cup E
      BY <2>1, <2>4, MaterializedIs DEF Materialized, Entries, Overrides, W
    <3>2. ToSet(M) \subseteq E
      BY <2>4, <3>1
    <3>3. r \in Seq(W) /\ IsInjective(r) /\ ToSet(r) \cap ToSet(o.order) = {}
      BY <2>2, OnlyType, OnlyInjective, OnlyToSet
    <3> HIDE DEF r, M, E, s
    <3>4. IsInjective(M)
      BY <3>1, <3>3, ConcatInjective
    <3>5. Only(M, E) = M
      BY <2>4, <3>2, OnlyAll
    <3>6. Distinct(M) = M
      BY <2>4, <3>4, DistinctSame
    <3> QED BY <2>4, <3>5, <3>6
  <2> DEFINE t == [s EXCEPT ![i - 1] = s[i], ![i] = s[i - 1]]
  <2>6. q = t
    <3> HIDE DEF s, M
    <3>1. i \in 2..Len(s)
      BY DEF s
    <3>2. Shifted(s, s[i], TRUE) = t
      BY <2>2, <3>1, ShiftedUp
    <3> QED BY <2>5, <3>2
  <2>7. t \in Seq(W) /\ IsInjective(t)
    <3> HIDE DEF s
    <3>1. i \in 2..Len(s)
      BY DEF s
    <3> QED BY <2>2, <3>1, SwapKeeps
  <2> HIDE DEF s, M, q, E, w
  <2>8. Only(q, E) = q
    <3>1. ToSet(q) \subseteq E
      BY <2>4, <2>5
    <3> QED BY <2>4, <3>1, OnlyAll
  <2>9. Distinct(q) = q
    BY <2>4, <2>6, <2>7, DistinctSame
  <2>10. Listed(live, Moved(w, TRUE)) = t
    BY <2>4, <2>6, <2>8, <2>9
  <2> QED BY <2>10 DEF w, s
<1> QED BY Invariance, <1>1, PTL

----------------------------------------------------------------------------
(* Renames.                                                                *)

\* What a rename makes of a name.
NewName(x, old, new) == IF x = old THEN new ELSE x

\* It makes names of names.
LEMMA RenamedParts ==
    ASSUME NEW s \in Seq(W), NEW x \in W, NEW old, NEW new \in W
    PROVE  Renamed(s, old, new) \in Seq(W) /\ NewName(x, old, new) \in W
BY RenamedType DEF NewName

\* Renaming goes through a sequence.
LEMMA RenamedAppend ==
    ASSUME NEW s \in Seq(W), NEW x \in W, NEW old, NEW new \in W
    PROVE  Renamed(Append(s, x), old, new) = Append(Renamed(s, old, new), NewName(x, old, new))
<1> DEFINE a == Append(s, x)
           p == Renamed(a, old, new)
           q == Append(Renamed(s, old, new), NewName(x, old, new))
<1>1. /\ DOMAIN s = 1..Len(s) /\ Len(s) \in Nat /\ a \in Seq(W) /\ Len(a) = Len(s) + 1
      /\ DOMAIN a = 1..(Len(s) + 1)
      /\ a[Len(s) + 1] = x /\ \A i \in 1..Len(s) : a[i] = s[i]
  OBVIOUS
<1> HIDE DEF a
<1>2. p \in Seq(W) /\ Len(p) = Len(s) + 1
  BY <1>1, RenamedType
<1>3. \A i \in 1..(Len(s) + 1) : p[i] = NewName(a[i], old, new)
  BY <1>1 DEF Renamed, NewName
<1> DEFINE u == Renamed(s, old, new)
<1>4. u \in Seq(W) /\ Len(u) = Len(s) /\ NewName(x, old, new) \in W
  BY RenamedType DEF NewName
<1>5. \A i \in 1..Len(s) : u[i] = NewName(s[i], old, new)
  BY <1>1 DEF Renamed, NewName
<1> HIDE DEF u, p
<1>6. /\ Append(u, NewName(x, old, new)) \in Seq(W)
      /\ Len(Append(u, NewName(x, old, new))) = Len(s) + 1
      /\ Append(u, NewName(x, old, new))[Len(s) + 1] = NewName(x, old, new)
      /\ \A i \in 1..Len(s) : Append(u, NewName(x, old, new))[i] = u[i]
  BY <1>4
<1>7. \A i \in 1..(Len(s) + 1) : i \in 1..Len(s) \/ i = Len(s) + 1
  BY <1>1
<1>8. \A i \in 1..(Len(s) + 1) : p[i] = Append(u, NewName(x, old, new))[i]
  BY <1>1, <1>3, <1>5, <1>6, <1>7
<1>9. p = Append(u, NewName(x, old, new))
  BY <1>2, <1>6, <1>8, SeqEqual
<1> QED BY <1>9 DEF u, p, a

\* In the empty sequence there is nothing to rename.
LEMMA RenamedEmpty == ASSUME NEW old, NEW new PROVE Renamed(<<>>, old, new) = <<>>
BY DEF Renamed

\* The names after a rename.
LEMMA RenamedToSet ==
    ASSUME NEW s \in Seq(W), NEW old, NEW new \in W
    PROVE  ToSet(Renamed(s, old, new)) = {NewName(y, old, new) : y \in ToSet(s)}
<1> DEFINE T == {r \in Seq(W) : ToSet(Renamed(r, old, new)) = {NewName(y, old, new) : y \in ToSet(r)}}
<1>1. <<>> \in T
  BY RenamedEmpty, ToSetEmpty
<1>2. ASSUME NEW r \in T, NEW x \in W PROVE Append(r, x) \in T
  <2>1. r \in Seq(W) /\ Append(r, x) \in Seq(W)
    OBVIOUS
  <2> DEFINE u == Renamed(r, old, new)
             y == NewName(x, old, new)
  <2>2. Renamed(Append(r, x), old, new) = Append(u, y) /\ u \in Seq(W)
    <3>1. r \in Seq(W) /\ u \in Seq(W)
      BY <2>1, RenamedParts
    <3> QED BY <3>1, RenamedAppend
  <2>3. ToSet(u) = {NewName(z, old, new) : z \in ToSet(r)}
    OBVIOUS
  <2> HIDE DEF u
  <2>4. ToSet(Append(u, y)) = ToSet(u) \cup {y}
    BY <2>2, ToSetAppend
  <2>5. ToSet(Append(r, x)) = ToSet(r) \cup {x}
    BY <2>1, ToSetAppend
  <2> QED BY <2>1, <2>2, <2>3, <2>4, <2>5
<1>3. T = Seq(W)
  <2>1. T \in SUBSET Seq(W)
    OBVIOUS
  <2> HIDE DEF T
  <2> QED BY <1>1, <1>2, <2>1, SeqInduction
<1> QED BY <1>3

\* What is in a set is renamed with the set.
LEMMA RenamedOnly ==
    ASSUME NEW s \in Seq(W), NEW old, NEW new \in W, NEW S, NEW R,
           \A y \in ToSet(s) : NewName(y, old, new) \in R <=> y \in S
    PROVE  Only(Renamed(s, old, new), R) = Renamed(Only(s, S), old, new)
<1> DEFINE T == {r \in Seq(W) : (\A y \in ToSet(r) : NewName(y, old, new) \in R <=> y \in S) =>
                            Only(Renamed(r, old, new), R) = Renamed(Only(r, S), old, new)}
<1>1. <<>> \in T
  BY RenamedEmpty, OnlyEmpty
<1>2. ASSUME NEW r \in T, NEW x \in W PROVE Append(r, x) \in T
  <2>1. r \in Seq(W) /\ Append(r, x) \in Seq(W)
    OBVIOUS
  <2> DEFINE u == Renamed(r, old, new)
             y == NewName(x, old, new)
             o == Only(r, S)
             Same(V) == \A z \in V : NewName(z, old, new) \in R <=> z \in S
  <2>2. Renamed(Append(r, x), old, new) = Append(u, y) /\ u \in Seq(W) /\ y \in W
    <3>1. r \in Seq(W) /\ u \in Seq(W) /\ y \in W
      BY <2>1, RenamedParts
    <3> QED BY <3>1, RenamedAppend
  <2>3. ToSet(Append(r, x)) = ToSet(r) \cup {x}
    BY <2>1, ToSetAppend
  <2>4. o \in Seq(W) /\ Only(Append(r, x), S) = IF x \in S THEN Append(o, x) ELSE o
    BY <2>1, OnlyType, OnlyAppend
  <2>5. Same(ToSet(r)) => Only(u, R) = Renamed(o, old, new)
    OBVIOUS
  <2> HIDE DEF u, y, o
  <2>6. Only(Append(u, y), R) = IF y \in R THEN Append(Only(u, R), y) ELSE Only(u, R)
    BY <2>2, OnlyAppend
  <2>7. Renamed(Append(o, x), old, new) = Append(Renamed(o, old, new), y)
    BY <2>4, RenamedAppend DEF y
  <2>8. Same(ToSet(Append(r, x))) =>
          Same(ToSet(r)) /\ (y \in R <=> x \in S)
    BY <2>3 DEF y
  <2>9. Same(ToSet(Append(r, x))) =>
          Only(Renamed(Append(r, x), old, new), R) = Renamed(Only(Append(r, x), S), old, new)
    <3> HIDE DEF Same
    <3> QED BY <2>2, <2>4, <2>5, <2>6, <2>7, <2>8
  <2> QED BY <2>1, <2>9
<1>3. T = Seq(W)
  <2>1. T \in SUBSET Seq(W)
    OBVIOUS
  <2> HIDE DEF T
  <2> QED BY <1>1, <1>2, <2>1, SeqInduction
<1> QED BY <1>3

\* A new name makes no two names one.
LEMMA RenamedDistinct ==
    ASSUME NEW s \in Seq(W), NEW old, NEW new \in W, new \notin ToSet(s)
    PROVE  Distinct(Renamed(s, old, new)) = Renamed(Distinct(s), old, new)
<1> DEFINE T == {r \in Seq(W) : new \notin ToSet(r) => Distinct(Renamed(r, old, new)) = Renamed(Distinct(r), old, new)}
<1>1. <<>> \in T
  BY RenamedEmpty, DistinctEmpty
<1>2. ASSUME NEW r \in T, NEW x \in W PROVE Append(r, x) \in T
  <2>1. r \in Seq(W) /\ Append(r, x) \in Seq(W)
    OBVIOUS
  <2> DEFINE u == Renamed(r, old, new)
             y == NewName(x, old, new)
             d == Distinct(r)
  <2>2. Renamed(Append(r, x), old, new) = Append(u, y) /\ u \in Seq(W) /\ y \in W
    <3>1. r \in Seq(W)
      OBVIOUS
    <3>2. u \in Seq(W) /\ y \in W
      BY <3>1, RenamedParts
    <3>3. Renamed(Append(r, x), old, new) = Append(Renamed(r, old, new), NewName(x, old, new))
      BY ONLY <3>1, x \in W, new \in W, RenamedAppend, Zenon
    <3> QED BY <3>2, <3>3
  <2>3. ToSet(Append(r, x)) = ToSet(r) \cup {x}
    BY <2>1, ToSetAppend
  <2>4. d \in Seq(W) /\ Distinct(Append(r, x)) = AddName(d, x) /\ ToSet(d) = ToSet(r)
    BY <2>1, DistinctType, DistinctAppend, DistinctToSet
  <2>5. new \notin ToSet(r) => Distinct(u) = Renamed(d, old, new)
    OBVIOUS
  <2>6. ToSet(u) = {NewName(z, old, new) : z \in ToSet(r)}
    BY <2>1, RenamedToSet
  <2> HIDE DEF u, y, d
  <2>7. Distinct(Append(u, y)) = AddName(Distinct(u), y) /\ ToSet(Distinct(u)) = ToSet(u)
    BY <2>2, DistinctAppend, DistinctToSet
  <2>8. Renamed(Append(d, x), old, new) = Append(Renamed(d, old, new), y)
    <3>1. d \in Seq(W)
      BY <2>4
    <3> QED BY <3>1, RenamedAppend DEF y
  <2>9. ASSUME new \notin ToSet(Append(r, x))
        PROVE  Distinct(Renamed(Append(r, x), old, new)) = Renamed(Distinct(Append(r, x)), old, new)
    <3>1. new \notin ToSet(r) /\ x # new
      BY <2>3, <2>9
    <3>2. y \in ToSet(u) <=> x \in ToSet(r)
      BY <2>6, <3>1 DEF NewName, y
    <3> QED BY <2>2, <2>4, <2>5, <2>7, <2>8, <3>1, <3>2 DEF AddName
  <2> QED BY <2>1, <2>9
<1>3. T = Seq(W)
  <2>1. T \in SUBSET Seq(W)
    OBVIOUS
  <2> HIDE DEF T
  <2> QED BY <1>1, <1>2, <2>1, SeqInduction
<1> QED BY <1>3

\* A rename is not seen where neither name is.
LEMMA RenamedUnseen ==
    ASSUME NEW s \in Seq(W), NEW old, NEW new \in W, NEW S, old \notin S, new \notin S
    PROVE  Only(Renamed(s, old, new), S) = Only(s, S)
<1> DEFINE T == {r \in Seq(W) : Only(Renamed(r, old, new), S) = Only(r, S)}
<1>1. <<>> \in T
  BY RenamedEmpty
<1>2. ASSUME NEW r \in T, NEW x \in W PROVE Append(r, x) \in T
  <2>1. r \in Seq(W) /\ Append(r, x) \in Seq(W)
    OBVIOUS
  <2> DEFINE u == Renamed(r, old, new)
             y == NewName(x, old, new)
  <2>2. Renamed(Append(r, x), old, new) = Append(u, y) /\ u \in Seq(W) /\ y \in W
    <3>1. r \in Seq(W) /\ u \in Seq(W) /\ y \in W
      BY <2>1, RenamedParts
    <3> QED BY <3>1, RenamedAppend
  <2>3. Only(u, S) = Only(r, S)
    OBVIOUS
  <2>4. Only(Append(r, x), S) = IF x \in S THEN Append(Only(r, S), x) ELSE Only(r, S)
    BY <2>1, OnlyAppend
  <2>5. (y \in S <=> x \in S) /\ (x \in S => y = x)
    BY DEF NewName
  <2> HIDE DEF u, y
  <2>6. Only(Append(u, y), S) = IF y \in S THEN Append(Only(u, S), y) ELSE Only(u, S)
    BY <2>2, OnlyAppend
  <2>7. Only(Renamed(Append(r, x), old, new), S) = Only(Append(r, x), S)
    BY <2>2, <2>3, <2>4, <2>5, <2>6
  <2> QED BY <2>1, <2>7
<1>3. T = Seq(W)
  <2>1. T \in SUBSET Seq(W)
    OBVIOUS
  <2> HIDE DEF T
  <2> QED BY <1>1, <1>2, <2>1, SeqInduction
<1> QED BY <1>3

\* Where the old name is not, nothing is renamed.
LEMMA RenamedSame ==
    ASSUME NEW s \in Seq(W), NEW old, NEW new \in W, old \notin ToSet(s)
    PROVE  Renamed(s, old, new) = s
<1> DEFINE T == {r \in Seq(W) : old \notin ToSet(r) => Renamed(r, old, new) = r}
<1>1. <<>> \in T
  BY RenamedEmpty
<1>2. ASSUME NEW r \in T, NEW x \in W PROVE Append(r, x) \in T
  <2>1. r \in Seq(W) /\ Append(r, x) \in Seq(W)
    OBVIOUS
  <2>2. Renamed(Append(r, x), old, new) = Append(Renamed(r, old, new), NewName(x, old, new))
    BY <2>1, RenamedAppend
  <2>3. ToSet(Append(r, x)) = ToSet(r) \cup {x}
    BY <2>1, ToSetAppend
  <2>4. old \notin ToSet(Append(r, x)) => Renamed(Append(r, x), old, new) = Append(r, x)
    BY <2>2, <2>3 DEF NewName
  <2> QED BY <2>1, <2>4
<1>3. T = Seq(W)
  <2>1. T \in SUBSET Seq(W)
    OBVIOUS
  <2> HIDE DEF T
  <2> QED BY <1>1, <1>2, <2>1, SeqInduction
<1> QED BY <1>3

\* Renaming two sequences renames both.
LEMMA RenamedConcat ==
    ASSUME NEW s \in Seq(W), NEW t \in Seq(W), NEW old, NEW new \in W
    PROVE  Renamed(s \o t, old, new) = Renamed(s, old, new) \o Renamed(t, old, new)
<1> DEFINE T == {r \in Seq(W) : Renamed(s \o r, old, new) = Renamed(s, old, new) \o Renamed(r, old, new)}
<1>1. <<>> \in T
  <2>1. Renamed(s, old, new) \in Seq(W)
    BY RenamedType
  <2> QED BY <2>1, ConcatNone, RenamedEmpty
<1>2. ASSUME NEW r \in T, NEW x \in W PROVE Append(r, x) \in T
  <2>1. r \in Seq(W) /\ Append(r, x) \in Seq(W)
    OBVIOUS
  <2> DEFINE a == Renamed(s, old, new)
             u == Renamed(r, old, new)
             y == NewName(x, old, new)
  <2>2. Renamed(Append(r, x), old, new) = Append(u, y) /\ u \in Seq(W) /\ y \in W
    <3>1. r \in Seq(W) /\ u \in Seq(W) /\ y \in W
      BY <2>1, RenamedParts
    <3> QED BY <3>1, RenamedAppend
  <2>3. a \in Seq(W)
    BY RenamedType
  <2>4. s \o Append(r, x) = Append(s \o r, x) /\ s \o r \in Seq(W)
    BY <2>1, ConcatAppend
  <2>5. Renamed(Append(s \o r, x), old, new) = Append(Renamed(s \o r, old, new), y)
    <3> DEFINE sr == s \o r
    <3>1. sr \in Seq(W)
      BY <2>4
    <3> HIDE DEF sr
    <3>2. Renamed(Append(sr, x), old, new) = Append(Renamed(sr, old, new), y)
      BY <3>1, RenamedAppend DEF y
    <3> QED BY <3>2 DEF sr
  <2>6. Renamed(s \o r, old, new) = a \o u
    OBVIOUS
  <2> HIDE DEF a, u, y
  <2>7. a \o Append(u, y) = Append(a \o u, y)
    BY <2>2, <2>3, ConcatAppend
  <2>8. Renamed(s \o Append(r, x), old, new) = a \o Renamed(Append(r, x), old, new)
    BY <2>2, <2>4, <2>5, <2>6, <2>7
  <2> QED BY <2>1, <2>8 DEF a
<1>3. T = Seq(W)
  <2>1. T \in SUBSET Seq(W)
    OBVIOUS
  <2> HIDE DEF T
  <2> QED BY <1>1, <1>2, <2>1, SeqInduction
<1> QED BY <1>3

\* What of the merged names is in a set.
LEMMA MergedOnly ==
    ASSUME configured \in Configs, NEW ws \in SUBSET W, NEW o \in Overrides, NEW S
    PROVE  Only(Merged(ws, o), S) =
             Distinct(Only(configured, S) \o Only(Names, ws \cap S) \o Only(o.remembered, S))
<1> DEFINE l == Live(ws)
           r == o.remembered
           cl == configured \o l
           m == cl \o r
<1>1. configured \in Seq(W) /\ l \in Seq(W) /\ r \in Seq(W) /\ Names \in Seq(W)
  BY MergedIs, NamesAssumption DEF W
<1>2. Merged(ws, o) = Distinct(m)
  BY DEF Merged
<1>3. Only(l, S) = Only(Names, ws \cap S)
  BY <1>1, OnlyOnly DEF Live
<1> HIDE DEF l, r
<1>4. cl \in Seq(W) /\ Only(cl, S) = Only(configured, S) \o Only(l, S)
  <2>1. configured \o l \in Seq(W)
    BY <1>1
  <2>2. Only(configured \o l, S) = Only(configured, S) \o Only(l, S)
    <3>1. configured \in Seq(W) /\ l \in Seq(W)
      BY <1>1
    <3> QED BY ONLY <3>1, OnlyConcat
  <2> QED BY <2>1, <2>2
<1> HIDE DEF cl
<1>5. m \in Seq(W) /\ Only(m, S) = Only(cl, S) \o Only(r, S)
  <2>1. cl \in Seq(W) /\ r \in Seq(W)
    BY <1>1, <1>4
  <2>2. cl \o r \in Seq(W)
    BY <2>1
  <2> QED BY <2>1, <2>2, OnlyConcat
<1> HIDE DEF m
<1>6. Only(Distinct(m), S) = Distinct(Only(m, S))
  BY <1>5, DistinctOnly
<1> QED BY <1>2, <1>3, <1>4, <1>5, <1>6 DEF r

\* A workspace that has a place in the order keeps it under a name that is new, and
\* so does every other.
LEMMA RenameKeeps ==
    ASSUME TypeOK, NEW old \in ToSet(overrides.order) \ ToSet(configured), NEW new \in Unknown
    PROVE  Listed(LiveAfter(old, new), OverridesAfter(old, new)) = Renamed(Entries, old, new)
<1> DEFINE o == overrides
           v == OverridesAfter(old, new)
           us == LiveAfter(old, new)
           s == o.order
           t == Renamed(s, old, new)
           m == Merged(live, o)
           n == Merged(us, v)
           E == Shown(live, o)
           F == Shown(us, v)
           Q == E \ ToSet(s)
           p == Only(s, E)
           a == Distinct(p)
           b == Only(m, Q)
<1>1. o \in Overrides /\ live \in SUBSET W /\ configured \in Configs
  BY OverridesIs DEF TypeOK, W
<1>2. s \in Seq(W) /\ o.remembered \in Seq(W) /\ o.hidden \in SUBSET W
  BY <1>1 DEF Overrides
<1>3. /\ old \in ToSet(s) /\ old \notin ToSet(configured) /\ old \in W
      /\ new \in W /\ new \notin ToSet(configured) /\ new \notin live /\ new \notin o.hidden
      /\ new \notin ToSet(s) /\ new \notin ToSet(o.remembered) /\ new # old
  BY <1>2, ToSetIn DEF Unknown, W
<1>4. /\ v.order = t /\ v.remembered = Renamed(o.remembered, old, new)
      /\ v.hidden = IF old \in o.hidden THEN (o.hidden \ {old}) \cup {new} ELSE o.hidden
      /\ us = IF old \in live THEN (live \ {old}) \cup {new} ELSE live
  BY DEF OverridesAfter, LiveAfter
<1>5. v \in Overrides /\ us \in SUBSET W
  <2>1. t \in Seq(W) /\ Renamed(o.remembered, old, new) \in Seq(W)
    BY <1>2, <1>3, RenamedType
  <2>2. v.hidden \in SUBSET W /\ us \in SUBSET W
    BY <1>1, <1>2, <1>3, <1>4
  <2>3. v = [order |-> v.order, hidden |-> v.hidden, remembered |-> v.remembered]
    BY DEF OverridesAfter
  <2> HIDE DEF v, t, us
  <2> QED BY <1>4, <2>1, <2>2, <2>3 DEF Overrides
<1> HIDE DEF v, us
<1>6. /\ Entries = a \o b /\ E \subseteq W
      /\ m \in Seq(W) /\ ToSet(m) = ToSet(configured) \cup live \cup ToSet(o.remembered)
  BY <1>1, ListedForm, MergedIs DEF Entries
<1>7. /\ Listed(us, v) = Distinct(Only(v.order, F)) \o Only(n, F \ ToSet(v.order))
      /\ ToSet(n) = ToSet(configured) \cup us \cup ToSet(v.remembered)
  BY <1>1, <1>5, ListedForm, MergedIs
<1>8. ToSet(t) = {NewName(y, old, new) : y \in ToSet(s)}
      /\ ToSet(v.remembered) = {NewName(y, old, new) : y \in ToSet(o.remembered)}
  BY <1>2, <1>3, <1>4, RenamedToSet
<1>9. E = ToSet(m) \ o.hidden /\ F = ToSet(n) \ v.hidden
  BY DEF Shown
<1> HIDE DEF m, n, E, F, t, s, o
\* What is shown changes by the rename only.
<1>10. old \notin F /\ new \notin E
  BY <1>3, <1>4, <1>6, <1>7, <1>8, <1>9 DEF NewName
<1>11. new \in F <=> old \in E
  BY <1>3, <1>4, <1>6, <1>7, <1>8, <1>9 DEF NewName
<1>12. ASSUME NEW x, x # old, x # new PROVE x \in F <=> x \in E
  <2>1. x \in us <=> x \in live
    BY <1>4, <1>12
  <2>2. x \in v.hidden <=> x \in o.hidden
    BY <1>4, <1>12
  <2>3. x \in ToSet(v.remembered) <=> x \in ToSet(o.remembered)
    BY <1>8, <1>12 DEF NewName
  <2> QED BY <1>6, <1>7, <1>9, <2>1, <2>2, <2>3
\* The names of the order.
<1>13. Only(t, F) = Renamed(p, old, new)
  <2>1. ASSUME NEW y \in ToSet(s) PROVE NewName(y, old, new) \in F <=> y \in E
    <3>1. y # new
      BY <1>3
    <3> QED BY <1>11, <1>12, <3>1 DEF NewName
  <2> QED BY <1>2, <1>3, <2>1, RenamedOnly DEF s, t, o
<1>14. p \in Seq(W) /\ new \notin ToSet(p)
  BY <1>2, <1>3, OnlyType, OnlyToSet DEF s, o
<1> HIDE DEF p
<1>15. Distinct(Only(t, F)) = Renamed(a, old, new)
  BY <1>3, <1>13, <1>14, RenamedDistinct
\* The others.
<1>16. F \ ToSet(t) = Q
  <2>1. new \in ToSet(t)
    BY <1>3, <1>8 DEF NewName
  <2>2. ASSUME NEW x, x # old, x # new PROVE x \in ToSet(t) <=> x \in ToSet(s)
    BY <1>8, <2>2 DEF NewName
  <2>3. ASSUME NEW x PROVE x \in F \ ToSet(t) <=> x \in Q
    <3>1. CASE x = old
      BY <1>3, <1>10, <3>1
    <3>2. CASE x = new
      BY <1>10, <2>1, <3>2
    <3>3. CASE x # old /\ x # new
      BY <1>12, <2>2, <3>3
    <3> QED BY <3>1, <3>2, <3>3
  <2> QED BY <2>3
<1>17. old \notin Q /\ new \notin Q
  BY <1>3, <1>10
<1> HIDE DEF Q
<1>18. Only(n, Q) = b
  <2>1. us \cap Q = live \cap Q
    BY <1>4, <1>17
  <2>2. Only(v.remembered, Q) = Only(o.remembered, Q)
    BY <1>2, <1>3, <1>4, <1>17, RenamedUnseen DEF o
  <2>3. Only(n, Q) = Distinct(Only(configured, Q) \o Only(Names, us \cap Q) \o Only(v.remembered, Q))
    BY <1>1, <1>5, MergedOnly DEF n
  <2>4. b = Distinct(Only(configured, Q) \o Only(Names, live \cap Q) \o Only(o.remembered, Q))
    BY <1>1, MergedOnly DEF m
  <2> QED BY <2>1, <2>2, <2>3, <2>4
<1>19. b \in Seq(W) /\ Renamed(b, old, new) = b
  <2>1. b \in Seq(W) /\ ToSet(b) \subseteq Q
    BY <1>6, OnlyType, OnlyToSet
  <2> HIDE DEF b
  <2> QED BY <1>3, <1>17, <2>1, RenamedSame
<1>20. a \in Seq(W)
  BY <1>14, DistinctType
<1> HIDE DEF a, b
<1>21. Renamed(a \o b, old, new) = Renamed(a, old, new) \o Renamed(b, old, new)
  <2>1. a \in Seq(W) /\ b \in Seq(W) /\ new \in W
    BY <1>3, <1>19, <1>20
  <2> QED BY <2>1, RenamedConcat
<1>22. Listed(us, v) = Renamed(a, old, new) \o b
  BY <1>4, <1>7, <1>15, <1>16, <1>18
<1> QED BY <1>6, <1>19, <1>21, <1>22 DEF us, v

\* A rename keeps the place of a workspace in the order, and of all others.
THEOREM RenamesCorrect == Spec => []RenameKeepsPlace
<1>1. IInv => RenameKeepsPlace
  BY RenameKeeps DEF IInv, RenameKeepsPlace
<1> QED BY Invariance, <1>1, PTL

----------------------------------------------------------------------------
(* The file.  With two processes neither property holds.                   *)

\* There is one process.
Alone == \E p : Processes = {p}

\* What is under way with the temporary file: it is another node than the file; a
\* process that writes it has it open and torn; one about to rename it has written
\* it whole, and fails only where rename does not replace its target.
TmpInv ==
    \A p \in Processes :
        /\ tmp # NoNode => tmp # file
        /\ pc[p] = "write" => tmp # NoNode /\ open[p] = tmp /\ content[tmp] = Garbage
        /\ pc[p] \in {"rename", "remove", "retry"} => tmp # NoNode /\ content[tmp] = memory[p]
        /\ replaces => pc[p] \notin {"remove", "retry"}

\* A running process knows of every change that was saved.
MemoryInv == \A p \in Processes : replaces /\ pc[p] # "down" => acknowledged \subseteq memory[p]

\* Their inductive invariant.
FileInv == FileTypeOK /\ TmpInv /\ MemoryInv /\ FileWhole /\ SavedStaysSaved

\* What is torn is nothing that a process would write.
LEMMA GarbageIsForeign == \A s \in SUBSET Changes : s # Garbage
BY NoneAssumption DEF Garbage

\* Before any process has started there is no file and the invariant holds.
LEMMA FileInitInv == FileInit => FileInv
BY DEF FileInit, FileInv, FileTypeOK, TmpInv, MemoryInv, FileWhole, SavedStaysSaved, Readable

\* Each step of load_default and atomic_write, and a crash, keep it.
LEMMA FileStepInv == ASSUME Alone PROVE FileInv /\ [FileNext]_fileVars => FileInv'
<1> SUFFICES ASSUME FileInv, [FileNext]_fileVars PROVE FileInv'
  OBVIOUS
<1>0. PICK p : Processes = {p}
  BY DEF Alone
<1> USE NoneAssumption, GarbageIsForeign
<1> USE DEF FileInv, FileTypeOK, TmpInv, MemoryInv, FileWhole, SavedStaysSaved, Readable
<1>1. CASE Start(p)
  <2>1. memory' \in [Processes -> SUBSET Changes] /\ (replaces => acknowledged \subseteq memory'[p])
    <3>1. memory' = [memory EXCEPT ![p] = IF Readable THEN content[file] ELSE {}]
      BY <1>1 DEF Start
    <3>2. CASE Readable
      BY <1>0, <3>1, <3>2
    <3>3. CASE ~Readable
      BY <1>0, <3>1, <3>3
    <3> QED
      BY <3>2, <3>3
  <2>2. pc[p] = "down" /\ pc' = [pc EXCEPT ![p] = "idle"]
        /\ UNCHANGED <<replaces, file, tmp, content, open, acknowledged>>
    BY <1>1 DEF Start
  <2> QED
    BY <1>0, <2>1, <2>2
<1>2. CASE Crash(p)
  BY <1>0, <1>2 DEF Crash
<1>3. ASSUME NEW c \in Changes, Change(p, c) PROVE FileInv'
  BY <1>0, <1>3 DEF Change
<1>4. CASE OpenTmp(p)
  <2>1. PICK n \in Nodes :
          /\ IF tmp # NoNode THEN n = tmp
             ELSE n \notin {file, tmp} \cup {open[q] : q \in Processes}
          /\ tmp' = n
          /\ content' = [content EXCEPT ![n] = Garbage]
          /\ open' = [open EXCEPT ![p] = n]
    BY <1>4 DEF OpenTmp
  <2>2. pc[p] = "save" /\ pc' = [pc EXCEPT ![p] = "write"]
        /\ UNCHANGED <<replaces, file, memory, acknowledged>>
    BY <1>4 DEF OpenTmp
  <2>3. n # file /\ n # NoNode
    BY <1>0, <2>1
  <2>4. content'[n] = Garbage /\ (file # NoNode => content'[file] = content[file])
    BY <2>1, <2>3
  <2>5. FileTypeOK' /\ TmpInv'
    BY <1>0, <2>1, <2>2, <2>3, <2>4
  <2>6. MemoryInv' /\ FileWhole' /\ SavedStaysSaved'
    BY <1>0, <2>2, <2>4
  <2> QED
    BY <2>5, <2>6
<1>5. CASE WriteTmp(p)
  BY <1>0, <1>5 DEF WriteTmp
<1>6. CASE RenameTmp(p)
  BY <1>0, <1>6 DEF RenameTmp, TakesPlace
<1>7. CASE RenameFails(p)
  BY <1>0, <1>7 DEF RenameFails
<1>8. CASE RemoveFile(p)
  BY <1>0, <1>8 DEF RemoveFile
<1>9. CASE RenameAgain(p)
  BY <1>0, <1>9 DEF RenameAgain, TakesPlace
<1>10. CASE GiveUp(p)
  BY <1>0, <1>10 DEF GiveUp
<1>11. CASE UNCHANGED fileVars
  BY <1>11 DEF fileVars
<1> QED
  BY <1>0, <1>1, <1>2, <1>3, <1>4, <1>5, <1>6, <1>7, <1>8, <1>9, <1>10, <1>11 DEF FileNext

\* The inductive invariant of load_default and atomic_write: what is under way with
\* the temporary file, and that a running process knows of what was saved.
THEOREM FileInvariance == ASSUME Alone PROVE FileSpec => []FileInv
BY FileInitInv, FileStepInv, PTL DEF FileSpec

\* Names stand for nodes, a process has open a node or none, and a node holds a
\* set of changes or is torn, wherever atomic_write was interrupted.
THEOREM FileTypeCorrect == ASSUME Alone PROVE FileSpec => []FileTypeOK
<1>1. FileInv => FileTypeOK
  BY DEF FileInv
<1> QED
  BY FileInvariance, <1>1, PTL

\* Whoever reads the file at any moment finds a whole one (atomic_write).
THEOREM FileCorrect == ASSUME Alone PROVE FileSpec => []FileWhole
<1>1. FileInv => FileWhole
  BY DEF FileInv
<1> QED
  BY FileInvariance, <1>1, PTL

\* What was saved is in the file for good, where rename replaces its target.
THEOREM SavedCorrect == ASSUME Alone PROVE FileSpec => []SavedStaysSaved
<1>1. FileInv => SavedStaysSaved
  BY DEF FileInv
<1> QED
  BY FileInvariance, <1>1, PTL

=============================================================================

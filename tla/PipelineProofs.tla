---------------------------- MODULE PipelineProofs ----------------------------
(***************************************************************************)
(* TypeOK, ShownInOrder and SavedLast for any capacity of the queues, any  *)
(* number of messages and of texts.                                        *)
(*                                                                         *)
(* What goes through a queue is on one side of it, in it, or on the other  *)
(* (Continues): what was accepted is what the agent has taken and then the *)
(* inbound queue (Inbound), what was said is what the dispatcher has shown *)
(* and then what is on its way (Outbound).  The agent speaks of what it has*)
(* taken last and counts its texts up (Spoken); that nothing is accepted   *)
(* twice needs that no two producers hold one message (Numbered).  main    *)
(* joins the threads one after the other: what it has joined when it is at *)
(* a stage stays ended (Gone), because the only thread that can come back  *)
(* is that of a sensor, started by a role switch.                          *)
(***************************************************************************)
EXTENDS Pipeline, FiniteSets, FiniteSetTheorems, TLAPS

(* What main has not yet started, and what it has joined, stage by stage. *)
Starting == {"agent", "cli", "ws", "dispatch"}
Saving == {"save", "end"}
JoiningAgent == {"stopAgent"} \cup Saving
JoiningWs == {"stopWs"} \cup JoiningAgent
JoiningCli == {"stopCli"} \cup JoiningWs
JoiningDispatch == {"stopDispatch"} \cup JoiningCli
JoiningSensors == {"stopSensors"} \cup JoiningDispatch

Gone ==
  /\ main = "agent" => agent = "off"
  /\ main \in Starting => disp = "off"
  /\ main \in JoiningSensors => place["cron"] = "ended"
  /\ main \in JoiningCli => disp = "ended"
  /\ main \in JoiningWs => place["cli"] = "ended"
  /\ main \in JoiningAgent => place["ws"] = "ended"
  /\ main \in Saving => agent = "ended"

(* TypeOK, and who has a message has one. *)
Typed ==
  /\ TypeOK
  /\ agent = "turn" => turn \in Msgs
  /\ disp = "send" => item \in Item
  /\ running => agent # "ended" /\ disp # "ended"

(* Each message is given out once and pushed once. *)
Numbered ==
  /\ \A p \in Producers : holds[p] <= made /\ (place[p] = "push" => holds[p] # 0)
  /\ \A p, q \in Producers : holds[p] = holds[q] /\ holds[p] # 0 => p = q
  /\ \A i \in 1..Len(accepted) : accepted[i] <= made /\ \A p \in Producers : holds[p] # accepted[i]
  /\ \A i, k \in 1..Len(accepted) : accepted[i] = accepted[k] => i = k

(* The sequence s begins with t, and goes on with r. *)
Begins(s, t) == Len(t) <= Len(s) /\ \A i \in 1..Len(t) : s[i] = t[i]
Continues(s, t, r) ==
  /\ Begins(s, t)
  /\ Len(s) = Len(t) + Len(r)
  /\ \A i \in 1..Len(r) : s[Len(t) + i] = r[i]

Inbound ==
  /\ Begins(accepted, taken)
  /\ agent # "ended" => Continues(accepted, taken, inbound)

Spoken ==
  /\ agent = "turn" => taken # <<>> /\ turn = taken[Len(taken)]
  /\ \A i \in 1..Len(said) : \E a \in 1..Len(taken) : said[i].msg = taken[a]
  /\ agent = "turn" => \A i \in 1..Len(said) : said[i].msg = turn => said[i].nr <= texts
  /\ \A i, k \in 1..Len(said) : \A a, b \in 1..Len(taken) :
       (said[i].msg = taken[a] /\ said[k].msg = taken[b] /\ i < k)
         => a < b \/ (a = b /\ said[i].nr < said[k].nr)

Outbound ==
  \E front \in Seq(Item) :
    /\ \A c \in Channels : shown[c] = For(c, front)
    /\ Begins(said, front)
    /\ disp # "ended" => Continues(said, front, OnTheWay)

PipeInv == Typed /\ Gone /\ Numbered /\ Inbound /\ Spoken /\ Outbound
-----------------------------------------------------------------------------
(* The positions before k are as many as the rank of k says. *)
LEMMA FinitePositions ==
  ASSUME NEW n \in Nat, NEW I \in SUBSET (1..n)
  PROVE  /\ IsFiniteSet(I) /\ Cardinality(I) \in Nat /\ Cardinality(I) <= n
         /\ \A k \in I : k \in Nat
<1>1. IsFiniteSet(1..n) /\ Cardinality(1..n) = n
  BY FS_Interval
<1>2. IsFiniteSet(I) /\ Cardinality(I) <= n
  BY <1>1, FS_Subset
<1> QED
  BY <1>2, FS_CardinalityType

LEMMA RankInBounds ==
  ASSUME NEW n \in Nat, NEW I \in SUBSET (1..n), NEW k \in I
  PROVE  Rank(I, k) \in Nat /\ Rank(I, k) + 1 \in 1..Cardinality(I)
<1> DEFINE Below == {j \in I : j < k}
<1>1. IsFiniteSet(I) /\ Cardinality(I) \in Nat /\ k \in Nat
  BY FinitePositions
<1>2. Below \subseteq I /\ k \notin Below
  BY <1>1
<1>3. IsFiniteSet(Below) /\ Cardinality(Below) \in Nat /\ Cardinality(Below) <= Cardinality(I)
  BY <1>1, <1>2, FS_Subset, FS_CardinalityType
<1>4. Cardinality(Below) # Cardinality(I)
  BY <1>1, <1>2, FS_Subset
<1>5. Rank(I, k) = Cardinality(Below)
  BY DEF Rank
<1> HIDE DEF Below
<1> QED
  BY <1>1, <1>3, <1>4, <1>5

(* A later position has the higher rank. *)
LEMMA RankInOrder ==
  ASSUME NEW n \in Nat, NEW I \in SUBSET (1..n), NEW j \in I, NEW k \in I, j < k
  PROVE  Rank(I, j) < Rank(I, k)
<1> DEFINE Low == {i \in I : i < j}
           High == {i \in I : i < k}
<1>1. IsFiniteSet(I) /\ j \in Nat /\ k \in Nat /\ \A i \in I : i \in Nat
  BY FinitePositions
<1>0. ~(j < j) /\ \A i \in I : i < j => i < k
  BY <1>1
<1>2. Low \subseteq High /\ High \subseteq I /\ j \in High /\ j \notin Low
  BY <1>0
<1>3. IsFiniteSet(High) /\ Cardinality(High) \in Nat
  BY <1>1, <1>2, FS_Subset, FS_CardinalityType
<1>4. IsFiniteSet(Low) /\ Cardinality(Low) \in Nat /\ Cardinality(Low) <= Cardinality(High)
  BY <1>2, <1>3, FS_Subset, FS_CardinalityType
<1>5. Cardinality(Low) # Cardinality(High)
  BY <1>2, <1>3, FS_Subset
<1>6. Rank(I, j) = Cardinality(Low) /\ Rank(I, k) = Cardinality(High)
  BY DEF Rank
<1> HIDE DEF Low, High
<1> QED
  BY <1>3, <1>4, <1>5, <1>6

(* So the positions of I are enumerated in their order, each once. *)
LEMMA PositionsInOrder ==
  ASSUME NEW n \in Nat, NEW I \in SUBSET (1..n)
  PROVE  /\ \A i \in 1..Cardinality(I) : Position(I, i) \in I /\ Rank(I, Position(I, i)) = i - 1
         /\ \A k \in I : Position(I, Rank(I, k) + 1) = k
         /\ \A i, j \in 1..Cardinality(I) : i < j => Position(I, i) < Position(I, j)
<1> DEFINE f == [k \in I |-> Rank(I, k) + 1]
<1>1. IsFiniteSet(I) /\ Cardinality(I) \in Nat /\ \A k \in I : k \in Nat
  BY FinitePositions
<1>2. \A k \in I : Rank(I, k) \in Nat /\ Rank(I, k) + 1 \in 1..Cardinality(I)
  BY RankInBounds
<1>3. \A j, k \in I : j < k => Rank(I, j) < Rank(I, k)
  BY RankInOrder
<1>4. \A j, k \in I : Rank(I, j) = Rank(I, k) => j = k
  <2> SUFFICES ASSUME NEW j \in I, NEW k \in I, Rank(I, j) = Rank(I, k), j # k
               PROVE  FALSE
    OBVIOUS
  <2>1. j < k \/ k < j
    BY <1>1
  <2> QED
    BY <1>2, <1>3, <2>1
<1>5. f \in [I -> 1..Cardinality(I)] /\ \A k \in I : f[k] = Rank(I, k) + 1
  BY <1>2
<1>6. \A j, k \in I : f[j] = f[k] => j = k
  <2> HIDE DEF f
  <2>1. \A j, k \in I : f[j] = f[k] => Rank(I, j) = Rank(I, k)
    BY <1>2, <1>5
  <2> QED
    BY <1>4, <2>1
<1> HIDE DEF f
<1>7. f \in Injection(I, 1..Cardinality(I))
  BY <1>5, <1>6 DEF Injection, IsInjective
<1>8. IsFiniteSet(1..Cardinality(I)) /\ Cardinality(1..Cardinality(I)) = Cardinality(I)
  BY <1>1, FS_Interval
<1>9. f \in Surjection(I, 1..Cardinality(I))
  BY <1>1, <1>7, <1>8, FS_Injection
<1>10. \A i \in 1..Cardinality(I) : \E k \in I : f[k] = i
  BY <1>9 DEF Surjection
<1>11. \A i \in 1..Cardinality(I) : \E k \in I : Rank(I, k) = i - 1
  <2> TAKE i \in 1..Cardinality(I)
  <2>1. PICK k \in I : f[k] = i
    BY <1>10
  <2>2. Rank(I, k) = i - 1
    BY <1>2, <1>5, <2>1
  <2> QED
    BY <2>2
<1>12. \A i \in 1..Cardinality(I) : Position(I, i) \in I /\ Rank(I, Position(I, i)) = i - 1
  BY <1>11 DEF Position
<1>13. ASSUME NEW k \in I PROVE Position(I, Rank(I, k) + 1) = k
  <2>1. Rank(I, k) + 1 \in 1..Cardinality(I) /\ (Rank(I, k) + 1) - 1 = Rank(I, k)
    BY <1>2
  <2> QED
    BY <1>4, <1>12, <2>1
<1>14. ASSUME NEW i \in 1..Cardinality(I), NEW j \in 1..Cardinality(I), i < j
       PROVE  Position(I, i) < Position(I, j)
  <2> DEFINE p == Position(I, i)
             q == Position(I, j)
  <2>1. p \in I /\ q \in I /\ Rank(I, p) = i - 1 /\ Rank(I, q) = j - 1
    BY <1>12
  <2>2. i - 1 < j - 1 /\ i - 1 \in Int /\ j - 1 \in Int
    BY <1>14
  <2>3. p \in Nat /\ q \in Nat
    BY <1>1, <2>1
  <2> HIDE DEF p, q
  <2>4. p # q
    BY <2>1, <2>2
  <2>5. ~(q < p)
    BY <1>3, <2>1, <2>2
  <2>6. p < q
    BY <2>3, <2>4, <2>5
  <2> QED
    BY <2>6 DEF p, q
<1> QED
  BY <1>12, <1>13, <1>14

(* A selection is a sequence of the same elements, no longer. *)
LEMMA SelectionType ==
  ASSUME NEW S, NEW s \in Seq(S), NEW I \in SUBSET (1..Len(s))
  PROVE  /\ Selected(s, I) \in Seq(S)
         /\ Len(Selected(s, I)) = Cardinality(I) /\ Cardinality(I) \in Nat
         /\ Cardinality(I) <= Len(s)
         /\ \A i \in 1..Cardinality(I) : 
              Position(I, i) \in I /\ Selected(s, I)[i] = s[Position(I, i)]
<1>0. Len(s) \in Nat /\ \A k \in 1..Len(s) : s[k] \in S
  OBVIOUS
<1>1. Cardinality(I) \in Nat /\ Cardinality(I) <= Len(s)
  BY <1>0, FinitePositions
<1>2. \A i \in 1..Cardinality(I) : Position(I, i) \in I 
  BY <1>0, PositionsInOrder
<1>3. \A i \in 1..Cardinality(I) : Position(I, i) \in 1..Len(s) /\ s[Position(I, i)] \in S
  BY <1>0, <1>2
<1> QED
  BY <1>1, <1>2, <1>3 DEF Selected
-----------------------------------------------------------------------------
(* A queue between two sequences: a push, a pop, and what they come to. *)
LEMMA BeginsMore ==
  ASSUME NEW S, NEW s \in Seq(S), NEW t \in Seq(S), NEW x \in S, Begins(s, t)
  PROVE  Begins(Append(s, x), t)
<1>1. /\ Len(s) \in Nat /\ Len(t) \in Nat /\ Len(Append(s, x)) = Len(s) + 1
      /\ \A i \in 1..Len(s) : Append(s, x)[i] = s[i]
  OBVIOUS
<1>2. Len(t) <= Len(s) /\ \A i \in 1..Len(t) : s[i] = t[i]
  BY DEF Begins
<1>3. Len(t) <= Len(Append(s, x)) /\ \A i \in 1..Len(t) : Append(s, x)[i] = t[i]
  BY <1>1, <1>2
<1> QED
  BY <1>3 DEF Begins

LEMMA ContinuesMore ==
  ASSUME NEW S, NEW s \in Seq(S), NEW t \in Seq(S), NEW r \in Seq(S), NEW x \in S,
         Continues(s, t, r)
  PROVE  Continues(Append(s, x), t, Append(r, x))
<1>1. Begins(Append(s, x), t)
  BY BeginsMore DEF Continues
<1>2. /\ Len(s) \in Nat /\ Len(t) \in Nat /\ Len(r) \in Nat
      /\ Len(s) = Len(t) + Len(r) /\ \A i \in 1..Len(r) : s[Len(t) + i] = r[i]
  BY DEF Continues
<1>3. /\ Len(Append(s, x)) = Len(s) + 1 /\ Append(s, x)[Len(s) + 1] = x
      /\ \A i \in 1..Len(s) : Append(s, x)[i] = s[i]
      /\ Len(Append(r, x)) = Len(r) + 1 /\ Append(r, x)[Len(r) + 1] = x
      /\ \A i \in 1..Len(r) : Append(r, x)[i] = r[i]
  OBVIOUS
<1>4. ASSUME NEW i \in 1..Len(r) + 1 PROVE Append(s, x)[Len(t) + i] = Append(r, x)[i]
  <2>1. CASE i \in 1..Len(r)
    <3>1. Len(t) + i \in 1..Len(s)
      BY <1>2, <2>1
    <3> QED
      BY <1>2, <1>3, <2>1, <3>1
  <2>2. CASE i = Len(r) + 1
    <3>1. Len(t) + i = Len(s) + 1
      BY <1>2, <2>2
    <3> QED
      BY <1>3, <2>2, <3>1
  <2> QED
    BY <1>2, <2>1, <2>2
<1>5. Len(Append(s, x)) = Len(t) + Len(Append(r, x))
  BY <1>2, <1>3
<1> QED
  BY <1>1, <1>3, <1>4, <1>5 DEF Continues

LEMMA ContinuesOn ==
  ASSUME NEW S, NEW s \in Seq(S), NEW t \in Seq(S), NEW r \in Seq(S), r # <<>>,
         Continues(s, t, r)
  PROVE  /\ Continues(s, Append(t, Head(r)), Tail(r))
         /\ Len(t) + 1 \in 1..Len(s) /\ s[Len(t) + 1] = Head(r)
<1>1. /\ Len(s) \in Nat /\ Len(t) \in Nat /\ Len(r) \in Nat /\ Len(t) <= Len(s)
      /\ \A i \in 1..Len(t) : s[i] = t[i]
      /\ Len(s) = Len(t) + Len(r) /\ \A i \in 1..Len(r) : s[Len(t) + i] = r[i]
  BY DEF Continues, Begins
<1>2. /\ Head(r) \in S /\ Head(r) = r[1] /\ Len(r) >= 1
      /\ Tail(r) \in Seq(S) /\ Len(Tail(r)) = Len(r) - 1
      /\ \A i \in 1..Len(r) - 1 : Tail(r)[i] = r[i + 1]
  OBVIOUS
<1> DEFINE u == Append(t, Head(r))
<1>3. /\ Len(u) = Len(t) + 1 /\ u[Len(t) + 1] = Head(r)
      /\ \A i \in 1..Len(t) : u[i] = t[i]
  BY <1>2
<1> HIDE DEF u
<1>4. s[Len(t) + 1] = Head(r) /\ Len(t) + 1 \in 1..Len(s)
  BY <1>1, <1>2
<1>5. ASSUME NEW i \in 1..Len(u) PROVE s[i] = u[i]
  BY <1>1, <1>3, <1>4
<1>6. ASSUME NEW i \in 1..Len(r) - 1 PROVE s[Len(u) + i] = Tail(r)[i]
  <2>1. i + 1 \in 1..Len(r) /\ Len(t) + (i + 1) = Len(u) + i
    BY <1>1, <1>3
  <2> QED
    BY <1>1, <1>2, <2>1
<1>7. Len(u) <= Len(s) /\ Len(s) = Len(u) + Len(Tail(r))
  BY <1>1, <1>2, <1>3
<1>8. Continues(s, u, Tail(r))
  BY <1>2, <1>5, <1>6, <1>7 DEF Continues, Begins
<1> QED
  BY <1>4, <1>8 DEF u

LEMMA WhatContinues ==
  ASSUME NEW S, NEW s \in Seq(S), NEW t \in Seq(S), NEW r \in Seq(S), Continues(s, t, r)
  PROVE  s = t \o r /\ r = SubSeq(s, Len(t) + 1, Len(s))
<1>1. /\ Len(s) \in Nat /\ Len(t) \in Nat /\ Len(r) \in Nat /\ Len(t) <= Len(s)
      /\ \A i \in 1..Len(t) : s[i] = t[i]
      /\ Len(s) = Len(t) + Len(r) /\ \A i \in 1..Len(r) : s[Len(t) + i] = r[i]
  BY DEF Continues, Begins
<1> DEFINE u == t \o r
           v == SubSeq(s, Len(t) + 1, Len(s))
<1>2. /\ u \in Seq(S) /\ Len(u) = Len(t) + Len(r)
      /\ \A i \in 1..Len(t) + Len(r) : u[i] = IF i <= Len(t) THEN t[i] ELSE r[i - Len(t)]
  OBVIOUS
<1>3. v \in Seq(S) /\ Len(v) = Len(r) /\ \A i \in 1..Len(r) : v[i] = s[Len(t) + i]
  <2>1. /\ Len(t) + 1 \in Nat /\ \A i \in Len(t) + 1..Len(s) : s[i] \in S
        /\ Len(s) - (Len(t) + 1) + 1 = Len(r)
    BY <1>1
  <2>2. /\ v = [i \in 1..Len(s) - (Len(t) + 1) + 1 |-> s[(Len(t) + 1) + i - 1]]
    OBVIOUS
  <2>3. \A i \in 1..Len(r) : (Len(t) + 1) + i - 1 = Len(t) + i /\ Len(t) + i \in 1..Len(s)
    BY <1>1
  <2> HIDE DEF v
  <2>4. v = [i \in 1..Len(r) |-> s[Len(t) + i]]
    BY <2>1, <2>2, <2>3
  <2> QED
    BY <1>1, <2>3, <2>4
<1> HIDE DEF u, v
<1>4. ASSUME NEW i \in 1..Len(s) PROVE s[i] = u[i]
  <2>1. CASE i <= Len(t)
    BY <1>1, <1>2, <2>1
  <2>2. CASE ~(i <= Len(t))
    <3>1. i - Len(t) \in 1..Len(r) /\ Len(t) + (i - Len(t)) = i /\ i \in 1..Len(t) + Len(r)
      BY <1>1, <2>2
    <3> QED
      BY <1>1, <1>2, <2>2, <3>1
  <2> QED
    BY <2>1, <2>2
<1>5. s = u
  BY <1>1, <1>2, <1>4
<1>6. v = r
  <2>1. \A i \in 1..Len(r) : v[i] = r[i]
    BY <1>1, <1>3
  <2>2. v \in Seq(S) /\ Len(v) = Len(r) /\ Len(r) \in Nat
    BY <1>1, <1>3
  <2> QED
    BY <2>1, <2>2
<1> QED
  BY <1>5, <1>6 DEF u, v
-----------------------------------------------------------------------------
(* What goes to a channel of one text more. *)
LEMMA ForMore ==
  ASSUME NEW items \in Seq(Item), NEW x \in Item, NEW c
  PROVE  For(c, Append(items, x)) =
           IF GoesTo(c, x.msg) THEN Append(For(c, items), x) ELSE For(c, items)
<1> DEFINE n == Len(items)
           more == Append(items, x)
           I == {i \in 1..n : GoesTo(c, items[i].msg)}
           J == {i \in 1..Len(more) : GoesTo(c, more[i].msg)}
<1>1. /\ n \in Nat /\ more \in Seq(Item) /\ Len(more) = n + 1 /\ more[n + 1] = x
      /\ \A i \in 1..n : more[i] = items[i]
  OBVIOUS
<1>2. I \in SUBSET (1..n) /\ J \in SUBSET (1..n + 1)
  BY <1>1
<1>3. J = IF GoesTo(c, x.msg) THEN I \cup {n + 1} ELSE I
  <2> HIDE DEF more
  <2>1. ASSUME NEW i \in 1..n PROVE i \in J <=> i \in I
    BY <1>1
  <2>2. n + 1 \in J <=> GoesTo(c, x.msg)
    BY <1>1
  <2>3. \A i \in J \cup I : i \in 1..n \/ i = n + 1
    BY <1>1
  <2>4. n + 1 \notin I
    BY <1>1
  <2>5. I \subseteq 1..n /\ J \subseteq 1..n + 1
    BY <1>2
  <2> HIDE DEF I, J, n
  <2>6. ASSUME GoesTo(c, x.msg) PROVE J = I \cup {n + 1}
    <3>1. ASSUME NEW i PROVE i \in J <=> i \in I \cup {n + 1}
      BY <2>1, <2>2, <2>3, <2>5, <2>6
    <3> QED
      BY <3>1
  <2>7. ASSUME ~GoesTo(c, x.msg) PROVE J = I
    <3>1. ASSUME NEW i PROVE i \in J <=> i \in I
      BY <2>1, <2>2, <2>3, <2>4, <2>5, <2>7
    <3> QED
      BY <3>1
  <2> QED
    BY <2>6, <2>7
<1>4. For(c, items) = Selected(items, I) /\ For(c, more) = Selected(more, J)
  BY DEF For
<1>5. /\ Selected(items, I) \in Seq(Item) /\ Len(Selected(items, I)) = Cardinality(I)
      /\ Cardinality(I) \in Nat
      /\ \A i \in 1..Cardinality(I) : Position(I, i) \in I /\ Selected(items, I)[i] = items[Position(I, i)]
  BY <1>2, SelectionType
<1>6. /\ Selected(more, J) \in Seq(Item) /\ Len(Selected(more, J)) = Cardinality(J)
      /\ Cardinality(J) \in Nat
      /\ \A i \in 1..Cardinality(J) : Position(J, i) \in J /\ Selected(more, J)[i] = more[Position(J, i)]
  <2> HIDE DEF J, more
  <2>1. more \in Seq(Item) /\ J \in SUBSET (1..Len(more))
    BY <1>1, <1>2
  <2> QED
    BY <2>1, SelectionType, Zenon
<1> HIDE DEF I, J, more, n
<1>7. ASSUME ~GoesTo(c, x.msg) PROVE Selected(more, J) = Selected(items, I)
  <2>1. J = I
    BY <1>3, <1>7
  <2>2. \A i \in 1..Cardinality(I) : Selected(more, I)[i] = Selected(items, I)[i]
    BY <1>1, <1>2, <1>5, <1>6, <2>1
  <2> QED
    BY <1>5, <1>6, <2>1, <2>2
<1>8. ASSUME GoesTo(c, x.msg) PROVE Selected(more, J) = Append(Selected(items, I), x)
  <2>1. J = I \cup {n + 1} /\ n + 1 \notin I
    BY <1>1, <1>2, <1>3, <1>8
  <2>2. IsFiniteSet(I) /\ \A k \in I : k \in Nat /\ k < n + 1
    BY <1>1, <1>2, FinitePositions
  <2>3. Cardinality(J) = Cardinality(I) + 1
    BY <2>1, <2>2, FS_AddElement
  <2>4. ASSUME NEW k \in I PROVE Rank(J, k) = Rank(I, k)
    <3>1. {j \in J : j < k} = {j \in I : j < k}
      BY <1>1, <2>1, <2>2
    <3> QED
      BY <3>1 DEF Rank
  <2>5. Rank(J, n + 1) = Cardinality(I)
    <3>1. {j \in J : j < n + 1} = I
      BY <1>1, <2>1, <2>2
    <3> QED
      BY <3>1 DEF Rank
  <2>6. \A k \in J : Position(J, Rank(J, k) + 1) = k
    <3>1. n + 1 \in Nat
      BY <1>1
    <3> QED
      BY <1>2, <3>1, PositionsInOrder
  <2>7. \A i \in 1..Cardinality(I) : Position(I, i) \in I /\ Rank(I, Position(I, i)) = i - 1
    BY <1>1, <1>2, PositionsInOrder
  <2>8. ASSUME NEW i \in 1..Cardinality(I) PROVE Position(J, i) = Position(I, i)
    <3>1. Position(J, Rank(J, Position(I, i)) + 1) = Position(I, i)
      BY <2>1, <2>6, <2>7
    <3>2. Rank(J, Position(I, i)) = i - 1
      BY <2>4, <2>7
    <3>3. (i - 1) + 1 = i
      OBVIOUS
    <3> QED
      BY <3>1, <3>2, <3>3
  <2>9. Position(J, Cardinality(I) + 1) = n + 1
    BY <2>1, <2>5, <2>6
  <2>10. ASSUME NEW i \in 1..Cardinality(I) PROVE Selected(more, J)[i] = Selected(items, I)[i]
    <3>1. Position(I, i) \in 1..n /\ i \in 1..Cardinality(J)
      BY <1>2, <1>5, <2>3
    <3> QED
      BY <1>1, <1>5, <1>6, <2>8, <3>1
  <2>11. Selected(more, J)[Cardinality(I) + 1] = x
    <3>1. Cardinality(I) + 1 \in 1..Cardinality(J)
      BY <1>5, <2>3
    <3> QED
      BY <1>1, <1>6, <2>9, <3>1
  <2> DEFINE u == Append(Selected(items, I), x)
  <2>12. /\ u \in Seq(Item) /\ Len(u) = Cardinality(I) + 1 /\ u[Cardinality(I) + 1] = x
         /\ \A i \in 1..Cardinality(I) : u[i] = Selected(items, I)[i]
    BY <1>5
  <2> HIDE DEF u
  <2>13. ASSUME NEW i \in 1..Cardinality(J) PROVE Selected(more, J)[i] = u[i]
    <3>1. i \in 1..Cardinality(I) \/ i = Cardinality(I) + 1
      BY <1>5, <2>3
    <3> QED
      BY <2>10, <2>11, <2>12, <3>1
  <2>14. Len(Selected(more, J)) = Len(u)
    BY <1>6, <2>3, <2>12
  <2>15. Selected(more, J) = u
    BY <1>6, <2>12, <2>13, <2>14
  <2> QED
    BY <2>15 DEF u
<1>9. For(c, Append(items, x)) = Selected(more, J)
  BY <1>4 DEF more
<1> QED
  BY <1>4, <1>7, <1>8, <1>9

(* A message that is made now changes nothing for what is said of earlier ones. *)
LEMMA ForSame ==
  ASSUME NEW items \in Seq(Item), NEW c, \A i \in 1..Len(items) : from'[items[i].msg] = from[items[i].msg]
  PROVE  For(c, items)' = For(c, items)
<1>1. {i \in 1..Len(items) : GoesTo(c, items[i].msg)}' = {i \in 1..Len(items) : GoesTo(c, items[i].msg)}
  BY DEF GoesTo
<1> QED
  BY <1>1 DEF For
-----------------------------------------------------------------------------
LEMMA InitInv == Init => PipeInv
<1> SUFFICES ASSUME Init PROVE PipeInv
  OBVIOUS
<1> USE PipelineAssumption DEF Init, Producers, Channels, Msgs, NoItem
<1>1. Typed
  <2>1. <<>> \in Seq(Item) /\ <<>> \in Seq(Msgs) /\ Len(<<>>) = 0
    OBVIOUS
  <2> QED
    BY <2>1 DEF Typed, TypeOK
<1>2. Gone
  BY DEF Gone, Starting, JoiningSensors, JoiningDispatch, JoiningCli, JoiningWs, JoiningAgent, Saving
<1>3. Numbered
  BY DEF Numbered
<1>4. Begins(<<>>, <<>>) /\ Continues(<<>>, <<>>, <<>>)
  BY DEF Begins, Continues
<1>5. Inbound
  BY <1>4 DEF Inbound
<1>6. Spoken
  BY DEF Spoken
<1>7. OnTheWay = <<>>
  BY DEF OnTheWay
<1>8. ASSUME NEW c \in Channels PROVE For(c, <<>>) = <<>>
  <2>1. {i \in 1..Len(<<>>) : GoesTo(c, <<>>[i].msg)} = {}
    OBVIOUS
  <2>2. Cardinality({}) = 0
    BY FS_EmptySet
  <2>3. Selected(<<>>, {}) = <<>>
    BY <2>2 DEF Selected
  <2> QED
    BY <2>1, <2>3 DEF For
<1>9. Outbound
  <2>1. <<>> \in Seq(Item)
    OBVIOUS
  <2>2. \A c \in Channels : shown[c] = For(c, <<>>)
    BY <1>8
  <2> QED
    BY <1>4, <1>7, <2>1, <2>2 DEF Outbound
<1> QED
  BY <1>1, <1>2, <1>3, <1>5, <1>6, <1>9 DEF PipeInv
-----------------------------------------------------------------------------
(* The parts of the invariant under steps that leave what they are about alone. *)
LEMMA NumberedSame ==
  ASSUME Numbered, UNCHANGED <<holds, made, accepted>>,
         \A p \in Producers : place'[p] = "push" => place[p] = "push"
  PROVE  Numbered'
BY DEF Numbered

LEMMA InboundSame ==
  ASSUME Inbound, UNCHANGED <<accepted, taken, inbound>>, agent' # "ended" => agent # "ended"
  PROVE  Inbound'
BY DEF Inbound

LEMMA SpokenSame ==
  ASSUME Spoken, UNCHANGED <<taken, said, turn, texts>>, agent' = "turn" => agent = "turn"
  PROVE  Spoken'
BY DEF Spoken

LEMMA OutboundSame ==
  ASSUME Outbound, UNCHANGED <<from, shown, said>>,
         disp' # "ended" => disp # "ended" /\ OnTheWay' = OnTheWay
  PROVE  Outbound'
<1>1. PICK front \in Seq(Item) :
         /\ \A c \in Channels : shown[c] = For(c, front)
         /\ Begins(said, front)
         /\ disp # "ended" => Continues(said, front, OnTheWay)
  BY DEF Outbound
<1>2. \A c \in Channels : shown'[c] = For(c, front)'
  BY <1>1 DEF For, GoesTo
<1> QED
  BY <1>1, <1>2 DEF Outbound

LEMMA Ways ==
  ASSUME Typed
  PROVE  /\ OnTheWay \in Seq(Item)
         /\ disp # "send" => OnTheWay = outbound
         /\ disp = "send" => /\ OnTheWay # <<>> /\ Head(OnTheWay) = item
                            /\ Tail(OnTheWay) = outbound
         /\ UNCHANGED <<disp, item, outbound>> => OnTheWay' = OnTheWay
<1>1. outbound \in Seq(Item) /\ (disp = "send" => item \in Item)
  BY DEF Typed, TypeOK
<1>2. <<>> \o outbound = outbound
  BY <1>1
<1>3. ASSUME disp = "send"
      PROVE  /\ OnTheWay \in Seq(Item) /\ OnTheWay # <<>> /\ Head(OnTheWay) = item
             /\ Tail(OnTheWay) = outbound
  <2> DEFINE w == <<item>> \o outbound
  <2>1. OnTheWay = w
    BY <1>3 DEF OnTheWay
  <2>2. /\ w \in Seq(Item) /\ Len(w) = Len(outbound) + 1 /\ w[1] = item
        /\ \A i \in 1..Len(outbound) : w[i + 1] = outbound[i]
    BY <1>1, <1>3
  <2> HIDE DEF w
  <2>3. /\ w # <<>> /\ Head(w) = item /\ Tail(w) \in Seq(Item) /\ Len(Tail(w)) = Len(outbound)
        /\ \A i \in 1..Len(outbound) : Tail(w)[i] = outbound[i]
    BY <1>1, <2>2
  <2>4. Tail(w) = outbound
    BY <1>1, <2>3
  <2> QED
    BY <2>1, <2>2, <2>3, <2>4
<1> QED
  BY <1>1, <1>2, <1>3 DEF OnTheWay
-----------------------------------------------------------------------------
(* main before its handler is set: it joins nobody yet. *)
LEMMA StartInv == PipeInv /\ (Start \/ Signal) => PipeInv'
<1> SUFFICES ASSUME PipeInv, Start \/ Signal PROVE PipeInv'
  OBVIOUS
<1> USE PipelineAssumption
<1>1. ASSUME StartAgent PROVE PipeInv'
  <2>1. /\ UNCHANGED <<running, queues, outside, history, place, holds, turn, texts, disp, item>>
        /\ main = "agent" /\ agent = "off" /\ disp = "off" /\ agent' = "pop"
        /\ main' \in {"cli", "dead"}
    BY <1>1 DEF StartAgent, Starts, PipeInv, Gone, Starting
  <2>2. Typed'
    BY <2>1 DEF PipeInv, Typed, TypeOK, queues, outside, history
  <2>3. Gone'
    BY <2>1 DEF Gone, Starting, JoiningSensors, JoiningDispatch, JoiningCli, JoiningWs, JoiningAgent, Saving
  <2>4. Numbered' /\ Inbound' /\ Spoken' /\ Outbound'
    BY <2>1, NumberedSame, InboundSame, SpokenSame, OutboundSame, Ways DEF PipeInv, queues, outside, history
  <2> QED
    BY <2>2, <2>3, <2>4 DEF PipeInv
<1>2. ASSUME NEW p \in Producers, NEW what,
             NEW next \in {"ws", "dispatch", "cron", "ready"},
             what = "cli" => next = "ws", what = "ws" => next = "dispatch", what \notin {"agent", "dispatch"},
             next \in {"ws", "dispatch"} => what \in {"cli", "ws"},
             StartProducer(p, what, next)
      PROVE  PipeInv'
  <2>1. /\ UNCHANGED <<running, queues, outside, history, holds, agent, turn, texts, disp, item>>
        /\ main = what /\ main' \in {next, "dead"}
        /\ place' = [place EXCEPT ![p] = IF main' = "dead" THEN @ ELSE "idle"]
    BY <1>2 DEF StartProducer, Starts, Places
  <2>2. Typed'
    BY <2>1 DEF PipeInv, Typed, TypeOK, queues, outside, history
  <2>3. Gone'
    BY <1>2, <2>1 DEF PipeInv, Gone, Starting, JoiningSensors, JoiningDispatch, JoiningCli, JoiningWs, JoiningAgent, Saving
  <2>4. \A q \in Producers : place'[q] = "push" => place[q] = "push"
    BY <2>1 DEF PipeInv, Typed, TypeOK
  <2>5. Numbered' /\ Inbound' /\ Spoken' /\ Outbound'
    BY <2>1, <2>4, NumberedSame, InboundSame, SpokenSame, OutboundSame, Ways DEF PipeInv, queues, outside, history
  <2> QED
    BY <2>2, <2>3, <2>5 DEF PipeInv
<1>3. ASSUME StartDispatch PROVE PipeInv'
  <2>1. /\ UNCHANGED <<running, queues, outside, history, place, holds, agent, turn, texts, item>>
        /\ main = "dispatch" /\ disp = "off" /\ disp' = "pop"
        /\ main' \in {"roles", "dead"}
    BY <1>3 DEF StartDispatch, Starts, PipeInv, Gone, Starting
  <2>2. Typed'
    BY <2>1 DEF PipeInv, Typed, TypeOK, queues, outside, history
  <2>3. Gone'
    BY <2>1 DEF Gone, Starting, JoiningSensors, JoiningDispatch, JoiningCli, JoiningWs, JoiningAgent, Saving
  <2>4. OnTheWay' = OnTheWay
    BY <2>1 DEF OnTheWay, queues
  <2>5. Numbered' /\ Inbound' /\ Spoken' /\ Outbound'
    BY <2>1, <2>4, NumberedSame, InboundSame, SpokenSame, OutboundSame DEF PipeInv, queues, outside, history
  <2> QED
    BY <2>2, <2>3, <2>5 DEF PipeInv
<1>4. ASSUME Signal PROVE PipeInv'
  <2>1. /\ UNCHANGED <<threads, queues, outside, history>>
        /\ \/ main = "ready" /\ running' = FALSE /\ UNCHANGED main
           \/ main' = "dead" /\ UNCHANGED running
    BY <1>4 DEF Signal
  <2>2. Typed'
    <3>1. TypeOK'
      BY <2>1 DEF PipeInv, Typed, TypeOK, threads, queues, outside, history
    <3> QED
      BY <2>1, <3>1 DEF PipeInv, Typed, threads, queues, outside, history
  <2>3. Gone'
    BY <2>1 DEF PipeInv, Gone, Starting, JoiningSensors, JoiningDispatch, JoiningCli, JoiningWs, JoiningAgent, Saving, threads
  <2>4. Numbered' /\ Inbound' /\ Spoken' /\ Outbound'
    BY <2>1, NumberedSame, InboundSame, SpokenSame, OutboundSame, Ways DEF PipeInv, threads, queues, outside, history
  <2> QED
    BY <2>2, <2>3, <2>4 DEF PipeInv
<1>5. ASSUME Start PROVE PipeInv'
  BY <1>1, <1>2, <1>3, <1>5 DEF Start, Producers
<1> QED
  BY <1>4, <1>5

(* The joins: each stage begins when its thread has ended. *)
LEMMA StopInv == PipeInv /\ Stop => PipeInv'
<1> SUFFICES ASSUME PipeInv, Stop PROVE PipeInv'
  OBVIOUS
<1>1. UNCHANGED <<running, threads, queues, outside, history>>
  BY DEF Stop
<1>2. Typed'
  BY <1>1 DEF PipeInv, Typed, TypeOK, threads, queues, outside, history, Stop, After
<1>3. Gone'
  BY DEF PipeInv, Gone, Starting, JoiningSensors, JoiningDispatch, JoiningCli, JoiningWs, JoiningAgent, Saving, threads, Stop, After
<1>4. Numbered' /\ Inbound' /\ Spoken' /\ Outbound'
  BY <1>1, NumberedSame, InboundSame, SpokenSame, OutboundSame, Ways DEF PipeInv, threads, queues, outside, history
<1> QED
  BY <1>2, <1>3, <1>4 DEF PipeInv
-----------------------------------------------------------------------------
(* A message more, held by the one who made it. *)
LEMMA ComposeInv == ASSUME PipeInv, NEW p \in Producers, Compose(p) PROVE PipeInv'
<1> USE PipelineAssumption
<1>1. /\ UNCHANGED <<main, running, agent, turn, texts, disp, item, queues, shown, history>>
      /\ place[p] = "idle" /\ made < MaxMsgs /\ made' = made + 1
      /\ holds' = [holds EXCEPT ![p] = made'] /\ place' = [place EXCEPT ![p] = "push"]
  BY DEF Compose
<1>2. PICK c \in ChannelsOf(p) : from' = [from EXCEPT ![made'] = c]
  BY DEF Compose
<1>3. /\ TypeOK /\ made \in Nat /\ made + 1 \in Msgs /\ c \in Channels \cup {"system"}
      /\ holds \in [Producers -> 0..MaxMsgs] /\ accepted \in Seq(Msgs)
      /\ place \in [Producers -> {"off", "idle", "push", "command", "ended"}]
      /\ from \in [Msgs -> Channels \cup {"system", "nobody"}]
  BY <1>1, <1>2 DEF PipeInv, Typed, TypeOK, Msgs, ChannelsOf
<1>4. Typed'
  <2>1. from' \in [Msgs -> Channels \cup {"system", "nobody"}]
    BY <1>1, <1>2, <1>3
  <2>2. /\ made' \in 0..MaxMsgs /\ holds' \in [Producers -> 0..MaxMsgs]
        /\ place' \in [Producers -> {"off", "idle", "push", "command", "ended"}]
    BY <1>1, <1>3
  <2> QED
    BY <1>1, <2>1, <2>2 DEF PipeInv, Typed, TypeOK, queues, history
<1>5. Gone'
  BY <1>1, <1>3 DEF PipeInv, Gone, queues, history
<1>6. Numbered'
  <2>1. /\ \A q \in Producers : holds[q] <= made /\ (place[q] = "push" => holds[q] # 0)
        /\ \A q, r \in Producers : holds[q] = holds[r] /\ holds[q] # 0 => q = r
        /\ \A i \in 1..Len(accepted) : accepted[i] <= made /\ \A q \in Producers : holds[q] # accepted[i]
        /\ \A i, k \in 1..Len(accepted) : accepted[i] = accepted[k] => i = k
    BY DEF PipeInv, Numbered
  <2>2. \A i \in 1..Len(accepted) : accepted[i] \in Nat
    BY <1>3 DEF Msgs
  <2>3. /\ holds'[p] = made + 1 /\ place'[p] = "push"
        /\ \A q \in Producers \ {p} : holds'[q] = holds[q] /\ place'[q] = place[q]
        /\ \A q \in Producers : holds[q] \in Nat
        /\ accepted' = accepted
    BY <1>1, <1>3 DEF history
  <2>4. \A q \in Producers : holds'[q] <= made' /\ (place'[q] = "push" => holds'[q] # 0)
    BY <1>1, <1>3, <2>1, <2>3
  <2>5. \A q, r \in Producers : holds'[q] = holds'[r] /\ holds'[q] # 0 => q = r
    BY <1>3, <2>1, <2>3
  <2>6. \A i \in 1..Len(accepted) : accepted[i] <= made' /\ \A q \in Producers : holds'[q] # accepted[i]
    BY <1>1, <1>3, <2>1, <2>2, <2>3
  <2> QED
    BY <2>1, <2>3, <2>4, <2>5, <2>6 DEF Numbered
<1>7. Inbound' /\ Spoken'
  BY <1>1, InboundSame, SpokenSame DEF PipeInv, queues, history
<1>8. Outbound'
  <2>1. PICK front \in Seq(Item) :
         /\ \A d \in Channels : shown[d] = For(d, front)
         /\ Begins(said, front)
         /\ disp # "ended" => Continues(said, front, OnTheWay)
    BY DEF PipeInv, Outbound
  <2>2. ASSUME NEW i \in 1..Len(front) PROVE front[i].msg \in Msgs /\ front[i].msg <= made
    <3>1. /\ front[i] = said[i] /\ i \in 1..Len(said)
      BY <1>3, <2>1 DEF Begins, TypeOK
    <3>2. PICK a \in 1..Len(taken) : said[i].msg = taken[a]
      BY <3>1 DEF PipeInv, Spoken
    <3>3. taken[a] = accepted[a] /\ a \in 1..Len(accepted)
      BY <1>3, <3>2 DEF PipeInv, Inbound, Begins, TypeOK
    <3>4. accepted[a] <= made
      BY <3>3 DEF PipeInv, Numbered
    <3> QED
      BY <1>3, <3>1, <3>2, <3>3, <3>4
  <2>3. \A i \in 1..Len(front) : from'[front[i].msg] = from[front[i].msg]
    <3>1. \A m \in Msgs : m <= made => m # made' /\ m \in Nat
      BY <1>1, <1>3 DEF Msgs
    <3> QED
      BY <1>2, <1>3, <2>2, <3>1
  <2>4. \A d \in Channels : For(d, front)' = For(d, front)
    BY <2>3, ForSame
  <2>5. OnTheWay' = OnTheWay
    BY <1>1, Ways DEF PipeInv, queues
  <2> QED
    BY <1>1, <2>1, <2>4, <2>5 DEF Outbound, queues, history
<1> QED
  BY <1>4, <1>5, <1>6, <1>7, <1>8 DEF PipeInv

(* The queue takes the message, or it is dropped: nobody holds it any more. *)
LEMMA PushInv == ASSUME PipeInv, NEW p \in Producers, Push(p) PROVE PipeInv'
<1> USE PipelineAssumption
<1> DEFINE m == holds[p]
<1>1. /\ UNCHANGED <<main, running, agent, turn, texts, disp, item, outbound, outside, taken, said,
                     closed>>
      /\ place[p] = "push"
      /\ holds' = [holds EXCEPT ![p] = 0] /\ place' = [place EXCEPT ![p] = "idle"]
      /\ \/ /\ Len(inbound) < Capacity
            /\ inbound' = Append(inbound, m) /\ accepted' = Append(accepted, m)
         \/ UNCHANGED <<inbound, accepted>>
  BY DEF Push
<1>2. /\ TypeOK /\ made \in Nat /\ holds \in [Producers -> 0..MaxMsgs]
      /\ accepted \in Seq(Msgs) /\ inbound \in Seq(Msgs) /\ taken \in Seq(Msgs)
      /\ Len(inbound) \in Nat /\ Len(inbound) <= Capacity
      /\ place \in [Producers -> {"off", "idle", "push", "command", "ended"}]
  BY DEF PipeInv, Typed, TypeOK
<1>3. m \in Msgs /\ m # 0 /\ m \in Nat /\ m <= made
  BY <1>1, <1>2 DEF PipeInv, Numbered, Msgs
<1>4. /\ \A q \in Producers : holds[q] <= made /\ (place[q] = "push" => holds[q] # 0)
      /\ \A q, r \in Producers : holds[q] = holds[r] /\ holds[q] # 0 => q = r
      /\ \A i \in 1..Len(accepted) : accepted[i] <= made /\ \A q \in Producers : holds[q] # accepted[i]
      /\ \A i, k \in 1..Len(accepted) : accepted[i] = accepted[k] => i = k
  BY DEF PipeInv, Numbered
<1>5. /\ \A i \in 1..Len(accepted) : accepted[i] # m /\ accepted[i] \in Msgs
      /\ \A q \in Producers \ {p} : holds[q] # m
  BY <1>2, <1>3, <1>4
<1> HIDE DEF m
<1>6. /\ holds'[p] = 0 /\ place'[p] = "idle"
      /\ \A q \in Producers \ {p} : holds'[q] = holds[q] /\ place'[q] = place[q]
      /\ holds' \in [Producers -> 0..MaxMsgs]
      /\ place' \in [Producers -> {"off", "idle", "push", "command", "ended"}]
  BY <1>1, <1>2
<1>7. Typed'
  <2>1. /\ inbound' \in Seq(Msgs) /\ Len(inbound') <= Capacity /\ accepted' \in Seq(Msgs)
    <3>1. CASE UNCHANGED <<inbound, accepted>>
      BY <1>2, <3>1
    <3>2. CASE /\ Len(inbound) < Capacity
               /\ inbound' = Append(inbound, m) /\ accepted' = Append(accepted, m)
      <4>1. /\ Append(inbound, m) \in Seq(Msgs) /\ Append(accepted, m) \in Seq(Msgs)
            /\ Len(Append(inbound, m)) = Len(inbound) + 1
        BY <1>2, <1>3
      <4> QED
        BY <1>2, <3>2, <4>1
    <3> QED
      BY <1>1, <3>1, <3>2
  <2> QED
    BY <1>1, <1>6, <2>1 DEF PipeInv, Typed, TypeOK, outside
<1>8. Gone'
  BY <1>1, <1>6 DEF PipeInv, Gone
<1>9. Numbered'
  <2>1. \A i \in 1..Len(accepted') :
          \/ i \in 1..Len(accepted) /\ accepted'[i] = accepted[i]
          \/ i = Len(accepted) + 1 /\ accepted'[i] = m
    <3>1. CASE UNCHANGED <<inbound, accepted>>
      BY <3>1
    <3>2. CASE accepted' = Append(accepted, m)
      <4>1. /\ Len(Append(accepted, m)) = Len(accepted) + 1 /\ Len(accepted) \in Nat
            /\ Append(accepted, m)[Len(accepted) + 1] = m
            /\ \A i \in 1..Len(accepted) : Append(accepted, m)[i] = accepted[i]
        BY <1>2, <1>3
      <4> QED
        BY <3>2, <4>1
    <3> QED
      BY <1>1, <3>1, <3>2
  <2>2. made' = made
    BY <1>1 DEF outside
  <2>3. \A q \in Producers : holds'[q] <= made' /\ (place'[q] = "push" => holds'[q] # 0)
    <3>1. holds'[p] <= made' /\ (place'[p] = "push" => holds'[p] # 0)
      BY <1>2, <1>6, <2>2
    <3>2. \A q \in Producers \ {p} : holds'[q] <= made' /\ (place'[q] = "push" => holds'[q] # 0)
      BY <1>4, <1>6, <2>2
    <3> QED
      BY <3>1, <3>2
  <2>4. \A q, r \in Producers : holds'[q] = holds'[r] /\ holds'[q] # 0 => q = r
    BY <1>4, <1>6
  <2>5. \A i \in 1..Len(accepted') :
          accepted'[i] <= made' /\ \A q \in Producers : holds'[q] # accepted'[i]
    <3> TAKE i \in 1..Len(accepted')
    <3>1. accepted'[i] <= made'
      BY <1>3, <1>4, <2>1, <2>2
    <3>2. accepted'[i] \in Msgs
      BY <1>3, <1>5, <2>1
    <3>3. holds'[p] # accepted'[i]
      BY <1>6, <3>2 DEF Msgs
    <3>4. \A q \in Producers \ {p} : holds'[q] # accepted'[i]
      BY <1>4, <1>5, <1>6, <2>1
    <3> QED
      BY <3>1, <3>3, <3>4
  <2>6. \A i, k \in 1..Len(accepted') : accepted'[i] = accepted'[k] => i = k
    BY <1>4, <1>5, <2>1
  <2> QED
    BY <2>3, <2>4, <2>5, <2>6 DEF Numbered
<1>10. Inbound'
  <2>1. CASE UNCHANGED <<inbound, accepted>>
    BY <1>1, <2>1, InboundSame DEF PipeInv
  <2>2. CASE inbound' = Append(inbound, m) /\ accepted' = Append(accepted, m)
    <3>1. Begins(Append(accepted, m), taken)
      BY <1>2, <1>3, BeginsMore DEF PipeInv, Inbound
    <3>2. agent # "ended" => Continues(Append(accepted, m), taken, Append(inbound, m))
      BY <1>2, <1>3, ContinuesMore DEF PipeInv, Inbound
    <3> QED
      BY <1>1, <2>2, <3>1, <3>2 DEF Inbound
  <2> QED
    BY <1>1, <2>1, <2>2
<1>11. Spoken' /\ Outbound'
  BY <1>1, SpokenSame, OutboundSame, Ways DEF PipeInv, outside
<1> QED
  BY <1>7, <1>8, <1>9, <1>10, <1>11 DEF PipeInv

(* The other steps of the producers: an ended one stays so, but for the sensors. *)
LEMMA ProducersInv ==
  PipeInv /\ ((\E p \in Producers : Compose(p) \/ Producer(p)) \/ Command \/ CommandEnds \/ SwitchRole)
    => PipeInv'
<1> SUFFICES ASSUME PipeInv,
                    (\E p \in Producers : Compose(p) \/ Producer(p)) \/ Command \/ CommandEnds
                      \/ SwitchRole
             PROVE PipeInv'
  OBVIOUS
<1>1. ASSUME NEW p \in Producers, NEW to \in {"idle", "command", "ended"},
             p # "sensors" => place[p] # "ended",
             place' = [place EXCEPT ![p] = to],
             UNCHANGED <<main, running, holds, agent, turn, texts, disp, item, queues, outside, history>>
      PROVE  PipeInv'
  <2>1. place \in [Producers -> {"off", "idle", "push", "command", "ended"}]
    BY DEF PipeInv, Typed, TypeOK
  <2>2. /\ place' \in [Producers -> {"off", "idle", "push", "command", "ended"}]
        /\ \A q \in Producers : place'[q] = "push" => place[q] = "push"
        /\ \A q \in Producers \ {"sensors"} : place[q] = "ended" => place'[q] = "ended"
    BY <1>1, <2>1
  <2>3. Typed'
    BY <1>1, <2>2 DEF PipeInv, Typed, TypeOK, queues, outside, history
  <2>4. Gone'
    BY <1>1, <2>2 DEF PipeInv, Gone, Producers
  <2>5. Numbered' /\ Inbound' /\ Spoken' /\ Outbound'
    BY <1>1, <2>2, NumberedSame, InboundSame, SpokenSame, OutboundSame, Ways
       DEF PipeInv, queues, outside, history
  <2> QED
    BY <2>3, <2>4, <2>5 DEF PipeInv
<1>2. ASSUME NEW p \in Producers, End(p) PROVE PipeInv'
  BY <1>1, <1>2 DEF End
<1>3. CASE Command
  BY <1>1, <1>3 DEF Command, Producers
<1>4. CASE CommandEnds
  BY <1>1, <1>4 DEF CommandEnds, Producers
<1>5. CASE SwitchRole
  BY <1>1, <1>5 DEF SwitchRole, Producers
<1> QED
  BY <1>2, <1>3, <1>4, <1>5, ComposeInv, PushInv DEF Producer
-----------------------------------------------------------------------------
(* The agent takes the message that was accepted next: nothing is said of it yet. *)
LEMMA TakeInv == PipeInv /\ Take => PipeInv'
<1> SUFFICES ASSUME PipeInv, Take PROVE PipeInv'
  OBVIOUS
<1> USE PipelineAssumption
<1> DEFINE m == Head(inbound)
           n == Len(taken) + 1
<1>1. /\ UNCHANGED <<main, running, place, holds, disp, item, outbound, outside, accepted, said,
                     closed>>
      /\ agent = "pop" /\ running /\ inbound # <<>>
      /\ inbound' = Tail(inbound) /\ turn' = m /\ agent' = "turn" /\ texts' = 0
      /\ taken' = Append(taken, m)
  BY DEF Take
<1>2. /\ TypeOK /\ inbound \in Seq(Msgs) /\ accepted \in Seq(Msgs) /\ taken \in Seq(Msgs)
      /\ Len(inbound) <= Capacity /\ said \in Seq(Item)
      /\ Len(taken) \in Nat /\ Len(accepted) \in Nat /\ Len(inbound) \in Nat
  BY DEF PipeInv, Typed, TypeOK
<1>3. /\ m \in Msgs /\ Tail(inbound) \in Seq(Msgs) /\ Len(Tail(inbound)) = Len(inbound) - 1
  BY <1>1, <1>2
<1>4. /\ Continues(accepted, taken', inbound') /\ n \in 1..Len(accepted) /\ accepted[n] = m
  BY <1>1, <1>2, ContinuesOn DEF PipeInv, Inbound
<1>5. /\ taken' \in Seq(Msgs) /\ Len(taken') = n /\ taken'[n] = m
      /\ \A a \in 1..Len(taken) : taken'[a] = taken[a]
  BY <1>1, <1>2, <1>3
<1>6. ASSUME NEW a \in 1..Len(taken) PROVE taken[a] # m
  <2>1. taken[a] = accepted[a] /\ a \in 1..Len(accepted) /\ a # n
    BY <1>2 DEF PipeInv, Inbound, Begins
  <2> QED
    BY <1>4, <2>1 DEF PipeInv, Numbered
<1> HIDE DEF m, n
<1>7. Typed'
  <2>1. inbound' \in Seq(Msgs) /\ Len(inbound') <= Capacity
    BY <1>1, <1>2, <1>3
  <2>2. m \in 0..MaxMsgs
    BY <1>3 DEF Msgs
  <2> QED
    BY <1>1, <1>3, <1>5, <2>1, <2>2 DEF PipeInv, Typed, TypeOK, outside
<1>8. Gone'
  BY <1>1 DEF PipeInv, Gone, Saving
<1>9. Numbered' /\ Outbound'
  BY <1>1, NumberedSame, OutboundSame, Ways DEF PipeInv, outside
<1>10. Inbound'
  BY <1>1, <1>4 DEF Inbound, Continues
<1>11. Spoken'
  <2>1. ASSUME NEW i \in 1..Len(said) PROVE said[i].msg # m
    <3>1. PICK a \in 1..Len(taken) : said[i].msg = taken[a]
      BY DEF PipeInv, Spoken
    <3> QED
      BY <1>6, <3>1
  <2>2. taken' # <<>> /\ turn' = taken'[Len(taken')]
    BY <1>1, <1>2, <1>5 DEF n
  <2>3. ASSUME NEW i \in 1..Len(said) PROVE \E a \in 1..Len(taken') : said[i].msg = taken'[a]
    <3>1. PICK a \in 1..Len(taken) : said[i].msg = taken[a]
      BY DEF PipeInv, Spoken
    <3>2. a \in 1..Len(taken')
      BY <1>2, <1>5 DEF n
    <3> QED
      BY <1>5, <3>1, <3>2
  <2>4. ASSUME NEW i \in 1..Len(said), NEW k \in 1..Len(said),
               NEW a \in 1..Len(taken'), NEW b \in 1..Len(taken'),
               said[i].msg = taken'[a], said[k].msg = taken'[b], i < k
        PROVE  a < b \/ (a = b /\ said[i].nr < said[k].nr)
    <3>1. a # n /\ b # n
      BY <1>5, <2>1, <2>4
    <3>2. a \in 1..Len(taken) /\ b \in 1..Len(taken)
      BY <1>2, <1>5, <3>1 DEF n
    <3> QED
      BY <1>5, <2>4, <3>2 DEF PipeInv, Spoken
  <2>5. said' = said
    BY <1>1
  <2>6. \A i \in 1..Len(said) : said[i].msg # turn'
    BY <1>1, <2>1
  <2> QED
    BY <2>2, <2>3, <2>4, <2>5, <2>6 DEF Spoken
<1> QED
  BY <1>7, <1>8, <1>9, <1>10, <1>11 DEF PipeInv

(* The agent says something: it is queued and then on its way, or it is lost. *)
LEMMA Saying ==
  ASSUME PipeInv, agent = "turn", Say, UNCHANGED <<taken, disp, item, from, shown>>
  PROVE  /\ outbound' \in Seq(Item) /\ Len(outbound') <= Capacity /\ said' \in Seq(Item)
         /\ Outbound'
         /\ \A i \in 1..Len(said') : \E a \in 1..Len(taken) : said'[i].msg = taken[a]
         /\ \A i \in 1..Len(said') : said'[i].msg = turn => said'[i].nr <= texts + 1
         /\ \A i, k \in 1..Len(said') : \A a, b \in 1..Len(taken) :
              (said'[i].msg = taken[a] /\ said'[k].msg = taken[b] /\ i < k)
                => a < b \/ (a = b /\ said'[i].nr < said'[k].nr)
<1> USE PipelineAssumption
<1> DEFINE words == [msg |-> turn, nr |-> texts + 1]
<1>1. /\ TypeOK /\ outbound \in Seq(Item) /\ said \in Seq(Item) /\ Len(outbound) <= Capacity
      /\ taken \in Seq(Msgs) /\ turn \in Msgs /\ texts \in Nat /\ Len(taken) \in Nat
      /\ Len(said) \in Nat /\ Len(outbound) \in Nat /\ accepted \in Seq(Msgs)
      /\ (disp = "send" => item \in Item)
  BY DEF PipeInv, Typed, TypeOK
<1>2. /\ taken # <<>> /\ turn = taken[Len(taken)] /\ Len(taken) \in 1..Len(taken)
      /\ \A i \in 1..Len(said) : \E a \in 1..Len(taken) : said[i].msg = taken[a]
      /\ \A i \in 1..Len(said) : said[i].msg = turn => said[i].nr <= texts
      /\ \A i, k \in 1..Len(said) : \A a, b \in 1..Len(taken) :
           (said[i].msg = taken[a] /\ said[k].msg = taken[b] /\ i < k)
             => a < b \/ (a = b /\ said[i].nr < said[k].nr)
  BY <1>1 DEF PipeInv, Spoken
<1>3. ASSUME NEW a \in 1..Len(taken), taken[a] = turn PROVE a = Len(taken)
  <2>0. Begins(accepted, taken)
    BY DEF PipeInv, Inbound
  <2>1. /\ taken[a] = accepted[a] /\ a \in 1..Len(accepted)
        /\ turn = accepted[Len(taken)] /\ Len(taken) \in 1..Len(accepted)
    BY <1>1, <1>2, <2>0 DEF Begins
  <2> QED
    BY <1>3, <2>1 DEF PipeInv, Numbered
<1>4. \A i \in 1..Len(said) : said[i].nr \in Nat
  <2>1. \A i \in 1..Len(said) : said[i] \in Item
    BY <1>1
  <2> QED
    BY <2>1 DEF Item
<1>5. CASE UNCHANGED <<outbound, said>>
  <2>1. Outbound'
    BY <1>5, OutboundSame, Ways DEF PipeInv
  <2>2. \A i \in 1..Len(said) : said[i].msg = turn => said[i].nr <= texts + 1
    BY <1>1, <1>2, <1>4
  <2>3. outbound' \in Seq(Item) /\ Len(outbound') <= Capacity /\ said' \in Seq(Item)
    BY <1>1, <1>5
  <2>4. said' = said
    BY <1>5
  <2> QED
    BY <1>2, <2>1, <2>2, <2>3, <2>4
<1>6. CASE Len(outbound) < Capacity /\ outbound' = Append(outbound, words) /\ said' = Append(said, words)
  <2>1. words \in Item /\ words.msg = turn /\ words.nr = texts + 1
    BY <1>1 DEF Item
  <2> HIDE DEF words
  <2>2. /\ outbound' \in Seq(Item) /\ Len(outbound') = Len(outbound) + 1
        /\ said' \in Seq(Item) /\ Len(said') = Len(said) + 1 /\ said'[Len(said) + 1] = words
        /\ \A i \in 1..Len(said) : said'[i] = said[i]
    BY <1>1, <1>6, <2>1
  <2>3. Len(outbound') <= Capacity
    BY <1>1, <1>6, <2>2
  <2>4. \A i \in 1..Len(said') : i \in 1..Len(said) \/ i = Len(said) + 1
    BY <1>1, <2>2
  <2>5. \A i \in 1..Len(said') : \E a \in 1..Len(taken) : said'[i].msg = taken[a]
    BY <1>2, <2>1, <2>2, <2>4
  <2>6. \A i \in 1..Len(said') : said'[i].msg = turn => said'[i].nr <= texts + 1
    <3> TAKE i \in 1..Len(said')
    <3>1. CASE i \in 1..Len(said)
      <4>1. said'[i] = said[i] /\ said[i].nr \in Nat /\ (said[i].msg = turn => said[i].nr <= texts)
        BY <1>2, <1>4, <2>2, <3>1
      <4> QED
        BY <1>1, <4>1
    <3>2. CASE i = Len(said) + 1
      BY <1>1, <2>1, <2>2, <3>2
    <3> QED
      BY <2>4, <3>1, <3>2
  <2>7. ASSUME NEW i \in 1..Len(said'), NEW k \in 1..Len(said'),
               NEW a \in 1..Len(taken), NEW b \in 1..Len(taken),
               said'[i].msg = taken[a], said'[k].msg = taken[b], i < k
        PROVE  a < b \/ (a = b /\ said'[i].nr < said'[k].nr)
    <3>1. i \in 1..Len(said)
      BY <1>1, <2>2, <2>7
    <3>2. CASE k \in 1..Len(said)
      <4>1. said[i].msg = taken[a] /\ said[k].msg = taken[b] /\ said'[i] = said[i] /\ said'[k] = said[k]
        BY <2>2, <2>7, <3>1, <3>2
      <4>2. a < b \/ (a = b /\ said[i].nr < said[k].nr)
        BY <1>2, <2>7, <3>1, <3>2, <4>1
      <4> QED
        BY <4>1, <4>2
    <3>3. CASE k = Len(said) + 1
      <4>1. b = Len(taken)
        BY <1>3, <2>1, <2>2, <2>7, <3>3
      <4>2. CASE a = b
        <5>1. said[i].msg = turn /\ said'[i] = said[i]
          BY <1>2, <2>2, <2>7, <3>1, <4>1, <4>2
        <5>2. said[i].nr <= texts /\ said[i].nr \in Nat
          BY <1>2, <1>4, <3>1, <5>1
        <5>3. said'[k].nr = texts + 1
          BY <2>1, <2>2, <3>3
        <5> QED
          BY <1>1, <4>2, <5>1, <5>2, <5>3
      <4>3. CASE a # b
        BY <1>1, <4>1, <4>3
      <4> QED
        BY <4>2, <4>3
    <3> QED
      BY <2>4, <3>2, <3>3
  <2>8. Outbound'
    <3>1. PICK front \in Seq(Item) :
            /\ \A c \in Channels : shown[c] = For(c, front)
            /\ Begins(said, front)
            /\ disp # "ended" => Continues(said, front, OnTheWay)
      BY DEF PipeInv, Outbound
    <3>2. \A c \in Channels : shown'[c] = For(c, front)'
      BY <3>1 DEF For, GoesTo
    <3>3. Begins(said', front)
      BY <1>1, <1>6, <2>1, <3>1, BeginsMore
    <3>4. OnTheWay' = Append(OnTheWay, words)
      <4>1. CASE disp # "send"
        <5>1. OnTheWay = outbound /\ OnTheWay' = <<>> \o outbound'
          BY <4>1, Ways DEF PipeInv, OnTheWay
        <5> QED
          BY <1>6, <2>2, <5>1
      <4>2. CASE disp = "send"
        <5> DEFINE u == <<item>> \o outbound
                   v == <<item>> \o Append(outbound, words)
                   w == Append(u, words)
        <5>1. OnTheWay = u /\ OnTheWay' = v
          BY <1>6, <4>2 DEF OnTheWay
        <5>2. /\ u \in Seq(Item) /\ Len(u) = Len(outbound) + 1 /\ u[1] = item
              /\ \A i \in 1..Len(outbound) : u[i + 1] = outbound[i]
          BY <1>1, <4>2
        <5>3. /\ v \in Seq(Item) /\ Len(v) = Len(outbound) + 2 /\ v[1] = item
              /\ \A i \in 1..Len(outbound) : v[i + 1] = outbound[i]
              /\ v[Len(outbound) + 2] = words
          BY <1>1, <2>1, <4>2
        <5> HIDE DEF u, v
        <5>4. /\ w \in Seq(Item) /\ Len(w) = Len(outbound) + 2 /\ w[Len(outbound) + 2] = words
              /\ \A i \in 1..Len(outbound) + 1 : w[i] = u[i]
          BY <1>1, <2>1, <5>2
        <5> HIDE DEF w
        <5>5. ASSUME NEW i \in 1..Len(outbound) + 2 PROVE v[i] = w[i]
          <6>1. CASE i = 1
            BY <1>1, <5>2, <5>3, <5>4, <6>1
          <6>2. CASE i = Len(outbound) + 2
            BY <5>3, <5>4, <6>2
          <6>3. CASE i # 1 /\ i # Len(outbound) + 2
            <7>1. Len(outbound) \in Nat
              BY <1>1
            <7>2. i - 1 \in 1..Len(outbound) /\ (i - 1) + 1 = i /\ i \in 1..Len(outbound) + 1
              BY <7>1, <6>3
            <7> QED
              BY <5>2, <5>3, <5>4, <7>2
          <6> QED
            BY <6>1, <6>2, <6>3
        <5>6. v = w
          BY <5>3, <5>4, <5>5
        <5> QED
          BY <5>1, <5>6 DEF w
      <4> QED
        BY <4>1, <4>2
    <3>5. disp # "ended" => Continues(said', front, OnTheWay')
      BY <1>1, <1>6, <2>1, <3>1, <3>4, ContinuesMore, Ways DEF PipeInv
    <3> QED
      BY <3>2, <3>3, <3>5 DEF Outbound
  <2> QED
    BY <2>2, <2>3, <2>5, <2>6, <2>7, <2>8
<1> QED
  BY <1>5, <1>6 DEF Say

LEMMA AgentInv == PipeInv /\ Agent => PipeInv'
<1> SUFFICES ASSUME PipeInv, Agent PROVE PipeInv'
  OBVIOUS
<1> USE PipelineAssumption
<1>0. /\ TypeOK /\ inbound \in Seq(Msgs) /\ outbound \in Seq(Item) /\ texts \in Nat
      /\ Len(inbound) \in Nat /\ Len(inbound) <= Capacity /\ Len(said) \in Nat
      /\ (agent = "turn" => turn \in Msgs)
  BY DEF PipeInv, Typed, TypeOK
<1>1. ASSUME SayText PROVE PipeInv'
  <2>1. /\ UNCHANGED <<main, running, place, holds, agent, turn, disp, item, inbound, outside,
                       accepted, taken, closed>>
        /\ agent = "turn" /\ texts' = texts + 1 /\ texts + 1 \in 0..MaxTexts /\ Say
    BY <1>0, <1>1 DEF SayText
  <2>2. /\ outbound' \in Seq(Item) /\ Len(outbound') <= Capacity /\ said' \in Seq(Item)
        /\ Outbound'
        /\ \A i \in 1..Len(said') : \E a \in 1..Len(taken) : said'[i].msg = taken[a]
        /\ \A i \in 1..Len(said') : said'[i].msg = turn => said'[i].nr <= texts + 1
        /\ \A i, k \in 1..Len(said') : \A a, b \in 1..Len(taken) :
              (said'[i].msg = taken[a] /\ said'[k].msg = taken[b] /\ i < k)
                => a < b \/ (a = b /\ said'[i].nr < said'[k].nr)
    BY <2>1, Saying DEF outside
  <2>3. Typed'
    BY <2>1, <2>2 DEF PipeInv, Typed, TypeOK, outside
  <2>4. Gone' /\ Numbered' /\ Inbound'
    BY <2>1, NumberedSame, InboundSame DEF PipeInv, Gone, outside
  <2>5. Spoken'
    BY <2>1, <2>2 DEF PipeInv, Spoken
  <2> QED
    BY <2>2, <2>3, <2>4, <2>5 DEF PipeInv
<1>2. ASSUME Answer PROVE PipeInv'
  <2>1. /\ UNCHANGED <<main, running, place, holds, disp, item, inbound, outside, accepted, taken>>
        /\ agent = "turn" /\ agent' = "pop" /\ turn' = 0 /\ texts' = 0
        /\ closed' = closed \cup {turn} /\ Say
    BY <1>2 DEF Answer, EndTurn
  <2>2. /\ outbound' \in Seq(Item) /\ Len(outbound') <= Capacity /\ said' \in Seq(Item)
        /\ Outbound'
        /\ \A i \in 1..Len(said') : \E a \in 1..Len(taken) : said'[i].msg = taken[a]
        /\ \A i, k \in 1..Len(said') : \A a, b \in 1..Len(taken) :
              (said'[i].msg = taken[a] /\ said'[k].msg = taken[b] /\ i < k)
                => a < b \/ (a = b /\ said'[i].nr < said'[k].nr)
    BY <2>1, Saying DEF outside
  <2>3. Typed'
    BY <1>0, <2>1, <2>2 DEF PipeInv, Typed, TypeOK, outside
  <2>4. Gone' /\ Numbered' /\ Inbound'
    BY <2>1, NumberedSame, InboundSame DEF PipeInv, Gone, outside
  <2>5. Spoken'
    BY <2>1, <2>2 DEF PipeInv, Spoken
  <2> QED
    BY <2>2, <2>3, <2>4, <2>5 DEF PipeInv
<1>3. ASSUME Handled PROVE PipeInv'
  <2>1. /\ UNCHANGED <<main, running, place, holds, disp, item, inbound, outbound, outside, accepted,
                       taken, said>>
        /\ agent = "turn" /\ agent' = "pop" /\ turn' = 0 /\ texts' = 0
        /\ closed' = closed \cup {turn}
    BY <1>3 DEF Handled, EndTurn
  <2>2. Typed'
    BY <1>0, <2>1 DEF PipeInv, Typed, TypeOK, outside
  <2>3. Gone' /\ Numbered' /\ Inbound' /\ Outbound'
    BY <2>1, NumberedSame, InboundSame, OutboundSame, Ways DEF PipeInv, Gone, outside
  <2>4. Spoken'
    <3>1. /\ \A i \in 1..Len(said) : \E a \in 1..Len(taken) : said[i].msg = taken[a]
          /\ \A i, k \in 1..Len(said) : \A a, b \in 1..Len(taken) :
               (said[i].msg = taken[a] /\ said[k].msg = taken[b] /\ i < k)
                 => a < b \/ (a = b /\ said[i].nr < said[k].nr)
      BY DEF PipeInv, Spoken
    <3>2. said' = said /\ taken' = taken /\ agent' # "turn"
      BY <2>1
    <3> QED
      BY <3>1, <3>2 DEF Spoken
  <2> QED
    BY <2>2, <2>3, <2>4 DEF PipeInv
<1>4. ASSUME AgentEnds PROVE PipeInv'
  <2>1. /\ UNCHANGED <<main, running, place, holds, turn, texts, disp, item, outbound, outside, history>>
        /\ agent = "pop" /\ ~running /\ agent' = "ended"
        /\ inbound' = inbound \/ (inbound # <<>> /\ inbound' = Tail(inbound))
    BY <1>4 DEF AgentEnds
  <2>2. inbound' \in Seq(Msgs) /\ Len(inbound') <= Capacity
    <3>1. inbound # <<>> => Tail(inbound) \in Seq(Msgs) /\ Len(Tail(inbound)) = Len(inbound) - 1
      BY <1>0
    <3> QED
      BY <1>0, <2>1, <3>1
  <2>3. TypeOK'
    BY <2>1, <2>2 DEF PipeInv, Typed, TypeOK, outside, history
  <2>4. Typed'
    BY <2>1, <2>3 DEF PipeInv, Typed
  <2>5. Gone' /\ Numbered' /\ Outbound'
    BY <2>1, NumberedSame, OutboundSame, Ways DEF PipeInv, Gone, Saving, outside, history
  <2>6. Inbound' /\ Spoken'
    BY <2>1, SpokenSame DEF PipeInv, Inbound, history
  <2> QED
    BY <2>4, <2>5, <2>6 DEF PipeInv
<1> QED
  BY <1>1, <1>2, <1>3, <1>4, TakeInv DEF Agent
-----------------------------------------------------------------------------
(* The dispatcher: what it pops stays on its way, until it is shown. *)
LEMMA DispatcherInv == PipeInv /\ Dispatcher => PipeInv'
<1> SUFFICES ASSUME PipeInv, Dispatcher PROVE PipeInv'
  OBVIOUS
<1> USE PipelineAssumption
<1>0. /\ TypeOK /\ outbound \in Seq(Item) /\ said \in Seq(Item) /\ shown \in [Channels -> Seq(Item)]
      /\ Len(outbound) \in Nat /\ Len(outbound) <= Capacity
  BY DEF PipeInv, Typed, TypeOK
<1>1. ASSUME Pop PROVE PipeInv'
  <2>1. /\ UNCHANGED <<main, running, place, holds, agent, turn, texts, inbound, outside, history>>
        /\ disp = "pop" /\ disp' = "send" /\ outbound # <<>>
        /\ item' = Head(outbound) /\ outbound' = Tail(outbound)
    BY <1>1 DEF Pop
  <2>2. /\ item' \in Item /\ outbound' \in Seq(Item) /\ Len(outbound') = Len(outbound) - 1
    BY <1>0, <2>1
  <2>3. Len(outbound') <= Capacity
    BY <1>0, <2>2
  <2>4. Typed'
    BY <2>1, <2>2, <2>3 DEF PipeInv, Typed, TypeOK, outside, history
  <2>5. OnTheWay' = OnTheWay
    <3>1. OnTheWay = outbound /\ OnTheWay' = <<Head(outbound)>> \o Tail(outbound)
      BY <2>1, Ways DEF PipeInv, OnTheWay
    <3>2. <<Head(outbound)>> \o Tail(outbound) = outbound
      BY <1>0, <2>1
    <3> QED
      BY <3>1, <3>2
  <2>6. Gone'
    BY <2>1 DEF PipeInv, Gone, Starting, JoiningCli, JoiningWs, JoiningAgent, Saving
  <2>7. Numbered' /\ Inbound' /\ Spoken' /\ Outbound'
    BY <2>1, <2>5, NumberedSame, InboundSame, SpokenSame, OutboundSame DEF PipeInv, outside, history
  <2> QED
    BY <2>4, <2>6, <2>7 DEF PipeInv
<1>2. ASSUME SendOut PROVE PipeInv'
  <2>1. /\ UNCHANGED <<main, running, place, holds, agent, turn, texts, queues, made, from, history>>
        /\ disp = "send" /\ disp' = "pop" /\ item' = NoItem /\ item \in Item
        /\ shown' = [c \in Channels |-> IF GoesTo(c, item.msg) THEN Append(shown[c], item)
                                         ELSE shown[c]]
    BY <1>2 DEF SendOut, PipeInv, Typed
  <2>2. shown' \in [Channels -> Seq(Item)]
    <3>1. \A c \in Channels : shown[c] \in Seq(Item) /\ Append(shown[c], item) \in Seq(Item)
      BY <1>0, <2>1
    <3> QED
      BY <2>1, <3>1
  <2>3. Typed'
    BY <2>1, <2>2 DEF PipeInv, Typed, TypeOK, queues, history
  <2>4. Gone'
    BY <2>1 DEF PipeInv, Gone, Starting, JoiningCli, JoiningWs, JoiningAgent, Saving
  <2>5. Outbound'
    <3>1. PICK front \in Seq(Item) :
            /\ \A c \in Channels : shown[c] = For(c, front)
            /\ Begins(said, front)
            /\ disp # "ended" => Continues(said, front, OnTheWay)
      BY DEF PipeInv, Outbound
    <3>5. PICK next : next = Append(front, item)
      OBVIOUS
    <3>2. Continues(said, next, outbound) /\ next \in Seq(Item)
      <4>1. OnTheWay \in Seq(Item) /\ OnTheWay # <<>> /\ Head(OnTheWay) = item /\ Tail(OnTheWay) = outbound
        BY <2>1, Ways DEF PipeInv
      <4>2. Continues(said, front, OnTheWay)
        BY <2>1, <3>1
      <4>3. Continues(said, Append(front, Head(OnTheWay)), Tail(OnTheWay))
        BY <1>0, <4>1, <4>2, ContinuesOn
      <4>4. next \in Seq(Item)
        BY <2>1, <3>5
      <4>5. Continues(said, next, outbound)
        BY <3>5, <4>1, <4>3
      <4> QED
        BY <4>4, <4>5
    <3>3. ASSUME NEW c \in Channels PROVE shown'[c] = For(c, next)'
      <4>1. For(c, next) = IF GoesTo(c, item.msg) THEN Append(For(c, front), item) ELSE For(c, front)
        BY <2>1, <3>5, ForMore
      <4>2. shown'[c] = For(c, next)
        BY <2>1, <3>1, <4>1
      <4>3. For(c, next)' = For(c, next)
        BY <2>1 DEF For, GoesTo
      <4> QED
        BY <4>2, <4>3
    <3>4. OnTheWay' = outbound
      <4>1. OnTheWay' = <<>> \o outbound
        BY <2>1 DEF OnTheWay, queues
      <4> QED
        BY <1>0, <4>1
    <3> QED
      <4>1. Begins(said, next)
        BY <3>2 DEF Continues
      <4> QED
        BY <2>1, <3>2, <3>3, <3>4, <4>1 DEF Outbound, history
  <2>6. Numbered' /\ Inbound' /\ Spoken'
    BY <2>1, NumberedSame, InboundSame, SpokenSame DEF PipeInv, queues, history
  <2> QED
    BY <2>3, <2>4, <2>5, <2>6 DEF PipeInv
<1>3. ASSUME DispatchEnds PROVE PipeInv'
  <2>1. /\ UNCHANGED <<main, running, place, holds, agent, turn, texts, item, inbound, outside, history>>
        /\ disp = "pop" /\ ~running /\ disp' = "ended"
        /\ outbound' = outbound \/ (outbound # <<>> /\ outbound' = Tail(outbound))
    BY <1>3 DEF DispatchEnds
  <2>2. outbound' \in Seq(Item) /\ Len(outbound') <= Capacity
    <3>1. outbound # <<>> => Tail(outbound) \in Seq(Item) /\ Len(Tail(outbound)) = Len(outbound) - 1
      BY <1>0
    <3> QED
      BY <1>0, <2>1, <3>1
  <2>3. TypeOK'
    BY <2>1, <2>2 DEF PipeInv, Typed, TypeOK, outside, history
  <2>4. Typed'
    BY <2>1, <2>3 DEF PipeInv, Typed
  <2>5. Gone'
    BY <2>1 DEF PipeInv, Gone
  <2>6. Numbered' /\ Inbound' /\ Spoken' /\ Outbound'
    BY <2>1, NumberedSame, InboundSame, SpokenSame, OutboundSame DEF PipeInv, outside, history
  <2> QED
    BY <2>4, <2>5, <2>6 DEF PipeInv
<1> QED
  BY <1>1, <1>2, <1>3 DEF Dispatcher
-----------------------------------------------------------------------------
LEMMA StepInv == PipeInv /\ [Next]_vars => PipeInv'
<1> SUFFICES ASSUME PipeInv, [Next]_vars PROVE PipeInv'
  OBVIOUS
<1>1. CASE UNCHANGED vars
  <2>1. UNCHANGED <<main, running, threads, queues, outside, history>>
    BY <1>1 DEF vars
  <2>2. Typed' /\ Gone'
    BY <2>1 DEF PipeInv, Typed, TypeOK, Gone, threads, queues, outside, history
  <2>3. Numbered' /\ Inbound' /\ Spoken' /\ Outbound'
    BY <2>1, NumberedSame, InboundSame, SpokenSame, OutboundSame, Ways
       DEF PipeInv, threads, queues, outside, history
  <2> QED
    BY <2>2, <2>3 DEF PipeInv
<1> QED
  BY <1>1, StartInv, StopInv, ProducersInv, AgentInv, DispatcherInv DEF Next

THEOREM PipelineInvariant == Spec => []PipeInv
<1>1. Init => PipeInv
  BY InitInv
<1>2. PipeInv /\ [Next]_vars => PipeInv'
  BY StepInv
<1> QED
  BY <1>1, <1>2, PTL DEF Spec

(* The queues never hold more than they have room for, and every part of the state
   keeps its type.                                                               *)
THEOREM TypeCorrect == Spec => []TypeOK
<1>1. PipeInv => TypeOK
  BY DEF PipeInv, Typed
<1> QED
  BY <1>1, PipelineInvariant, PTL

(* When main saves for the last time every thread that could still change the
   configuration has been joined, wherever the signal found the threads.       *)
THEOREM SavesLast == Spec => []SavedLast
<1>1. PipeInv => SavedLast
  BY DEF PipeInv, Gone, SavedLast, Producers, JoiningSensors, JoiningDispatch, JoiningCli,
         JoiningWs, JoiningAgent, Saving
<1> QED
  BY <1>1, PipelineInvariant, PTL

(* What each channel shows is what the agent said for it, in the order in which the
   messages were accepted, without a gap and without a repetition, for every
   interleaving of the threads.                                                   *)
THEOREM ShownAsSaid == Spec => []ShownInOrder
<1>1. PipeInv => ShownInOrder
  <2> SUFFICES ASSUME PipeInv PROVE ShownInOrder
    OBVIOUS
  <2>1. /\ TypeOK /\ said \in Seq(Item) /\ Len(said) \in Nat
        /\ accepted \in Seq(Msgs) /\ taken \in Seq(Msgs) /\ inbound \in Seq(Msgs)
        /\ (running => agent # "ended" /\ disp # "ended")
    BY DEF PipeInv, Typed, TypeOK
  <2>2. PICK front \in Seq(Item) :
          /\ \A c \in Channels : shown[c] = For(c, front)
          /\ Begins(said, front)
          /\ disp # "ended" => Continues(said, front, OnTheWay)
    BY DEF PipeInv, Outbound
  <2>3. Len(front) \in 0..Len(said) /\ front = SubSeq(said, 1, Len(front))
    <3> DEFINE u == SubSeq(said, 1, Len(front))
    <3>1. /\ Len(front) \in Nat /\ Len(front) <= Len(said) /\ \A i \in 1..Len(front) : said[i] = front[i]
      BY <2>2 DEF Begins
    <3>2. /\ u \in Seq(Item) /\ Len(u) = Len(front) /\ \A i \in 1..Len(front) : u[i] = said[i]
      BY <2>1, <3>1
    <3> HIDE DEF u
    <3>3. front = u
      BY <3>1, <3>2
    <3> QED
      BY <2>1, <3>1, <3>3 DEF u
  <2>4. running => OnTheWay = SubSeq(said, Len(front) + 1, Len(said))
    <3>1. OnTheWay \in Seq(Item)
      BY Ways DEF PipeInv
    <3> QED
      BY <2>1, <2>2, <3>1, WhatContinues
  <2>5. running => accepted = taken \o inbound
    BY <2>1, WhatContinues DEF PipeInv, Inbound
  <2>6. IsPrefix(taken, accepted)
    <3> DEFINE u == SubSeq(accepted, 1, Len(taken))
    <3>1. /\ Len(taken) \in Nat /\ Len(accepted) \in Nat /\ Len(taken) <= Len(accepted)
          /\ \A i \in 1..Len(taken) : accepted[i] = taken[i]
      BY <2>1 DEF PipeInv, Inbound, Begins
    <3>2. u \in Seq(Msgs) /\ Len(u) = Len(taken) /\ \A i \in 1..Len(taken) : u[i] = accepted[i]
      BY <2>1, <3>1
    <3> HIDE DEF u
    <3>3. u = taken
      BY <2>1, <3>1, <3>2
    <3> QED
      BY <3>1, <3>3 DEF u, IsPrefix
  <2>7. \E n \in 0..Len(said) :
          /\ \A c \in Channels : shown[c] = For(c, SubSeq(said, 1, n))
          /\ running => OnTheWay = SubSeq(said, n + 1, Len(said))
    BY <2>2, <2>3, <2>4
  <2>8. \A i, k \in 1..Len(said) : \A a, b \in 1..Len(taken) :
          (said[i].msg = taken[a] /\ said[k].msg = taken[b] /\ i < k)
            => a < b \/ (a = b /\ said[i].nr < said[k].nr)
    BY DEF PipeInv, Spoken
  <2> QED
    BY <2>5, <2>6, <2>7, <2>8 DEF ShownInOrder
<1> QED
  BY <1>1, PipelineInvariant, PTL
=============================================================================

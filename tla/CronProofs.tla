----------------------------- MODULE CronProofs -----------------------------
(***************************************************************************)
(* The cron service, for every size of the table, every set of intervals   *)
(* and delays, and any number of jobs, ticks and restarts: its types, that *)
(* a job is neither lost nor brought back, that a once job fires once, and *)
(* that the file is what the table holds.                                  *)
(*                                                                         *)
(* The inductive invariant, beside the types: the parts about the table    *)
(* (Tables, Numbered, OnceJobs) say that ids are unique and below the next *)
(* one, and that once jobs stay apart.  Those about the scan (Phases,      *)
(* Scanned, Pointed, Unfired) follow the cron thread's pointer across the  *)
(* gap in which it pushes a message without the mutex.  Conserved accounts *)
(* for every job there was; Fresh follows the snapshot on its way.         *)
(***************************************************************************)
EXTENDS Cron, FiniteSetTheorems, WellFoundedInduction, TLAPS

Scanning == pc \in {"push", "resume"}

AllEnabled(js) == \A k \in 1..Len(js) : js[k].enabled

(* What every table is, also one in a snapshot or in the file. *)
Table(js) ==
  /\ js \in Seq(Job) /\ Len(js) <= MaxJobs
  /\ \A k \in 1..Len(js) : js[k].id \in Ids
  /\ \A k, l \in 1..Len(js) : js[k].id = js[l].id => k = l

Typed ==
  /\ pc \in {"sleep", "push", "resume", "save", "exited"}
  /\ now \in Nat /\ clock \in Nat /\ shutdown \in BOOLEAN /\ joined \in BOOLEAN
  /\ boots \in 0..MaxBoots /\ shifted \in BOOLEAN /\ spoiled \in BOOLEAN
  /\ saving \in [Savers -> {"no", "snapshot", "open", "write"}]
  /\ snap \in [Savers -> Seq(Job)]
  /\ firings \in [Ids -> Nat]

Tables ==
  /\ Table(jobs)
  /\ Table(file) /\ AllEnabled(file)
  /\ \A t \in Savers : Table(snap[t]) /\ AllEnabled(snap[t])

(* Nothing refers to an id that is still to be handed out. *)
Numbered ==
  /\ nextId \in 1..MaxId+1
  /\ \A k \in Slots : jobs[k].id < nextId
  /\ known \subseteq Ids /\ removed \subseteq Ids /\ round \subseteq Ids
  /\ once \subseteq known
  /\ \A id \in known \cup removed \cup round \cup {firing} : id < nextId
  /\ \A id \in Ids : id >= nextId => firings[id] = 0

OnceJobs == \A k \in Slots : jobs[k].id \in once <=> jobs[k].every = 0

Phases ==
  /\ Scanning => firing \in Ids /\ idx \in 1..MaxJobs
  /\ ~Scanning => idx = 0 /\ firing = 0 /\ round = {} /\ AllEnabled(jobs)
  /\ pc = "save" <=> saving["cron"] # "no"

(* What the scan has fired or is firing is not ahead of its pointer. *)
Scanned ==
  /\ Scanning => \A k \in Slots : jobs[k].id \in round \cup {firing} => k <= idx
  /\ pc = "push" => firing \notin round

(* Unless the table was moved under it, the pointer is at the job it fires. *)
Pointed ==
  ~shifted /\ Scanning =>
    /\ idx \in Slots /\ jobs[idx].id = firing
    /\ IF pc = "push" THEN jobs[idx].enabled ELSE firings[firing] > 0

(* And a once job that is still enabled has not fired, but for that one. *)
Unfired ==
  ~shifted =>
    /\ OnceFiresOnce
    /\ \A k \in Slots : jobs[k].enabled /\ jobs[k].every = 0 /\ (pc = "resume" => k # idx)
                          => firings[jobs[k].id] = 0

Conserved ==
  /\ \A k \in Slots : jobs[k].id \notin removed
  /\ ~shifted => \A id \in known \ removed :
       \/ id \in once /\ firings[id] > 0
       \/ \E k \in Slots : jobs[k].enabled /\ jobs[k].id = id

(* While no thread is changing the table or about to take a snapshot of it, the
   one snapshot being written is the table, or else the file is. *)
Writers == {t \in Savers : saving[t] \in {"open", "write"}}
Fresh ==
  ~spoiled =>
    /\ \A t, u \in Writers : t = u
    /\ ~Scanning /\ (\A t \in Savers : saving[t] # "snapshot") =>
         /\ \A t \in Writers : snap[t] = jobs
         /\ Writers = {} => file = jobs

CronInv ==
  /\ Typed /\ Tables /\ Numbered /\ OnceJobs
  /\ Phases /\ Scanned /\ Pointed /\ Unfired
  /\ Conserved /\ Fresh
-----------------------------------------------------------------------------
(* Sets of numbers. *)
LEMMA LeastNatural ==
  ASSUME NEW T, T \subseteq Nat, T # {}
  PROVE  \E n \in T : \A m \in T : n <= m
<1>1. PICK n \in T : \A m \in T : ~(<<m, n>> \in OpToRel(<, Nat))
  BY NatLessThanWellFounded, WFMin
<1>2. \A m \in T : ~(m < n)
  BY <1>1 DEF OpToRel
<1> QED
  BY <1>2

LEMMA LeastOfNumbers ==
  ASSUME NEW S, S \subseteq Nat, S # {}
  PROVE  Min(S) \in S /\ \A x \in S : Min(S) <= x
BY LeastNatural DEF Min

LEMMA GreatestOfNumbers ==
  ASSUME NEW S, NEW n \in Nat, S \subseteq 0..n, S # {}
  PROVE  Max(S) \in S /\ \A x \in S : x <= Max(S)
<1> DEFINE Bounds == {m \in Nat : \A x \in S : x <= m}
<1>1. n \in Bounds /\ Bounds \subseteq Nat
  OBVIOUS
<1>2. PICK m \in Bounds : \A b \in Bounds : m <= b
  BY <1>1, LeastNatural
<1>3. m \in S
  <2> SUFFICES ASSUME m \notin S PROVE FALSE
    OBVIOUS
  <2>1. \A x \in S : x <= m /\ x # m /\ x \in Nat
    BY <1>2
  <2>2. m # 0 /\ m \in Nat
    <3>1. PICK x \in S : TRUE
      OBVIOUS
    <3>2. x \in Nat /\ x <= m /\ x # m
      BY <2>1
    <3> QED
      BY <3>2
  <2>3. m - 1 \in Bounds
    BY <2>1, <2>2
  <2> QED
    BY <1>2, <2>2, <2>3
<1>4. \E x \in S : \A y \in S : x >= y
  BY <1>2, <1>3
<1>5. Max(S) \in S /\ \A x \in S : Max(S) >= x
  BY <1>4 DEF Max
<1> QED
  BY <1>5
-----------------------------------------------------------------------------
(* The positions before k are as many as the rank of k says. *)
LEMMA FinitePositions ==
  ASSUME NEW n \in Nat, NEW I \in SUBSET (1..n)
  PROVE  /\ IsFiniteSet(I) /\ Cardinality(I) \in Nat /\ Cardinality(I) <= n
         /\ \A k \in I : k \in Nat
<1>1. IsFiniteSet(1..n) /\ Cardinality(1..n) = n
  BY FS_Interval
<1>2. IsFiniteSet(I) /\ Cardinality(I) <= n
  BY <1>1, FS_Subset
<1> QED
  BY <1>2, FS_CardinalityType

LEMMA RankInBounds ==
  ASSUME NEW n \in Nat, NEW I \in SUBSET (1..n), NEW k \in I
  PROVE  Rank(I, k) \in Nat /\ Rank(I, k) + 1 \in 1..Cardinality(I)
<1> DEFINE Below == {j \in I : j < k}
<1>1. IsFiniteSet(I) /\ Cardinality(I) \in Nat /\ k \in Nat
  BY FinitePositions
<1>2. Below \subseteq I /\ k \notin Below
  BY <1>1
<1>3. IsFiniteSet(Below) /\ Cardinality(Below) \in Nat /\ Cardinality(Below) <= Cardinality(I)
  BY <1>1, <1>2, FS_Subset, FS_CardinalityType
<1>4. Cardinality(Below) # Cardinality(I)
  BY <1>1, <1>2, FS_Subset
<1>5. Rank(I, k) = Cardinality(Below)
  BY DEF Rank
<1> HIDE DEF Below
<1> QED
  BY <1>1, <1>3, <1>4, <1>5

(* A later position has the higher rank. *)
LEMMA RankInOrder ==
  ASSUME NEW n \in Nat, NEW I \in SUBSET (1..n), NEW j \in I, NEW k \in I, j < k
  PROVE  Rank(I, j) < Rank(I, k)
<1> DEFINE Low == {i \in I : i < j}
           High == {i \in I : i < k}
<1>1. IsFiniteSet(I) /\ j \in Nat /\ k \in Nat /\ \A i \in I : i \in Nat
  BY FinitePositions
<1>0. ~(j < j) /\ \A i \in I : i < j => i < k
  BY <1>1
<1>2. Low \subseteq High /\ High \subseteq I /\ j \in High /\ j \notin Low
  BY <1>0
<1>3. IsFiniteSet(High) /\ Cardinality(High) \in Nat
  BY <1>1, <1>2, FS_Subset, FS_CardinalityType
<1>4. IsFiniteSet(Low) /\ Cardinality(Low) \in Nat /\ Cardinality(Low) <= Cardinality(High)
  BY <1>2, <1>3, FS_Subset, FS_CardinalityType
<1>5. Cardinality(Low) # Cardinality(High)
  BY <1>2, <1>3, FS_Subset
<1>6. Rank(I, j) = Cardinality(Low) /\ Rank(I, k) = Cardinality(High)
  BY DEF Rank
<1> HIDE DEF Low, High
<1> QED
  BY <1>3, <1>4, <1>5, <1>6

(* So the positions of I are enumerated in their order, each once. *)
LEMMA PositionsInOrder ==
  ASSUME NEW n \in Nat, NEW I \in SUBSET (1..n)
  PROVE  /\ \A i \in 1..Cardinality(I) : Position(I, i) \in I /\ Rank(I, Position(I, i)) = i - 1
         /\ \A k \in I : Position(I, Rank(I, k) + 1) = k
         /\ \A i, j \in 1..Cardinality(I) : i < j => Position(I, i) < Position(I, j)
<1> DEFINE f == [k \in I |-> Rank(I, k) + 1]
<1>1. IsFiniteSet(I) /\ Cardinality(I) \in Nat /\ \A k \in I : k \in Nat
  BY FinitePositions
<1>2. \A k \in I : Rank(I, k) \in Nat /\ Rank(I, k) + 1 \in 1..Cardinality(I)
  BY RankInBounds
<1>3. \A j, k \in I : j < k => Rank(I, j) < Rank(I, k)
  BY RankInOrder
<1>4. \A j, k \in I : Rank(I, j) = Rank(I, k) => j = k
  <2> SUFFICES ASSUME NEW j \in I, NEW k \in I, Rank(I, j) = Rank(I, k), j # k
               PROVE  FALSE
    OBVIOUS
  <2>1. j < k \/ k < j
    BY <1>1
  <2> QED
    BY <1>2, <1>3, <2>1
<1>5. f \in [I -> 1..Cardinality(I)] /\ \A k \in I : f[k] = Rank(I, k) + 1
  BY <1>2
<1>6. \A j, k \in I : f[j] = f[k] => j = k
  <2> HIDE DEF f
  <2>1. \A j, k \in I : f[j] = f[k] => Rank(I, j) = Rank(I, k)
    BY <1>2, <1>5
  <2> QED
    BY <1>4, <2>1
<1> HIDE DEF f
<1>7. f \in Injection(I, 1..Cardinality(I))
  BY <1>5, <1>6 DEF Injection, IsInjective
<1>8. IsFiniteSet(1..Cardinality(I)) /\ Cardinality(1..Cardinality(I)) = Cardinality(I)
  BY <1>1, FS_Interval
<1>9. f \in Surjection(I, 1..Cardinality(I))
  BY <1>1, <1>7, <1>8, FS_Injection
<1>10. \A i \in 1..Cardinality(I) : \E k \in I : f[k] = i
  BY <1>9 DEF Surjection
<1>11. \A i \in 1..Cardinality(I) : \E k \in I : Rank(I, k) = i - 1
  <2> TAKE i \in 1..Cardinality(I)
  <2>1. PICK k \in I : f[k] = i
    BY <1>10
  <2>2. Rank(I, k) = i - 1
    BY <1>2, <1>5, <2>1
  <2> QED
    BY <2>2
<1>12. \A i \in 1..Cardinality(I) : Position(I, i) \in I /\ Rank(I, Position(I, i)) = i - 1
  BY <1>11 DEF Position
<1>13. ASSUME NEW k \in I PROVE Position(I, Rank(I, k) + 1) = k
  <2>1. Rank(I, k) + 1 \in 1..Cardinality(I) /\ (Rank(I, k) + 1) - 1 = Rank(I, k)
    BY <1>2
  <2> QED
    BY <1>4, <1>12, <2>1
<1>14. ASSUME NEW i \in 1..Cardinality(I), NEW j \in 1..Cardinality(I), i < j
       PROVE  Position(I, i) < Position(I, j)
  <2> DEFINE p == Position(I, i)
             q == Position(I, j)
  <2>1. p \in I /\ q \in I /\ Rank(I, p) = i - 1 /\ Rank(I, q) = j - 1
    BY <1>12
  <2>2. i - 1 < j - 1 /\ i - 1 \in Int /\ j - 1 \in Int
    BY <1>14
  <2>3. p \in Nat /\ q \in Nat
    BY <1>1, <2>1
  <2> HIDE DEF p, q
  <2>4. p # q
    BY <2>1, <2>2
  <2>5. ~(q < p)
    BY <1>3, <2>1, <2>2
  <2>6. p < q
    BY <2>3, <2>4, <2>5
  <2> QED
    BY <2>6 DEF p, q
<1> QED
  BY <1>12, <1>13, <1>14

(* A selection is a sequence of the same elements, no longer. *)
LEMMA SelectionType ==
  ASSUME NEW S, NEW s \in Seq(S), NEW I \in SUBSET (1..Len(s))
  PROVE  /\ Selected(s, I) \in Seq(S)
         /\ Len(Selected(s, I)) = Cardinality(I) /\ Cardinality(I) \in Nat
         /\ Cardinality(I) <= Len(s)
         /\ \A i \in 1..Cardinality(I) : 
              Position(I, i) \in I /\ Selected(s, I)[i] = s[Position(I, i)]
<1>0. Len(s) \in Nat /\ \A k \in 1..Len(s) : s[k] \in S
  OBVIOUS
<1>1. Cardinality(I) \in Nat /\ Cardinality(I) <= Len(s)
  BY <1>0, FinitePositions
<1>2. \A i \in 1..Cardinality(I) : Position(I, i) \in I 
  BY <1>0, PositionsInOrder
<1>3. \A i \in 1..Cardinality(I) : Position(I, i) \in 1..Len(s) /\ s[Position(I, i)] \in S
  BY <1>0, <1>2
<1> QED
  BY <1>1, <1>2, <1>3 DEF Selected

(* Selecting every position changes nothing. *)
LEMMA SelectionOfAll ==
  ASSUME NEW S, NEW s \in Seq(S)
  PROVE  Selected(s, 1..Len(s)) = s
<1> DEFINE I == 1..Len(s)
<1>1. Cardinality(I) = Len(s) /\ Len(s) \in Nat
  BY FS_Interval
<1>2. ASSUME NEW k \in I PROVE Position(I, k) = k
  <2>1. {j \in I : j < k} = 1..k - 1 /\ k - 1 \in Nat
    OBVIOUS
  <2>2. Cardinality(1..k - 1) = k - 1
    BY <2>1, FS_Interval
  <2>3. Rank(I, k) = k - 1
    BY <2>1, <2>2 DEF Rank
  <2>4. Position(I, Rank(I, k) + 1) = k
    BY <1>1, PositionsInOrder
  <2>5. (k - 1) + 1 = k
    OBVIOUS
  <2> QED
    BY <2>3, <2>4, <2>5
<1>3. Selected(s, I) \in Seq(S) /\ Len(Selected(s, I)) = Len(s)
  BY <1>1, SelectionType
<1>4. \A k \in I : Selected(s, I)[k] = s[k]
  BY <1>1, <1>2 DEF Selected
<1> QED
  BY <1>3, <1>4
-----------------------------------------------------------------------------
(* Tables. *)
LEMMA TableRows ==
  ASSUME NEW js, Table(js)
  PROVE  /\ Len(js) \in Nat
         /\ \A k \in 1..Len(js) :
              /\ js[k] \in Job /\ js[k].id \in Nat /\ js[k].id \in Ids /\ js[k].every \in Nat
              /\ js[k].next \in Nat /\ js[k].enabled \in BOOLEAN
<1>1. js \in Seq(Job) /\ \A k \in 1..Len(js) : js[k].id \in Ids
  BY DEF Table
<1>2. Len(js) \in Nat /\ \A k \in 1..Len(js) : js[k] \in Job
  BY <1>1
<1> QED
  BY <1>1, <1>2 DEF Job

(* Dropping the disabled jobs leaves a table of the enabled ones, and of all
   when all are enabled. *)
LEMMA EnabledTable ==
  ASSUME NEW js, Table(js)
  PROVE  /\ Table(Enabled(js)) /\ AllEnabled(Enabled(js))
         /\ \A i \in 1..Len(Enabled(js)) : \E k \in 1..Len(js) :
              js[k].enabled /\ Enabled(js)[i] = js[k]
         /\ \A k \in 1..Len(js) : js[k].enabled =>
              \E i \in 1..Len(Enabled(js)) : Enabled(js)[i] = js[k]
         /\ AllEnabled(js) => Enabled(js) = js
<1> DEFINE I == EnabledSlots(js)
           es == Selected(js, I)
<1>1. js \in Seq(Job) /\ Len(js) \in Nat /\ I \in SUBSET (1..Len(js)) /\ Enabled(js) = es
  BY DEF Table, Enabled, EnabledSlots
<1>2. \A k \in 1..Len(js) : k \in I <=> js[k].enabled
  BY DEF EnabledSlots
<1> HIDE DEF I
<1>3. /\ es \in Seq(Job) /\ Len(es) = Cardinality(I) /\ Cardinality(I) \in Nat
      /\ Len(es) <= Len(js)
      /\ \A i \in 1..Len(es) : Position(I, i) \in I /\ es[i] = js[Position(I, i)]
  BY <1>1, SelectionType
<1>4. /\ \A k \in I : Position(I, Rank(I, k) + 1) = k /\ Rank(I, k) + 1 \in 1..Cardinality(I)
      /\ \A i, j \in 1..Cardinality(I) : i < j => Position(I, i) < Position(I, j)
  BY <1>1, PositionsInOrder, RankInBounds
<1> HIDE DEF es
<1>5. \A i \in 1..Len(es) : \E k \in 1..Len(js) : js[k].enabled /\ es[i] = js[k]
  BY <1>1, <1>2, <1>3
<1>6. \A k \in 1..Len(js) : js[k].enabled => \E i \in 1..Len(es) : es[i] = js[k]
  BY <1>2, <1>3, <1>4
<1>7. \A i \in 1..Len(es) : es[i].enabled /\ es[i].id \in Ids
  BY <1>5 DEF Table
<1>8. ASSUME NEW i \in 1..Len(es), NEW j \in 1..Len(es), es[i].id = es[j].id
      PROVE  i = j
  <2> DEFINE p == Position(I, i)
             q == Position(I, j)
  <2>1. p \in 1..Len(js) /\ q \in 1..Len(js) /\ js[p].id = js[q].id
    BY <1>1, <1>3, <1>8
  <2>2. p = q
    BY <2>1 DEF Table
  <2>3. i < j => p < q
    BY <1>3, <1>4
  <2>4. j < i => q < p
    BY <1>3, <1>4
  <2>5. p \in Nat /\ ~(p < p)
    BY <2>1
  <2> HIDE DEF p, q
  <2> QED
    BY <1>3, <2>2, <2>3, <2>4, <2>5
<1>9. AllEnabled(js) => es = js
  <2> SUFFICES ASSUME AllEnabled(js) PROVE es = js
    OBVIOUS
  <2>1. I = 1..Len(js)
    BY <1>1, <1>2 DEF AllEnabled
  <2> QED
    BY <1>1, <2>1, SelectionOfAll DEF es
<1>10. Len(js) <= MaxJobs
  BY DEF Table
<1>11. Len(es) <= MaxJobs
  BY <1>1, <1>3, <1>10, CronAssumption
<1>12. Table(es) /\ AllEnabled(es)
  BY <1>3, <1>7, <1>8, <1>11 DEF Table, AllEnabled
<1> QED
  BY <1>1, <1>5, <1>6, <1>9, <1>12

(* Removing a slot leaves the others. *)
LEMMA TableWithout ==
  ASSUME NEW js, Table(js), NEW s \in 1..Len(js)
  PROVE  /\ Table(Without(js, s))
         /\ Len(Without(js, s)) = Len(js) - 1
         /\ \A k \in 1..Len(js) - 1 :
              Without(js, s)[k] = IF k < s THEN js[k] ELSE js[k + 1]
<1> DEFINE ws == Without(js, s)
<1>1. js \in Seq(Job) /\ Len(js) \in Nat /\ s \in Nat
  BY DEF Table
<1> DEFINE front == SubSeq(js, 1, s - 1)
           back == SubSeq(js, s + 1, Len(js))
<1>2. ws = front \o back
  BY DEF Without, RemoveAt
<1>3. front \in Seq(Job) /\ Len(front) = s - 1 /\ \A k \in 1..s - 1 : front[k] = js[k]
  BY <1>1
<1>4. back \in Seq(Job) /\ Len(back) = Len(js) - s
        /\ \A k \in 1..Len(js) - s : back[k] = js[k + s]
  BY <1>1
<1> HIDE DEF front, back, ws
<1>5. ws \in Seq(Job) /\ Len(ws) = Len(js) - 1
  <2>1. front \in Seq(Job) /\ back \in Seq(Job)
    BY <1>3, <1>4
  <2>2. ws \in Seq(Job)
    BY <1>2, <2>1
  <2>3. Len(ws) = Len(front) + Len(back)
    BY <1>2, <2>1
  <2> QED
    BY <1>1, <1>3, <1>4, <2>2, <2>3
<1>6. ASSUME NEW k \in 1..Len(js) - 1
      PROVE  ws[k] = IF k < s THEN js[k] ELSE js[k + 1]
  <2>1. CASE k < s
    BY <1>1, <1>2, <1>3, <1>4, <2>1
  <2>2. CASE ~(k < s)
    <3>1. k - (s - 1) \in 1..Len(js) - s /\ k - (s - 1) + s = k + 1
      BY <1>1, <2>2
    <3>2. ws[k] = back[k - (s - 1)]
      BY <1>1, <1>2, <1>3, <1>4, <2>2
    <3> QED
      BY <1>4, <2>2, <3>1, <3>2
  <2> QED
    BY <2>1, <2>2
<1>7. \A k \in 1..Len(ws) : ws[k].id \in Ids
  BY <1>1, <1>5, <1>6 DEF Table
<1>8. \A k, l \in 1..Len(ws) : ws[k].id = ws[l].id => k = l
  <2> SUFFICES ASSUME NEW k \in 1..Len(ws), NEW l \in 1..Len(ws), ws[k].id = ws[l].id
               PROVE  k = l
    OBVIOUS
  <2> DEFINE a == IF k < s THEN k ELSE k + 1
             b == IF l < s THEN l ELSE l + 1
  <2>1. a \in 1..Len(js) /\ b \in 1..Len(js)
    BY <1>1, <1>5
  <2>2. ws[k] = js[a] /\ ws[l] = js[b]
    BY <1>5, <1>6
  <2>3. a = b
    BY <2>1, <2>2 DEF Table
  <2> QED
    BY <1>1, <2>3
<1>9. Len(ws) <= MaxJobs
  BY <1>1, <1>5, CronAssumption DEF Table
<1> QED
  BY <1>5, <1>6, <1>7, <1>8, <1>9 DEF Table, ws
(* A scan that stops, stops at an enabled job at its start or after it. *)
LEMMA StopsAtEnabled ==
  ASSUME NEW js, Table(js), NEW i \in Nat \ {0}, NEW t, StopAtDue(js, i, t)
  PROVE  /\ idx' \in 1..Len(js) /\ i <= idx' /\ js[idx'].enabled
         /\ firing' = js[idx'].id /\ now' = t /\ jobs' = js /\ pc' = "push"
         /\ saving' = saving /\ round' = round
<1> DEFINE due == {k \in i..Len(js) : Due(js[k], t)}
<1>1. Len(js) \in Nat
  BY TableRows
<1>2. due # {} /\ due \subseteq Nat /\ idx' = Min(due) /\ firing' = js[idx'].id
  BY <1>1 DEF StopAtDue
<1>3. idx' \in due
  BY <1>2, LeastOfNumbers
<1>4. js[idx'].enabled /\ idx' \in i..Len(js)
  BY <1>3 DEF Due
<1> HIDE DEF due
<1> QED
  BY <1>1, <1>2, <1>4 DEF StopAtDue
(* After a push, only the slot of the pointer changes, and never its id. *)
LEMMA RearmedTable ==
  ASSUME CronInv, pc = "resume"
  PROVE  /\ Table(Rearmed) /\ Len(Rearmed) = Len(jobs)
         /\ \A k \in Slots :
              /\ Rearmed[k].id = jobs[k].id /\ Rearmed[k].every = jobs[k].every
              /\ k # idx => Rearmed[k] = jobs[k]
              /\ Rearmed[k].enabled <=> jobs[k].enabled /\ (k = idx => jobs[k].every # 0)
<1>1. Table(jobs) /\ jobs \in Seq(Job) /\ Len(jobs) \in Nat /\ now \in Nat /\ idx \in Nat
  BY DEF CronInv, Tables, Table, Typed, Phases, Scanning
<1>2. \A k \in Slots : jobs[k] \in Job
  BY <1>1 DEF Slots
<1>3. CASE idx \notin Slots
  BY <1>1, <1>2, <1>3 DEF Rearmed, Job
<1>4. CASE idx \in Slots
  <2> DEFINE off == [jobs[idx] EXCEPT !.enabled = FALSE]
             later == [jobs[idx] EXCEPT !.next = now + jobs[idx].every]
             job == IF jobs[idx].every = 0 THEN off ELSE later
  <2>0. jobs[idx] \in Job
    BY <1>2, <1>4
  <2>1. off \in Job /\ off.id = jobs[idx].id /\ off.every = jobs[idx].every /\ off.enabled = FALSE
    BY <2>0 DEF Job
  <2>2. later \in Job /\ later.id = jobs[idx].id /\ later.every = jobs[idx].every
          /\ later.enabled = jobs[idx].enabled
    <3>1. now + jobs[idx].every \in Nat
      BY <1>1, <2>0 DEF Job
    <3> QED
      BY <2>0, <3>1 DEF Job
  <2>3. Rearmed = [jobs EXCEPT ![idx] = job]
    BY <1>4 DEF Rearmed
  <2> HIDE DEF off, later
  <2>4. /\ job \in Job /\ job.id = jobs[idx].id /\ job.every = jobs[idx].every
        /\ job.enabled <=> jobs[idx].enabled /\ jobs[idx].every # 0
    BY <2>0, <2>1, <2>2 DEF Job
  <2> HIDE DEF job
  <2>5. /\ Rearmed \in Seq(Job) /\ Len(Rearmed) = Len(jobs)
        /\ \A k \in Slots : Rearmed[k] = IF k = idx THEN job ELSE jobs[k]
    BY <1>1, <1>4, <2>3, <2>4 DEF Slots
  <2>6. \A k \in Slots : /\ Rearmed[k].id = jobs[k].id /\ Rearmed[k].every = jobs[k].every
                         /\ k # idx => Rearmed[k] = jobs[k]
    BY <2>4, <2>5
  <2>7. \A k \in Slots :
          Rearmed[k].enabled <=> jobs[k].enabled /\ (k = idx => jobs[k].every # 0)
    BY <2>4, <2>5
  <2>8. Table(Rearmed)
    BY <1>1, <2>5, <2>6 DEF Table, Slots
  <2> QED
    BY <2>5, <2>6, <2>7, <2>8
<1> QED
  BY <1>3, <1>4

(* A step that leaves the table, the scan and the ids alone. *)
LEMMA QuietStep ==
  ASSUME CronInv,
         UNCHANGED <<jobs, nextId, idx, known, once, removed, firings, firing, round, shifted>>,
         pc' = pc \/ (pc' \notin {"push", "resume"} /\ ~Scanning),
         pc' = "save" <=> saving'["cron"] # "no",
         Typed', Tables', Fresh'
  PROVE  CronInv'
<1> USE DEF Scanning, Slots
<1>1. Numbered' /\ OnceJobs'
  BY DEF CronInv, Numbered, OnceJobs
<1>2. Phases' /\ Scanned' /\ Pointed'
  BY DEF CronInv, Phases, Scanned, Pointed
<1>3. Unfired'
  BY DEF CronInv, Unfired, OnceFiresOnce
<1>4. Conserved'
  BY DEF CronInv, Conserved
<1> QED
  BY <1>1, <1>2, <1>3, <1>4 DEF CronInv
-----------------------------------------------------------------------------
(* One step at a time: the cron thread wakes up and scans. *)
LEMMA WakeStep ==
  ASSUME CronInv, Wake
  PROVE  CronInv'
<1> USE DEF Scanning, Slots
<1>1. /\ pc = "sleep" /\ Table(jobs) /\ AllEnabled(jobs) /\ idx = 0 /\ firing = 0 /\ round = {}
      /\ clock \in Nat
  BY DEF CronInv, Wake, Tables, Phases, Typed
<1>2. /\ UNCHANGED <<nextId, snap, file, clock, shutdown, joined, boots>>
      /\ UNCHANGED <<known, once, removed, firings, shifted, spoiled>>
  BY DEF Wake, world
<1>3. CASE StopAtDue(jobs, 1, clock)
  <2>1. /\ idx' \in 1..Len(jobs) /\ jobs[idx'].enabled
        /\ firing' = jobs[idx'].id /\ now' = clock /\ jobs' = jobs /\ pc' = "push"
        /\ saving' = saving /\ round' = round
    BY <1>1, <1>3, StopsAtEnabled
  <2>2. Len(jobs) \in Nat /\ Len(jobs) <= MaxJobs /\ jobs[idx'].id \in Ids
    BY <1>1, <2>1 DEF Table
  <2>3. Typed'
    BY <1>1, <1>2, <2>1 DEF CronInv, Typed
  <2>4. Tables'
    BY <1>2, <2>1 DEF CronInv, Tables
  <2>5. Numbered'
    BY <1>1, <1>2, <2>1, <2>2 DEF CronInv, Numbered
  <2>6. OnceJobs'
    BY <1>2, <2>1 DEF CronInv, OnceJobs
  <2>7. Phases'
    BY <1>1, <2>1, <2>2, CronAssumption DEF CronInv, Phases
  <2>8. Scanned'
    BY <1>1, <2>1, <2>2 DEF Scanned, Table
  <2>9. Pointed'
    BY <2>1 DEF Pointed
  <2>10. Unfired'
    BY <1>1, <1>2, <2>1 DEF CronInv, Unfired, OnceFiresOnce
  <2>11. Conserved'
    BY <1>2, <2>1 DEF CronInv, Conserved
  <2>12. Fresh'
    BY <1>2, <2>1 DEF CronInv, Fresh, Writers
  <2> QED
    BY <2>3, <2>4, <2>5, <2>6, <2>7, <2>8, <2>9, <2>10, <2>11, <2>12 DEF CronInv
<1>4. CASE EndScan(jobs, 1, clock, FALSE)
  <2>1. /\ jobs' = jobs /\ pc' = pc /\ saving' = saving
        /\ now' = 0 /\ idx' = idx /\ firing' = firing /\ round' = round
    BY <1>1, <1>4, EnabledTable DEF EndScan
  <2>3. Typed'
    BY <1>2, <2>1 DEF CronInv, Typed
  <2>4. Tables'
    BY <1>2, <2>1 DEF CronInv, Tables
  <2>5. Numbered'
    BY <1>2, <2>1 DEF CronInv, Numbered
  <2>6. OnceJobs'
    BY <1>2, <2>1 DEF CronInv, OnceJobs
  <2>7. Phases' /\ Scanned' /\ Pointed'
    BY <1>1, <1>2, <2>1 DEF CronInv, Phases, Scanned, Pointed
  <2>10. Unfired'
    BY <1>2, <2>1 DEF CronInv, Unfired, OnceFiresOnce
  <2>11. Conserved'
    BY <1>2, <2>1 DEF CronInv, Conserved
  <2>12. Fresh'
    BY <1>2, <2>1 DEF CronInv, Fresh, Writers
  <2> QED
    BY <2>3, <2>4, <2>5, <2>6, <2>7, <2>10, <2>11, <2>12 DEF CronInv
<1> QED
  BY <1>3, <1>4 DEF Wake
(* It pushes a message, without the mutex. *)
LEMMA PushStep ==
  ASSUME CronInv, PushMessage
  PROVE  CronInv'
<1> USE DEF Scanning, Slots
<1>1. /\ pc = "push" /\ pc' = "resume" /\ round' = round \cup {firing}
      /\ firings' = [firings EXCEPT ![firing] = @ + 1]
      /\ firing \in Ids /\ firings \in [Ids -> Nat]
  BY DEF CronInv, PushMessage, Phases, Typed
<1>2. /\ UNCHANGED <<jobs, nextId, now, idx, saving, snap, file, clock, shutdown, joined, boots>>
      /\ UNCHANGED <<known, once, removed, firing, shifted, spoiled>>
  BY DEF PushMessage, table, scan, disk, world
<1>3. /\ firings' \in [Ids -> Nat] /\ firings'[firing] = firings[firing] + 1
      /\ firings[firing] \in Nat
      /\ \A id \in Ids : id # firing => firings'[id] = firings[id]
      /\ \A id \in Ids : firings[id] > 0 => firings'[id] > 0
  BY <1>1
<1>4. Typed'
  BY <1>1, <1>2, <1>3 DEF CronInv, Typed
<1>5. Tables'
  BY <1>2 DEF CronInv, Tables
<1>6. Numbered'
  <2>1. \A id \in Ids : id >= nextId => id # firing
    BY DEF CronInv, Numbered, Ids
  <2> QED
    BY <1>1, <1>2, <1>3, <2>1 DEF CronInv, Numbered
<1>7. OnceJobs'
  BY <1>2 DEF CronInv, OnceJobs
<1>8. Phases' /\ Scanned'
  BY <1>1, <1>2 DEF CronInv, Phases, Scanned
<1>9. Pointed'
  BY <1>1, <1>2, <1>3 DEF CronInv, Pointed
<1>10. Unfired'
  <2> SUFFICES ASSUME ~shifted PROVE Unfired'
    BY <1>2 DEF Unfired
  <2>1. idx \in Slots /\ jobs[idx].id = firing /\ jobs[idx].enabled
    BY <1>1 DEF CronInv, Pointed
  <2>2. firing \in once => firings[firing] = 0
    BY <1>1, <2>1 DEF CronInv, OnceJobs, Unfired
  <2>3. \A k \in Slots : k # idx => jobs[k].id # firing /\ jobs[k].id \in Ids
    BY <2>1 DEF CronInv, Tables, Table
  <2>4. OnceFiresOnce'
    <3>1. \A id \in once : id \in Ids /\ firings[id] <= 1
      BY DEF CronInv, Unfired, OnceFiresOnce, Numbered
    <3> QED
      BY <1>2, <1>3, <2>2, <3>1 DEF OnceFiresOnce
  <2>5. \A k \in Slots : jobs[k].enabled /\ jobs[k].every = 0 /\ k # idx
                           => firings'[jobs[k].id] = 0
    BY <1>1, <1>3, <2>3 DEF CronInv, Unfired
  <2> QED
    BY <1>1, <1>2, <2>4, <2>5 DEF Unfired
<1>11. Conserved'
  BY <1>2, <1>3 DEF CronInv, Conserved, Numbered
<1>12. Fresh'
  BY <1>1, <1>2 DEF CronInv, Fresh, Writers
<1> QED
  BY <1>4, <1>5, <1>6, <1>7, <1>8, <1>9, <1>10, <1>11, <1>12 DEF CronInv

(* It takes the mutex again, and scans on or ends the scan. *)
LEMMA ResumeStep ==
  ASSUME CronInv, Resume
  PROVE  CronInv'
<1> USE DEF Scanning, Slots
<1> DEFINE js == Rearmed
<1>1. /\ pc = "resume" /\ firing \in Ids /\ idx \in Nat /\ idx <= MaxJobs
      /\ now \in Nat /\ saving \in [Savers -> {"no", "snapshot", "open", "write"}]
      /\ saving["cron"] = "no"
  BY CronAssumption DEF CronInv, Resume, Phases, Typed, Savers
<1>2. /\ UNCHANGED <<nextId, snap, file, clock, shutdown, joined, boots>>
      /\ UNCHANGED <<known, once, removed, firings, shifted, spoiled>>
  BY DEF Resume, world
<1>3. /\ Table(js) /\ Len(js) = Len(jobs) /\ Len(jobs) \in Nat
      /\ \A k \in 1..Len(jobs) :
           /\ js[k].id = jobs[k].id /\ js[k].every = jobs[k].every
           /\ k # idx => js[k] = jobs[k]
           /\ js[k].enabled <=> jobs[k].enabled /\ (k = idx => jobs[k].every # 0)
  BY <1>1, RearmedTable, TableRows
<1> HIDE DEF js
(* What the new table keeps of the old one. *)
<1>4. \A k \in 1..Len(js) : /\ js[k].id < nextId /\ js[k].id \in Ids
                            /\ js[k].id \in once <=> js[k].every = 0
                            /\ js[k].id \notin removed
  BY <1>3 DEF CronInv, Numbered, OnceJobs, Conserved, Table
<1>5. ~shifted => \A k \in 1..Len(js) :
        js[k].enabled /\ js[k].every = 0 => firings[js[k].id] = 0
  BY <1>1, <1>3 DEF CronInv, Unfired
<1>6. ~shifted => \A id \in known \ removed :
       \/ id \in once /\ firings[id] > 0
       \/ \E k \in 1..Len(js) : js[k].enabled /\ js[k].id = id
  <2> SUFFICES ASSUME ~shifted, NEW id \in known \ removed,
                      ~(id \in once /\ firings[id] > 0)
               PROVE  \E k \in 1..Len(js) : js[k].enabled /\ js[k].id = id
    OBVIOUS
  <2>1. PICK k \in 1..Len(jobs) : jobs[k].enabled /\ jobs[k].id = id
    BY DEF CronInv, Conserved
  <2>2. k = idx => id = firing /\ firings[firing] > 0
    BY <1>1, <2>1 DEF CronInv, Pointed
  <2>3. k = idx => jobs[k].every # 0
    BY <2>1, <2>2 DEF CronInv, OnceJobs
  <2> QED
    BY <1>3, <2>1, <2>3
<1>7. \A k \in 1..Len(js) : js[k].id \in round => k <= idx
  BY <1>1, <1>3 DEF CronInv, Scanned
<1>8. CASE StopAtDue(js, idx + 1, now)
  <2>1. /\ idx' \in 1..Len(js) /\ idx + 1 <= idx' /\ js[idx'].enabled
        /\ firing' = js[idx'].id /\ now' = now /\ jobs' = js /\ pc' = "push"
        /\ saving' = saving /\ round' = round
    BY <1>1, <1>3, <1>8, StopsAtEnabled
  <2>2. Len(js) \in Nat /\ Len(js) <= MaxJobs
    BY <1>3 DEF Table
  <2>3. Typed'
    BY <1>1, <1>2, <2>1 DEF CronInv, Typed
  <2>4. Tables'
    BY <1>2, <1>3, <2>1 DEF CronInv, Tables
  <2>5. Numbered'
    BY <1>2, <1>4, <2>1 DEF CronInv, Numbered
  <2>6. OnceJobs'
    BY <1>2, <1>4, <2>1 DEF OnceJobs
  <2>7. Phases'
    BY <1>1, <1>4, <2>1, <2>2, CronAssumption DEF CronInv, Phases
  <2>8. Scanned'
    <3>1. \A k \in 1..Len(js) : js[k].id = firing' => k = idx'
      BY <1>3, <2>1 DEF Table
    <3>2. firing' \notin round
      BY <1>1, <1>7, <2>1, <2>2
    <3>3. \A k \in 1..Len(js) : js[k].id \in round \cup {firing'} => k <= idx'
      BY <1>1, <1>7, <2>1, <2>2, <3>1
    <3> QED
      BY <2>1, <3>2, <3>3 DEF Scanned
  <2>9. Pointed'
    BY <2>1 DEF Pointed
  <2>10. Unfired'
    BY <1>2, <1>5, <2>1 DEF CronInv, Unfired, OnceFiresOnce
  <2>11. Conserved'
    BY <1>2, <1>4, <1>6, <2>1 DEF Conserved
  <2>12. Fresh'
    BY <1>2, <2>1 DEF CronInv, Fresh, Writers
  <2> QED
    BY <2>3, <2>4, <2>5, <2>6, <2>7, <2>8, <2>9, <2>10, <2>11, <2>12 DEF CronInv
<1>9. CASE EndScan(js, idx + 1, now, TRUE)
  <2> DEFINE es == Enabled(js)
  <2>1. /\ jobs' = es /\ pc' = "save" /\ saving' = [saving EXCEPT !["cron"] = "snapshot"]
        /\ now' = 0 /\ idx' = 0 /\ firing' = 0 /\ round' = {}
    BY <1>9 DEF EndScan
  <2>2. /\ Table(es) /\ AllEnabled(es)
        /\ \A i \in 1..Len(es) : \E k \in 1..Len(js) : js[k].enabled /\ es[i] = js[k]
        /\ \A k \in 1..Len(js) : js[k].enabled => \E i \in 1..Len(es) : es[i] = js[k]
    BY <1>3, EnabledTable
  <2> HIDE DEF es
  <2>3. /\ saving'["cron"] = "snapshot" /\ \A t \in Savers : t # "cron" => saving'[t] = saving[t]
        /\ saving' \in [Savers -> {"no", "snapshot", "open", "write"}]
    BY <1>1, <2>1 DEF Savers
  <2>4. Typed'
    BY <1>2, <2>1, <2>3 DEF CronInv, Typed
  <2>5. Tables'
    BY <1>2, <2>1, <2>2 DEF CronInv, Tables
  <2>6. Numbered'
    <3>1. \A i \in 1..Len(es) : es[i].id < nextId
      BY <1>4, <2>2
    <3>2. nextId \in Nat /\ 0 < nextId
      BY CronAssumption DEF CronInv, Numbered
    <3> QED
      BY <1>2, <2>1, <3>1, <3>2 DEF CronInv, Numbered
  <2>7. OnceJobs'
    BY <1>2, <1>4, <2>1, <2>2 DEF OnceJobs
  <2>8. Phases' /\ Scanned' /\ Pointed'
    BY <2>1, <2>2, <2>3 DEF Phases, Scanned, Pointed
  <2>9. Unfired'
    <3>1. ~shifted => \A i \in 1..Len(es) : es[i].every = 0 => firings[es[i].id] = 0
      BY <1>5, <2>2
    <3> QED
      BY <1>2, <2>1, <3>1 DEF CronInv, Unfired, OnceFiresOnce
  <2>10. Conserved'
    <3>1. \A i \in 1..Len(es) : es[i].id \notin removed
      BY <1>4, <2>2
    <3>2. ~shifted => \A id \in known \ removed :
            \/ id \in once /\ firings[id] > 0
            \/ \E i \in 1..Len(es) : es[i].enabled /\ es[i].id = id
      BY <1>6, <2>2
    <3> QED
      BY <1>2, <2>1, <3>1, <3>2 DEF Conserved
  <2>11. Fresh'
    <3>1. Writers' \subseteq Writers
      BY <2>3 DEF Writers
    <3>2. "cron" \in Savers
      BY DEF Savers
    <3> QED
      BY <1>2, <2>3, <3>1, <3>2 DEF CronInv, Fresh
  <2> QED
    BY <2>4, <2>5, <2>6, <2>7, <2>8, <2>9, <2>10, <2>11 DEF CronInv
<1> QED
  BY <1>8, <1>9 DEF Resume, js
-----------------------------------------------------------------------------
(* The agent thread schedules a task. *)
LEMMA AddStep ==
  ASSUME CronInv, NEW every \in Nat, NEW next \in Nat, AddJob(every, next)
  PROVE  CronInv'
<1> USE DEF Scanning, Slots
<1> DEFINE job == [id |-> nextId, every |-> every, next |-> next, enabled |-> TRUE]
           n == Len(jobs)
<1>1. /\ jobs \in Seq(Job) /\ n \in Nat /\ n < MaxJobs /\ nextId \in Nat /\ nextId <= MaxId
      /\ 1 <= nextId /\ MaxId \in Nat /\ MaxJobs \in Nat
      /\ saving \in [Savers -> {"no", "snapshot", "open", "write"}] /\ saving["agent"] = "no"
  BY CronAssumption DEF CronInv, AddJob, HasRoom, Tables, Table, Numbered, Typed
<1>2. /\ jobs' = Append(jobs, job) /\ nextId' = nextId + 1
      /\ saving' = [saving EXCEPT !["agent"] = "snapshot"]
      /\ known' = known \cup {nextId}
      /\ once' = IF every = 0 THEN once \cup {nextId} ELSE once
      /\ UNCHANGED <<pc, now, idx, snap, file, clock, shutdown, joined, boots>>
      /\ UNCHANGED <<removed, firings, firing, round, shifted, spoiled>>
  BY DEF AddJob, scan, world
<1>3. /\ job \in Job /\ job.id = nextId /\ job.every = every /\ job.enabled /\ nextId \in Ids
  BY <1>1 DEF Job, Ids
<1> HIDE DEF job
<1>4. /\ jobs' \in Seq(Job) /\ Len(jobs') = n + 1 /\ jobs'[n + 1] = job
      /\ \A k \in 1..n : jobs'[k] = jobs[k]
      /\ \A k \in 1..n + 1 : k \in 1..n \/ k = n + 1
  BY <1>1, <1>2, <1>3
<1>5. \A k \in 1..n : jobs[k].id \in Ids /\ jobs[k].id < nextId /\ jobs[k].id # nextId
  BY <1>1 DEF CronInv, Numbered, Tables, Table
<1>6. /\ nextId \notin known /\ nextId \notin removed /\ nextId \notin round
      /\ nextId # firing /\ firings[nextId] = 0
  BY <1>1, <1>3 DEF CronInv, Numbered
<1>7. /\ saving'["cron"] = saving["cron"] /\ saving'["agent"] = "snapshot"
      /\ saving' \in [Savers -> {"no", "snapshot", "open", "write"}]
      /\ \A t \in Savers : t # "agent" => saving'[t] = saving[t]
  BY <1>1, <1>2 DEF Savers
<1>8. Typed'
  BY <1>2, <1>7 DEF CronInv, Typed
<1>9. Tables'
  <2>1. Len(jobs') <= MaxJobs
    BY <1>1, <1>4
  <2>2. \A k \in 1..n + 1 : jobs'[k].id \in Ids
    BY <1>3, <1>4, <1>5
  <2>3. \A k, l \in 1..n + 1 : jobs'[k].id = jobs'[l].id => k = l
    BY <1>3, <1>4, <1>5 DEF CronInv, Tables, Table
  <2>4. Table(jobs')
    BY <1>4, <2>1, <2>2, <2>3 DEF Table
  <2> QED
    BY <1>2, <2>4 DEF CronInv, Tables
<1>10. Numbered'
  <2>1. nextId' \in 1..MaxId+1
    BY <1>1, <1>2
  <2>2. \A k \in 1..n + 1 : jobs'[k].id < nextId'
    BY <1>1, <1>2, <1>3, <1>4, <1>5 DEF Ids
  <2>3. \A id \in known' \cup removed \cup round \cup {firing} : id < nextId'
    <3>1. \A id \in known \cup removed \cup round \cup {firing} : id \in Int /\ id < nextId
      BY DEF CronInv, Numbered, Ids, Phases
    <3> QED
      BY <1>1, <1>2, <3>1
  <2>4. \A id \in Ids : id >= nextId' => firings[id] = 0
    BY <1>1, <1>2 DEF CronInv, Numbered, Ids
  <2> QED
    BY <1>2, <1>3, <1>4, <2>1, <2>2, <2>3, <2>4 DEF CronInv, Numbered
<1>11. OnceJobs'
  <2>1. \A k \in 1..n : jobs'[k].id \in once' <=> jobs'[k].every = 0
    BY <1>2, <1>4, <1>5 DEF CronInv, OnceJobs
  <2>2. nextId \in once' <=> every = 0
    BY <1>2, <1>6 DEF CronInv, Numbered
  <2> QED
    BY <1>3, <1>4, <2>1, <2>2 DEF OnceJobs
<1>12. Phases'
  BY <1>2, <1>3, <1>4, <1>7 DEF CronInv, Phases, AllEnabled
<1>13. Scanned'
  BY <1>2, <1>3, <1>4, <1>6 DEF CronInv, Scanned
<1>14. Pointed'
  BY <1>2, <1>4 DEF CronInv, Pointed
<1>15. Unfired'
  BY <1>2, <1>3, <1>4, <1>6 DEF CronInv, Unfired, OnceFiresOnce
<1>16. Conserved'
  <2>1. \A k \in 1..n + 1 : jobs'[k].id \notin removed
    BY <1>3, <1>4, <1>6 DEF CronInv, Conserved
  <2>2. ASSUME ~shifted, NEW id \in known' \ removed
        PROVE  \/ id \in once' /\ firings[id] > 0
               \/ \E k \in 1..n + 1 : jobs'[k].enabled /\ jobs'[k].id = id
    <3>1. CASE id = nextId
      BY <1>1, <1>3, <1>4, <3>1
    <3>2. CASE id \in known
      <4>1. \/ id \in once /\ firings[id] > 0
            \/ \E k \in 1..n : jobs[k].enabled /\ jobs[k].id = id
        BY <2>2, <3>2 DEF CronInv, Conserved
      <4> QED
        BY <1>1, <1>2, <1>4, <4>1
    <3> QED
      BY <1>2, <2>2, <3>1, <3>2
  <2> QED
    BY <1>2, <1>4, <2>1, <2>2 DEF Conserved
<1>17. Fresh'
  <2>1. Writers' \subseteq Writers
    BY <1>7 DEF Writers
  <2>2. "agent" \in Savers
    BY DEF Savers
  <2> QED
    BY <1>2, <1>7, <2>1, <2>2 DEF CronInv, Fresh
<1> QED
  BY <1>8, <1>9, <1>10, <1>11, <1>12, <1>13, <1>14, <1>15, <1>16, <1>17 DEF CronInv

(* It removes one: the slots behind move down, under the pointer perhaps. *)
LEMMA RemoveStep ==
  ASSUME CronInv, NEW id \in Ids, RemoveJob(id)
  PROVE  CronInv'
<1> USE DEF Scanning, Slots
<1> DEFINE slots == {k \in Slots : jobs[k].id = id}
           s == Min(slots)
           n == Len(jobs)
<1>1. Table(jobs) /\ n \in Nat /\ slots # {} /\ slots \subseteq Nat
  BY TableRows DEF CronInv, Tables, RemoveJob
<1>2. s \in 1..n /\ jobs[s].id = id
  BY <1>1, LeastOfNumbers
<1>3. /\ jobs' = Without(jobs, s)
      /\ saving' = [saving EXCEPT !["agent"] = "snapshot"]
      /\ removed' = removed \cup {id}
      /\ shifted' = (shifted \/ pc \in {"push", "resume"})
      /\ UNCHANGED <<nextId, pc, now, idx, snap, file, clock, shutdown, joined, boots>>
      /\ UNCHANGED <<known, once, firings, firing, round, spoiled>>
  BY DEF RemoveJob, scan, world
<1> HIDE DEF slots, s
<1>4. /\ Table(jobs') /\ Len(jobs') = n - 1
      /\ \A k \in 1..n - 1 : jobs'[k] = IF k < s THEN jobs[k] ELSE jobs[k + 1]
  BY <1>1, <1>2, <1>3, TableWithout
(* Where each row of the new table comes from, and each of the old one goes. *)
<1>5. \A k \in 1..n - 1 : \E l \in 1..n : l # s /\ k <= l /\ jobs'[k] = jobs[l]
  <2> TAKE k \in 1..n - 1
  <2>1. CASE k < s
    <3>1. k \in 1..n /\ k # s /\ k <= k /\ jobs'[k] = jobs[k]
      BY <1>1, <1>2, <1>4, <2>1
    <3> QED
      BY <3>1
  <2>2. CASE ~(k < s)
    <3>1. k + 1 \in 1..n /\ k + 1 # s /\ k <= k + 1 /\ jobs'[k] = jobs[k + 1]
      BY <1>1, <1>2, <1>4, <2>2
    <3> QED
      BY <3>1
  <2> QED
    BY <2>1, <2>2
<1>6. \A l \in 1..n : l # s => \E k \in 1..n - 1 : jobs'[k] = jobs[l]
  <2> SUFFICES ASSUME NEW l \in 1..n, l # s PROVE \E k \in 1..n - 1 : jobs'[k] = jobs[l]
    OBVIOUS
  <2>1. CASE l < s
    <3>1. l \in 1..n - 1 /\ jobs'[l] = jobs[l]
      BY <1>1, <1>2, <1>4, <2>1
    <3> QED
      BY <3>1
  <2>2. CASE ~(l < s)
    <3>1. l - 1 \in 1..n - 1 /\ ~(l - 1 < s) /\ (l - 1) + 1 = l
      BY <1>1, <1>2, <2>2
    <3>2. jobs'[l - 1] = jobs[l]
      BY <1>4, <3>1
    <3> QED
      BY <3>1, <3>2
  <2> QED
    BY <2>1, <2>2
<1>7. \A l \in 1..n : l # s => jobs[l].id # id
  BY <1>1, <1>2 DEF Table
<1>8. /\ saving'["cron"] = saving["cron"] /\ saving'["agent"] = "snapshot"
      /\ saving' \in [Savers -> {"no", "snapshot", "open", "write"}]
      /\ \A t \in Savers : t # "agent" => saving'[t] = saving[t]
  BY <1>3 DEF Savers, CronInv, Typed
<1>9. Typed'
  BY <1>3, <1>8 DEF CronInv, Typed
<1>10. Tables'
  BY <1>3, <1>4 DEF CronInv, Tables
<1>11. Numbered'
  <2>1. \A k \in 1..n - 1 : jobs'[k].id < nextId
    BY <1>5 DEF CronInv, Numbered
  <2>2. id < nextId
    BY <1>2 DEF CronInv, Numbered
  <2> QED
    BY <1>3, <1>4, <2>1, <2>2 DEF CronInv, Numbered
<1>12. OnceJobs'
  BY <1>3, <1>4, <1>5 DEF CronInv, OnceJobs
<1>13. Phases'
  BY <1>3, <1>4, <1>5, <1>8 DEF CronInv, Phases, AllEnabled
<1>14. Scanned'
  <2>1. ASSUME pc \in {"push", "resume"}, NEW k \in 1..n - 1,
               jobs'[k].id \in round \cup {firing}
        PROVE  k <= idx
    <3>1. PICK l \in 1..n : l # s /\ k <= l /\ jobs'[k] = jobs[l]
      BY <1>5
    <3>2. l <= idx /\ idx \in Int
      BY <2>1, <3>1 DEF CronInv, Scanned, Phases
    <3> QED
      BY <3>1, <3>2
  <2> QED
    BY <1>3, <1>4, <2>1 DEF CronInv, Scanned
<1>15. Pointed' /\ (shifted' = FALSE => ~Scanning /\ ~shifted)
  BY <1>3 DEF Pointed
<1>16. Unfired'
  <2> SUFFICES ASSUME ~shifted, ~Scanning PROVE Unfired'
    BY <1>3 DEF Unfired
  <2>1. /\ OnceFiresOnce
        /\ \A l \in 1..n : jobs[l].enabled /\ jobs[l].every = 0 => firings[jobs[l].id] = 0
    BY DEF CronInv, Unfired
  <2>2. \A k \in 1..n - 1 : jobs'[k].enabled /\ jobs'[k].every = 0 => firings[jobs'[k].id] = 0
    BY <1>5, <2>1
  <2> QED
    BY <1>3, <1>4, <2>1, <2>2 DEF Unfired, OnceFiresOnce
<1>17. Conserved'
  <2>1. \A k \in 1..n - 1 : jobs'[k].id \notin removed \cup {id}
    BY <1>5, <1>7 DEF CronInv, Conserved
  <2>2. ASSUME ~shifted, NEW i \in known \ (removed \cup {id})
        PROVE  \/ i \in once /\ firings[i] > 0
               \/ \E k \in 1..n - 1 : jobs'[k].enabled /\ jobs'[k].id = i
    <3>1. CASE i \in once /\ firings[i] > 0
      BY <3>1
    <3>2. CASE \E l \in 1..n : jobs[l].enabled /\ jobs[l].id = i
      <4>1. PICK l \in 1..n : jobs[l].enabled /\ jobs[l].id = i
        BY <3>2
      <4>2. l # s
        BY <1>2, <2>2, <4>1
      <4> QED
        BY <1>6, <4>1, <4>2
    <3> QED
      BY <2>2, <3>1, <3>2 DEF CronInv, Conserved
  <2> QED
    BY <1>3, <1>4, <2>1, <2>2 DEF Conserved
<1>18. Fresh'
  <2>1. Writers' \subseteq Writers
    BY <1>8 DEF Writers
  <2>2. "agent" \in Savers
    BY DEF Savers
  <2> QED
    BY <1>3, <1>8, <2>1, <2>2 DEF CronInv, Fresh
<1> QED
  BY <1>9, <1>10, <1>11, <1>12, <1>13, <1>14, <1>15, <1>16, <1>17, <1>18 DEF CronInv
-----------------------------------------------------------------------------
(* cron_save, by any of the three threads. *)
LEMMA SaveStep ==
  ASSUME CronInv, NEW t \in Savers, Save(t)
  PROVE  CronInv'
<1> USE DEF Scanning
<1>1. /\ UNCHANGED <<jobs, nextId, now, idx, clock, shutdown, joined, boots>>
      /\ UNCHANGED <<known, once, removed, firings, firing, round, shifted>>
  BY DEF Save, SaveSnapshot, SaveOpen, SaveFail, SaveWrite, table, scan, world, history
<1>0. UNCHANGED <<jobs, nextId, idx, known, once, removed, firings, firing, round, shifted>>
  BY <1>1
<1>2. /\ saving \in [Savers -> {"no", "snapshot", "open", "write"}]
      /\ snap \in [Savers -> Seq(Job)] /\ Table(jobs)
      /\ \A u \in Savers : Table(snap[u]) /\ AllEnabled(snap[u])
      /\ Table(file) /\ AllEnabled(file) /\ "cron" \in Savers
      /\ pc = "save" <=> saving["cron"] # "no"
  BY DEF CronInv, Typed, Tables, Phases, Savers
<1>3. Table(<<>>) /\ AllEnabled(<<>>) /\ <<>> \in Seq(Job)
  BY CronAssumption DEF Table, AllEnabled
<1>4. CASE SaveSnapshot(t)
  <2>1. /\ saving[t] = "snapshot" /\ snap' = [snap EXCEPT ![t] = Enabled(jobs)]
        /\ saving' = [saving EXCEPT ![t] = "open"]
        /\ spoiled' = \E u \in Savers \ {t} : saving[u] \in {"open", "write"}
        /\ pc' = pc /\ file' = file
    BY <1>4 DEF SaveSnapshot
  <2>2. Table(Enabled(jobs)) /\ AllEnabled(Enabled(jobs)) /\ Enabled(jobs) \in Seq(Job)
          /\ (AllEnabled(jobs) => Enabled(jobs) = jobs)
    BY <1>2, EnabledTable DEF Table
  <2>3. /\ \A u \in Savers : saving'[u] = IF u = t THEN "open" ELSE saving[u]
        /\ \A u \in Savers : snap'[u] = IF u = t THEN Enabled(jobs) ELSE snap[u]
        /\ saving' \in [Savers -> {"no", "snapshot", "open", "write"}]
        /\ snap' \in [Savers -> Seq(Job)]
    BY <1>2, <2>1, <2>2
  <2>4. Typed'
    BY <1>1, <2>1, <2>3 DEF CronInv, Typed
  <2>5. Tables'
    BY <1>1, <1>2, <2>1, <2>2, <2>3 DEF Tables
  <2>6. Fresh'
    <3> SUFFICES ASSUME ~spoiled' PROVE Fresh'
      BY DEF Fresh
    <3>1. \A u \in Savers : u # t => saving[u] \notin {"open", "write"}
      BY <2>1
    <3>2. Writers' = {t}
      BY <2>3, <3>1 DEF Writers
    <3>3. ~Scanning => snap'[t] = jobs
      BY <2>2, <2>3 DEF CronInv, Phases
    <3> QED
      BY <1>1, <2>1, <3>2, <3>3 DEF Fresh
  <2>7. pc' = "save" <=> saving'["cron"] # "no"
    BY <1>2, <2>1, <2>3
  <2>8. pc' = pc \/ (pc' \notin {"push", "resume"} /\ ~Scanning)
    BY <2>1
  <2> QED
    BY <1>0, <2>4, <2>5, <2>6, <2>7, <2>8, QuietStep
<1>5. CASE SaveOpen(t)
  <2>1. /\ saving[t] = "open" /\ file' = <<>> /\ saving' = [saving EXCEPT ![t] = "write"]
        /\ pc' = pc /\ snap' = snap /\ spoiled' = spoiled
    BY <1>5 DEF SaveOpen, history
  <2>2. /\ \A u \in Savers : saving'[u] = IF u = t THEN "write" ELSE saving[u]
        /\ saving' \in [Savers -> {"no", "snapshot", "open", "write"}]
    BY <1>2, <2>1
  <2>3. Typed'
    BY <1>1, <2>1, <2>2 DEF CronInv, Typed
  <2>4. Tables'
    BY <1>1, <1>2, <1>3, <2>1 DEF Tables
  <2>5. Fresh'
    <3>1. Writers' = Writers /\ t \in Writers
      BY <2>1, <2>2 DEF Writers
    <3>2. \A u \in Savers : saving'[u] # "snapshot" <=> saving[u] # "snapshot"
      BY <2>1, <2>2
    <3> QED
      BY <1>1, <2>1, <3>1, <3>2 DEF CronInv, Fresh
  <2>6. pc' = "save" <=> saving'["cron"] # "no"
    BY <1>2, <2>1, <2>2
  <2>7. pc' = pc \/ (pc' \notin {"push", "resume"} /\ ~Scanning)
    BY <2>1
  <2> QED
    BY <1>0, <2>3, <2>4, <2>5, <2>6, <2>7, QuietStep
<1>6. CASE SaveFail(t) \/ SaveWrite(t)
  <2>1. /\ saving[t] \in {"open", "write"} /\ saving' = [saving EXCEPT ![t] = "no"]
        /\ pc' = (IF t = "cron" THEN "sleep" ELSE pc) /\ snap' = [snap EXCEPT ![t] = <<>>]
        /\ file' \in {file, snap[t]}
    BY <1>6 DEF SaveFail, SaveWrite, Returned
  <2>10. \/ spoiled' = TRUE
         \/ spoiled' = spoiled /\ file' = snap[t]
    BY <1>6 DEF SaveFail, SaveWrite, history
  <2>2. /\ \A u \in Savers : saving'[u] = IF u = t THEN "no" ELSE saving[u]
        /\ \A u \in Savers : snap'[u] = IF u = t THEN <<>> ELSE snap[u]
        /\ saving' \in [Savers -> {"no", "snapshot", "open", "write"}]
        /\ snap' \in [Savers -> Seq(Job)]
    BY <1>2, <1>3, <2>1
  <2>3. t = "cron" => pc = "save" /\ pc' = "sleep"
    BY <1>2, <2>1
  <2>4. Typed'
    BY <1>1, <2>1, <2>2, <2>10 DEF CronInv, Typed
  <2>5. Tables'
    BY <1>1, <1>2, <1>3, <2>1, <2>2 DEF Tables
  <2>6. Fresh'
    <3> SUFFICES ASSUME ~spoiled' PROVE Fresh'
      BY DEF Fresh
    <3>1. ~spoiled /\ file' = snap[t] /\ t \in Writers
      BY <2>1, <2>10 DEF Writers
    <3>2. \A u \in Writers : u = t
      BY <3>1 DEF CronInv, Fresh
    <3>3. Writers' = {}
      BY <2>2, <3>2 DEF Writers
    <3>4. (\A u \in Savers : saving'[u] # "snapshot") => \A u \in Savers : saving[u] # "snapshot"
      BY <2>1, <2>2
    <3>5. Scanning' <=> Scanning
      BY <2>1, <2>3
    <3>6. ~Scanning' /\ (\A u \in Savers : saving'[u] # "snapshot") => file' = jobs
      BY <3>1, <3>4, <3>5 DEF CronInv, Fresh
    <3> QED
      BY <1>1, <3>3, <3>6 DEF Fresh
  <2>7. pc' = "save" <=> saving'["cron"] # "no"
    BY <1>2, <2>1, <2>2
  <2>8. pc' = pc \/ (pc' \notin {"push", "resume"} /\ ~Scanning)
    <3>1. CASE t = "cron"
      BY <2>3, <3>1
    <3>2. CASE t # "cron"
      BY <2>1, <3>2
    <3> QED
      BY <3>1, <3>2
  <2> QED
    BY <1>0, <2>4, <2>5, <2>6, <2>7, <2>8, QuietStep
<1> QED
  BY <1>4, <1>5, <1>6 DEF Save

(* The clock, the end of the program, and the join of the cron thread. *)
LEMMA WorldStep ==
  ASSUME CronInv, Tick \/ Shutdown \/ CronExit \/ StopService
  PROVE  CronInv'
<1> USE DEF Scanning
<1>1. /\ UNCHANGED <<jobs, nextId, now, idx, snap, file, boots>>
      /\ UNCHANGED <<known, once, removed, firings, firing, round, shifted, spoiled>>
  BY DEF Tick, Shutdown, CronExit, StopService, table, scan, disk, world, history
<1>2. /\ saving \in [Savers -> {"no", "snapshot", "open", "write"}]
      /\ pc = "save" <=> saving["cron"] # "no"
  BY DEF CronInv, Typed, Phases
<1>3. /\ pc' = pc \/ (pc = "sleep" /\ pc' = "exited")
      /\ saving' = saving \/ saving' = [saving EXCEPT !["main"] = "snapshot"]
      /\ clock' = clock \/ clock' = clock + 1
      /\ shutdown' = shutdown \/ shutdown' = TRUE
      /\ joined' = joined \/ joined' = TRUE
  <2>1. CASE Tick
    BY <2>1 DEF Tick, disk
  <2>2. CASE Shutdown
    BY <2>2 DEF Shutdown, disk
  <2>3. CASE CronExit
    BY <2>3 DEF CronExit, disk, world
  <2>4. CASE StopService
    BY <2>4 DEF StopService
  <2> QED
    BY <2>1, <2>2, <2>3, <2>4
<1>4. /\ saving' \in [Savers -> {"no", "snapshot", "open", "write"}]
      /\ saving'["cron"] = saving["cron"]
      /\ \A t \in Savers : saving'[t] = saving[t] \/ (t = "main" /\ saving'[t] = "snapshot")
      /\ saving' = saving \/ saving'["main"] = "snapshot"
  <2>1. CASE saving' = saving
    BY <1>2, <2>1
  <2>2. CASE saving' = [saving EXCEPT !["main"] = "snapshot"]
    BY <1>2, <2>2 DEF Savers
  <2> QED
    BY <1>3, <2>1, <2>2
<1>5. Typed'
  <2>1. clock' \in Nat
    BY <1>3 DEF CronInv, Typed
  <2>2. shutdown' \in BOOLEAN /\ joined' \in BOOLEAN
    BY <1>3 DEF CronInv, Typed
  <2>3. pc' \in {"sleep", "push", "resume", "save", "exited"}
    BY <1>3 DEF CronInv, Typed
  <2> QED
    BY <1>1, <1>4, <2>1, <2>2, <2>3 DEF CronInv, Typed
<1>6. Tables'
  BY <1>1 DEF CronInv, Tables
<1>7. Fresh'
  <2>1. CASE saving' = saving
    <3>1. Writers' = Writers /\ (Scanning' <=> Scanning)
      BY <1>3, <2>1 DEF Writers
    <3> QED
      BY <1>1, <2>1, <3>1 DEF CronInv, Fresh
  <2>2. CASE saving'["main"] = "snapshot"
    <3>1. Writers' \subseteq Writers /\ "main" \in Savers
      BY <1>4 DEF Writers, Savers
    <3> QED
      BY <1>1, <2>2, <3>1 DEF CronInv, Fresh
  <2> QED
    BY <1>4, <2>1, <2>2
<1>8. pc' = "save" <=> saving'["cron"] # "no"
  BY <1>2, <1>3, <1>4
<1>9. UNCHANGED <<jobs, nextId, idx, known, once, removed, firings, firing, round, shifted>>
  BY <1>1
<1>10. pc' = pc \/ (pc' \notin {"push", "resume"} /\ ~Scanning)
  BY <1>3
<1> QED
  BY <1>5, <1>6, <1>7, <1>8, <1>9, <1>10, QuietStep

(* A new process loads the file. *)
LEMMA RestartStep ==
  ASSUME CronInv, Restart
  PROVE  CronInv'
<1> USE DEF Scanning, Slots
<1> DEFINE loaded == SubSeq(file, 1, Min({Len(file), MaxJobs}))
           ids == {loaded[k].id : k \in 1..Len(loaded)}
           n == Len(file)
<1>1. /\ Table(file) /\ AllEnabled(file) /\ file \in Seq(Job) /\ n \in Nat /\ n <= MaxJobs
      /\ MaxJobs \in Nat /\ MaxId \in Nat /\ MaxBoots \in Nat
  BY CronAssumption DEF CronInv, Tables, Table
<1>2. Min({n, MaxJobs}) = n
  <2>1. Min({n, MaxJobs}) \in {n, MaxJobs} /\ Min({n, MaxJobs}) <= n
    BY <1>1, LeastOfNumbers
  <2> QED
    BY <1>1, <2>1
<1>3. loaded = file
  BY <1>1, <1>2
<1>4. /\ boots' = boots + 1 /\ boots < MaxBoots /\ jobs' = loaded /\ nextId' = NextId(ids)
      /\ known' = ids
      /\ once' = {loaded[k].id : k \in {k \in 1..Len(loaded) : loaded[k].every = 0}}
      /\ pc' = "sleep" /\ now' = 0 /\ idx' = 0
      /\ saving' = [t \in Savers |-> "no"] /\ snap' = [t \in Savers |-> <<>>]
      /\ shutdown' = FALSE /\ joined' = FALSE
      /\ removed' = {} /\ firings' = [id \in Ids |-> 0] /\ firing' = 0 /\ round' = {}
      /\ shifted' = FALSE /\ spoiled' = FALSE /\ clock' = clock /\ file' = file
  BY DEF Restart
<1> DEFINE loadedIds == {file[k].id : k \in 1..n}
<1>5. ids = loadedIds /\ once' = {file[k].id : k \in {k \in 1..n : file[k].every = 0}}
  BY <1>3, <1>4
<1> HIDE DEF loaded, ids
<1>6. \A k \in 1..n : file[k].id \in Ids /\ file[k].enabled
  BY <1>1 DEF Table, AllEnabled
<1>7. nextId' \in 1..MaxId+1 /\ \A id \in loadedIds : id < nextId'
  <2> DEFINE S == {0} \cup loadedIds
  <2>1. S \subseteq 0..MaxId /\ S # {}
    BY <1>1, <1>6 DEF Ids
  <2>2. Max(S) \in S /\ \A x \in S : x <= Max(S)
    BY <1>1, <2>1, GreatestOfNumbers
  <2>3. nextId' = Max(S) + 1
    BY <1>4, <1>5 DEF NextId
  <2>4. Max(S) \in 0..MaxId
    BY <2>1, <2>2
  <2>5. \A id \in loadedIds : id \in S /\ id \in 0..MaxId
    BY <2>1
  <2> HIDE DEF S, loadedIds
  <2>6. \A id \in loadedIds : id < nextId'
    BY <2>2, <2>3, <2>4, <2>5
  <2> QED
    BY <1>1, <2>3, <2>4, <2>6
<1>8. Typed'
  <2>1. <<>> \in Seq(Job) /\ boots' \in 0..MaxBoots
    BY <1>1, <1>4 DEF CronInv, Typed
  <2> QED
    BY <1>4, <2>1 DEF CronInv, Typed
<1>9. Tables'
  <2>1. Table(<<>>) /\ AllEnabled(<<>>)
    BY <1>1 DEF Table, AllEnabled
  <2>2. \A t \in Savers : snap'[t] = <<>>
    BY <1>4
  <2> QED
    BY <1>1, <1>3, <1>4, <2>1, <2>2 DEF Tables
<1>10. Numbered'
  <2>1. known' \subseteq Ids /\ once' \subseteq known'
    BY <1>4, <1>5, <1>6
  <2>2. \A k \in 1..n : file[k].id < nextId'
    BY <1>7
  <2>3. 0 < nextId'
    BY <1>1, <1>7
  <2>4. \A id \in Ids : firings'[id] = 0
    BY <1>4
  <2>5. \A id \in known' \cup removed' \cup round' \cup {firing'} : id < nextId'
    BY <1>4, <1>5, <1>7, <2>3
  <2> HIDE DEF loadedIds
  <2> QED
    BY <1>3, <1>4, <1>7, <2>1, <2>2, <2>4, <2>5 DEF Numbered
<1>11. OnceJobs'
  <2>1. \A k, l \in 1..n : file[k].id = file[l].id => k = l
    BY <1>1 DEF Table
  <2>2. \A k \in 1..n : file[k].id \in once' <=> file[k].every = 0
    BY <1>5, <2>1
  <2> QED
    BY <1>3, <1>4, <2>2 DEF OnceJobs
<1>12. Phases' /\ Scanned' /\ Pointed'
  <2>1. saving'["cron"] = "no"
    BY <1>4 DEF Savers
  <2> QED
    BY <1>1, <1>3, <1>4, <2>1 DEF Phases, Scanned, Pointed
<1>13. Unfired'
  <2>1. once' \subseteq Ids
    BY <1>5, <1>6
  <2>2. \A id \in Ids : firings'[id] = 0
    BY <1>4
  <2> QED
    BY <1>3, <1>4, <1>6, <2>1, <2>2 DEF Unfired, OnceFiresOnce
<1>14. Conserved'
  BY <1>3, <1>4, <1>5, <1>6 DEF Conserved
<1>15. Fresh'
  BY <1>3, <1>4 DEF Fresh, Writers
<1> QED
  BY <1>8, <1>9, <1>10, <1>11, <1>12, <1>13, <1>14, <1>15 DEF CronInv
-----------------------------------------------------------------------------
LEMMA CronInit == Init => CronInv
<1> SUFFICES ASSUME Init PROVE CronInv
  OBVIOUS
<1> USE CronAssumption DEF Init
<1>1. Table(<<>>) /\ AllEnabled(<<>>) /\ <<>> \in Seq(Job)
  BY DEF Table, AllEnabled
<1>2. Typed
  <2>1. boots \in 0..MaxBoots /\ now \in Nat /\ clock \in Nat
    OBVIOUS
  <2>2. firings \in [Ids -> Nat] /\ snap \in [Savers -> Seq(Job)]
    BY <1>1
  <2>3. saving \in [Savers -> {"no", "snapshot", "open", "write"}]
    OBVIOUS
  <2> QED
    BY <2>1, <2>2, <2>3 DEF Typed
<1>3. Tables
  BY <1>1 DEF Tables
<1>4. Numbered
  BY DEF Numbered, Slots
<1>5. OnceJobs /\ Scanned /\ Pointed
  BY DEF OnceJobs, Scanned, Pointed, Slots, Scanning
<1>6. Phases
  BY <1>1 DEF Phases, Scanning, Savers
<1>7. Unfired /\ Conserved
  BY DEF Unfired, OnceFiresOnce, Conserved, Slots
<1>8. Fresh
  BY DEF Fresh, Writers
<1> QED
  BY <1>2, <1>3, <1>4, <1>5, <1>6, <1>7, <1>8 DEF CronInv

LEMMA CronInductive == CronInv /\ [Next]_vars => CronInv'
<1> SUFFICES ASSUME CronInv, [Next]_vars PROVE CronInv'
  OBVIOUS
<1>1. CASE CronStep
  BY <1>1, WakeStep, PushStep, ResumeStep, WorldStep, SaveStep DEF CronStep, Savers
<1>2. CASE Schedule
  <2>1. clock \in Nat /\ \A d \in Delays : d \in Nat
    BY CronAssumption DEF CronInv, Typed
  <2>2. \A s \in Intervals : s \in Nat
    BY CronAssumption
  <2>3. CASE \E d \in Delays : AddJob(0, clock + d)
    BY <2>1, <2>3, AddStep
  <2>4. CASE \E s \in Intervals : AddJob(s, clock + s)
    BY <2>1, <2>2, <2>4, AddStep
  <2> QED
    BY <1>2, <2>3, <2>4 DEF Schedule
<1>3. CASE \E id \in Ids : RemoveJob(id)
  BY <1>3, RemoveStep
<1>4. CASE Save("agent") \/ Save("main")
  BY <1>4, SaveStep DEF Savers
<1>5. CASE StopService \/ Tick \/ Shutdown
  BY <1>5, WorldStep
<1>6. CASE Restart
  BY <1>6, RestartStep
<1>7. CASE UNCHANGED vars
  <2>1. /\ UNCHANGED <<jobs, nextId, pc, now, idx, saving, snap, file>>
        /\ UNCHANGED <<clock, shutdown, joined, boots>>
        /\ UNCHANGED <<known, once, removed, firings, firing, round, shifted, spoiled>>
    BY <1>7 DEF vars, table, scan, disk, world, history
  <2>2. Typed' /\ Tables'
    BY <2>1 DEF CronInv, Typed, Tables
  <2>3. Fresh'
    BY <2>1 DEF CronInv, Fresh, Writers, Scanning
  <2>4. pc' = "save" <=> saving'["cron"] # "no"
    BY <2>1 DEF CronInv, Phases
  <2>5. UNCHANGED <<jobs, nextId, idx, known, once, removed, firings, firing, round, shifted>>
    BY <2>1
  <2>6. pc' = pc \/ (pc' \notin {"push", "resume"} /\ ~Scanning)
    BY <2>1
  <2> QED
    BY <2>2, <2>3, <2>4, <2>5, <2>6, QuietStep
<1> QED
  BY <1>1, <1>2, <1>3, <1>4, <1>5, <1>6, <1>7 DEF Next

LEMMA CronInvariant == Spec => []CronInv
BY CronInit, CronInductive, PTL DEF Spec
-----------------------------------------------------------------------------
(* Every variable has its type, the ids of the table are unique and below the
   next one to be handed out (cron_add_job, cron_remove_job, cron_load). *)
THEOREM TypeCorrect == Spec => []TypeOK
<1>1. CronInv => TypeOK
  <2> SUFFICES ASSUME CronInv PROVE TypeOK
    OBVIOUS
  <2>1. /\ jobs \in Seq(Job) /\ Len(jobs) <= MaxJobs /\ nextId \in 1..MaxId+1
        /\ file \in Seq(Job) /\ \A k \in Slots : jobs[k].id < nextId
    BY DEF CronInv, Tables, Table, Numbered
  <2>2. IsInjective([k \in Slots |-> jobs[k].id])
    BY DEF CronInv, Tables, Table, Slots, IsInjective
  <2>3. idx \in 0..MaxJobs /\ firing \in 0..MaxId
    BY CronAssumption DEF CronInv, Phases, Ids
  <2>4. known \subseteq Ids /\ once \subseteq known /\ removed \subseteq Ids /\ round \subseteq Ids
    BY DEF CronInv, Numbered
  <2> QED
    BY <2>1, <2>2, <2>3, <2>4 DEF CronInv, Typed, TypeOK
<1> QED
  BY <1>1, CronInvariant, PTL

(* No job is lost but by its removal or, a once job, by firing; none that was
   removed comes back; and none stays disabled (cron_thread, cron_remove_job). *)
THEOREM JobsNeverLost == Spec => []JobsConserved
<1>1. CronInv => JobsConserved
  <2> SUFFICES ASSUME CronInv PROVE JobsConserved
    OBVIOUS
  <2>1. \A k \in Slots : jobs[k].id \notin removed
    BY DEF CronInv, Conserved
  <2>2. ASSUME ~shifted, NEW id \in known \ (removed \cup {i \in once : firings[i] > 0})
        PROVE  id \in {jobs[k].id : k \in {k \in Slots : jobs[k].enabled}}
    BY <2>2 DEF CronInv, Conserved
  <2>3. pc \in {"sleep", "save", "exited"} => \A k \in Slots : jobs[k].enabled
    BY DEF CronInv, Phases, Scanning, AllEnabled, Slots
  <2> QED
    BY <2>1, <2>2, <2>3 DEF JobsConserved
<1> QED
  BY <1>1, CronInvariant, PTL

(* A once job fires once, unless the table is moved under the pointer of the cron
   thread; a scan never fires a job twice (cron_thread, the unlocked push). *)
THEOREM OnceJobsFireOnce == Spec => []FiresOnce
<1>1. CronInv => FiresOnce
  BY DEF CronInv, Unfired, Scanned, FiresOnce
<1> QED
  BY <1>1, CronInvariant, PTL

(* At rest the file is the table, unless the last save failed or overlapped with
   another; one that does neither makes up for it (cron_save and its callers). *)
THEOREM FileIsCurrent == Spec => []FileCurrentUnlessSpoiled
<1>1. CronInv => FileCurrentUnlessSpoiled
  <2> SUFFICES ASSUME CronInv, ~spoiled, AtRest PROVE file = Enabled(jobs)
    BY DEF FileCurrentUnlessSpoiled
  <2>1. ~Scanning /\ \A t \in Savers : saving[t] = "no"
    BY DEF AtRest, Scanning
  <2>2. Writers = {} /\ \A t \in Savers : saving[t] # "snapshot"
    BY <2>1 DEF Writers
  <2>3. file = jobs /\ AllEnabled(jobs) /\ Table(jobs)
    BY <2>1, <2>2 DEF CronInv, Fresh, Phases, Tables
  <2> QED
    BY <2>3, EnabledTable
<1> QED
  BY <1>1, CronInvariant, PTL
=============================================================================

--------------------------- MODULE AgentTurnProofs ---------------------------
(***************************************************************************)
(* Turns and conversation files, for any number of chats, turns, removals, *)
(* power losses and files that do not open, any length of history and      *)
(* files, and any budget.                                                  *)
(*                                                                         *)
(* The inductive invariant follows the messages of a turn: they are at the *)
(* end of the context (Talking), from history_msg_count on unless a trim   *)
(* moved them (Unmoved), then partly appended and partly still to be       *)
(* (Halves), and what was appended is at the end of the file (Newest).  A  *)
(* use and its result are neighbours among the lines of a file that have   *)
(* nothing missing between them, the one that is being appended to         *)
(* excepted: there the result may be the next to come (Linked).  Aged,     *)
(* Copied and Sized are about the removals, the two steps of a compaction, *)
(* and how much it lets a file grow.                                       *)
(***************************************************************************)
EXTENDS AgentTurn, FiniteSetTheorems, WellFoundedInduction, TLAPS

Saving == pc \in {"save", "compact", "rename"}

(* The sequence t ends with s. *)
EndsWith(t, s) ==
  /\ Len(s) <= Len(t)
  /\ \A i \in 1..Len(s) : t[Len(t) - Len(s) + i] = s[i]

(* A use is followed by a result, and nothing else is. *)
LinkedKinds(ks) == \A i \in 1..Len(ks)-1 : ks[i] = "use" <=> ks[i + 1] = "result"

(* What may have been said in a turn when the model is called. *)
Said(ks) ==
  /\ ks # <<>> /\ ks[1] = "user" /\ ks[Len(ks)] # "use"
  /\ LinkedKinds(ks)

Typed ==
  /\ file \in [Chats -> Seq(Line)] /\ tmp \in Seq(Line)
  /\ appendCount \in 0..CompactEvery-1
  /\ pc \in {"idle", "trim", "llm", "save", "compact", "rename", "reply"}
  /\ chat \in Chats
  /\ messages \in Seq(Kinds) /\ toSave \in Seq(Kinds)
  /\ histCount \in 0..MaxHistory /\ iter \in 0..MaxIter
  /\ synced \in [Chats -> Nat] /\ sound \in [Chats -> 0..MaxHistory]
  /\ turn \in Seq(Kinds) /\ saved \in Seq(Kinds)
  /\ trimmed \in BOOLEAN /\ failed \in BOOLEAN /\ removed \in BOOLEAN /\ raced \in BOOLEAN
  /\ turns \in 0..MaxTurns /\ clears \in [Chats -> 0..MaxClears]
  /\ crashes \in 0..MaxCrashes /\ fails \in 0..MaxFails

(* An interval of appends may pass before a compaction, and another one after
   each restart, which forgets the appends counted so far, and after each
   compaction that fails. *)
Spare == (crashes + fails) * CompactEvery
Counted == IF pc \in {"compact", "rename"} THEN CompactEvery ELSE appendCount
Sized ==
  /\ pc \in {"compact", "rename"} => appendCount = 0
  /\ pc = "rename" => Len(tmp) = MaxMsgs
  /\ Chats = {chat} => Len(file[chat]) <= MaxMsgs + Spare + Counted

(* What has been said is at the end of the context; nothing waits to be saved
   before the model has answered. *)
Talking ==
  /\ pc = "trim" => turn = <<"user">>
  /\ pc \in {"trim", "llm"} => EndsWith(messages, turn) /\ Said(turn)
  /\ pc \in {"idle", "trim", "llm"} => saved = <<>>
  /\ ~Saving => toSave = <<>>
  /\ pc \in {"idle", "trim"} => ~trimmed
Unmoved ==
  pc \in {"trim", "llm"} => /\ Len(messages) <= histCount + Len(turn)
                            /\ ~trimmed => Len(messages) = histCount + Len(turn)
Halves ==
  ~trimmed /\ iter < MaxIter /\ ~failed =>
    /\ Saving => saved \o toSave = turn
    /\ pc = "reply" => saved \in {<<>>, turn}

(* The last lines of s are of the kinds ks, as many as there are. *)
EndsAs(s, ks) == \A i \in 0..Len(ks)-1 : i < Len(s) => s[Len(s) - i].kind = ks[Len(ks) - i]
Newest ==
  /\ EndsAs(file[chat], saved) /\ (pc = "rename" => EndsAs(tmp, saved))
  /\ ~removed => Len(saved) <= Len(file[chat]) \/ MaxMsgs <= Len(file[chat])

Aged ==
  ~raced => /\ \A c \in Chats : \A i \in 1..Len(file[c]) : file[c][i].gen = clears[c]
            /\ pc = "rename" => \A i \in 1..Len(tmp) : tmp[i].gen = clears[chat]
Copied ==
  pc = "rename" => file[chat] = <<>> \/ tmp = LastN(file[chat], MaxMsgs)

(* The newest n lines: whole ones, in which a use is followed by its result and
   a result preceded by its use, and which end in a use only before the result ks
   begins with. *)
WholeLines(s, n) == \A i \in 1..Len(s) : i > Len(s) - n => s[i].kind \in Kinds
LinkedLines(s, n) ==
  \A i \in 1..Len(s)-1 : i > Len(s) - n => (s[i].kind = "use" <=> s[i + 1].kind = "result")
Awaits(s, n, ks) ==
  n > 0 /\ s # <<>> => (s[Len(s)].kind = "use" <=> ks # <<>> /\ ks[1] = "result")
Fitting(s, n, ks) == WholeLines(s, n) /\ LinkedLines(s, n) /\ Awaits(s, n, ks)

Linked ==
  /\ \A c \in Chats : Fitting(file[c], sound[c], IF Saving /\ c = chat THEN toSave ELSE <<>>)
  /\ pc = "rename" => Fitting(tmp, sound[chat], toSave)
  /\ LinkedKinds(toSave) /\ (toSave # <<>> => toSave[Len(toSave)] # "use")
  /\ pc \in {"trim", "llm"} /\ sound[chat] = MaxHistory => Paired(messages)

TurnInv ==
  /\ Typed /\ Sized /\ Talking /\ Unmoved /\ Halves /\ Newest
  /\ Aged /\ Copied /\ Linked
-----------------------------------------------------------------------------
(* Sets of numbers, and the counter of the appends. *)
LEMMA LeastNatural ==
  ASSUME NEW T, T \subseteq Nat, T # {}
  PROVE  \E n \in T : \A m \in T : n <= m
<1>1. PICK n \in T : \A m \in T : ~(<<m, n>> \in OpToRel(<, Nat))
  BY NatLessThanWellFounded, WFMin
<1>2. \A m \in T : ~(m < n)
  BY <1>1 DEF OpToRel
<1> QED
  BY <1>2

LEMMA LeastOfNumbers ==
  ASSUME NEW S, S \subseteq Nat, S # {}
  PROVE  Min(S) \in S /\ \A x \in S : Min(S) <= x
BY LeastNatural DEF Min

LEMMA Counting ==
  ASSUME NEW n \in Nat \ {0}, NEW a \in 0..n-1
  PROVE  (a + 1) % n = IF a + 1 = n THEN 0 ELSE a + 1
<1>1. CASE a + 1 = n
  BY <1>1
<1>2. CASE a + 1 < n
  BY <1>2
<1> QED
  BY <1>1, <1>2

LEMMA Multiples ==
  ASSUME NEW n \in Nat, NEW k \in Nat
  PROVE  k * n \in Nat /\ (k + 1) * n = k * n + n
OBVIOUS

LEMMA SpareFacts ==
  ASSUME Typed
  PROVE  /\ Spare \in Nat
         /\ crashes' = crashes /\ fails' = fails => Spare' = Spare
         /\ crashes' = crashes /\ fails' = fails + 1 => Spare' = Spare + CompactEvery
         /\ crashes' = crashes + 1 /\ fails' = fails => Spare' = Spare + CompactEvery
<1>1. crashes \in Nat /\ fails \in Nat /\ CompactEvery \in Nat
  BY TurnAssumption DEF Typed
<1> DEFINE k == crashes + fails
<1>2. k \in Nat /\ Spare = k * CompactEvery
  BY <1>1 DEF Spare
<1>3. Spare \in Nat /\ (k + 1) * CompactEvery = Spare + CompactEvery
  BY <1>1, <1>2, Multiples
<1>4. ASSUME crashes' = crashes, fails' = fails + 1 PROVE Spare' = Spare + CompactEvery
  <2>1. crashes' + fails' = k + 1
    BY <1>1, <1>4
  <2> QED
    BY <1>3, <2>1 DEF Spare
<1>5. ASSUME crashes' = crashes + 1, fails' = fails PROVE Spare' = Spare + CompactEvery
  <2>1. crashes' + fails' = k + 1
    BY <1>1, <1>5
  <2> QED
    BY <1>3, <2>1 DEF Spare
<1>6. crashes' = crashes /\ fails' = fails => Spare' = Spare
  BY DEF Spare
<1> QED
  BY <1>3, <1>4, <1>5, <1>6

(* Sequences: the rest from a position on, the last elements, all but the last. *)
LEMMA RestOf ==
  ASSUME NEW S, NEW s \in Seq(S), NEW m \in Nat \ {0}
  PROVE  /\ SubSeq(s, m, Len(s)) \in Seq(S)
         /\ m <= Len(s) + 1 =>
              /\ Len(SubSeq(s, m, Len(s))) = Len(s) + 1 - m
              /\ \A i \in 1..Len(s) + 1 - m : SubSeq(s, m, Len(s))[i] = s[m - 1 + i]
              /\ EndsWith(s, SubSeq(s, m, Len(s)))
<1>1. Len(s) \in Nat
  OBVIOUS
<1>2. SubSeq(s, m, Len(s)) \in Seq(S)
  BY <1>1
<1>3. ASSUME m <= Len(s) + 1
      PROVE  /\ Len(SubSeq(s, m, Len(s))) = Len(s) + 1 - m
             /\ \A i \in 1..Len(s) + 1 - m : SubSeq(s, m, Len(s))[i] = s[m - 1 + i]
  BY <1>1, <1>3
<1>4. ASSUME m <= Len(s) + 1
      PROVE  EndsWith(s, SubSeq(s, m, Len(s)))
  <2> DEFINE t == SubSeq(s, m, Len(s))
  <2>1. Len(t) = Len(s) + 1 - m /\ \A i \in 1..Len(s) + 1 - m : t[i] = s[m - 1 + i]
    BY <1>3, <1>4
  <2> HIDE DEF t
  <2>2. Len(t) <= Len(s) /\ Len(s) - Len(t) = m - 1
    BY <1>1, <1>4, <2>1
  <2>3. \A i \in 1..Len(t) : s[Len(s) - Len(t) + i] = t[i]
    BY <2>1, <2>2
  <2> QED
    BY <2>2, <2>3 DEF t, EndsWith
<1> QED
  BY <1>2, <1>3, <1>4

LEMMA LastOnes ==
  ASSUME NEW S, NEW s \in Seq(S), NEW n \in Nat
  PROVE  /\ LastN(s, n) \in Seq(S)
         /\ Len(LastN(s, n)) = IF Len(s) <= n THEN Len(s) ELSE n
         /\ EndsWith(s, LastN(s, n))
<1> DEFINE k == Min({n, Len(s)})
<1>1. Len(s) \in Nat /\ {n, Len(s)} \subseteq Nat
  OBVIOUS
<1>2. k \in {n, Len(s)} /\ \A x \in {n, Len(s)} : k <= x
  BY <1>1, LeastOfNumbers
<1>3. k \in Nat /\ k <= Len(s) /\ k = IF Len(s) <= n THEN Len(s) ELSE n
  BY <1>1, <1>2
<1> DEFINE m == 1 + Len(s) - k
<1>4. LastN(s, n) = SubSeq(s, m, Len(s))
  BY DEF LastN
<1>5. k \in Nat /\ k <= Len(s)
  BY <1>3
<1> HIDE DEF k
<1>6. m \in Nat \ {0} /\ m <= Len(s) + 1 /\ Len(s) + 1 - m = k
  BY <1>1, <1>5
<1> HIDE DEF m
<1> QED
  BY <1>3, <1>4, <1>6, RestOf

LEMMA AllButTheLast ==
  ASSUME NEW S, NEW s \in Seq(S), s # <<>>
  PROVE  /\ Front(s) \in Seq(S) /\ Len(Front(s)) = Len(s) - 1
         /\ \A i \in 1..Len(s)-1 : Front(s)[i] = s[i]
<1>1. Len(s) \in Nat \ {0} /\ \A i \in 1..Len(s) : s[i] \in S
  OBVIOUS
<1>2. Front(s) = SubSeq(s, 1, Len(s) - 1)
  BY DEF Front
<1> DEFINE n == Len(s) - 1
<1>3. n \in Nat /\ \A i \in 1..n : s[i] \in S
  BY <1>1
<1> HIDE DEF n
<1>4. SubSeq(s, 1, n) \in Seq(S) /\ Len(SubSeq(s, 1, n)) = n
  BY <1>3
<1>5. SubSeq(s, 1, Len(s) - 1) \in Seq(S) /\ Len(SubSeq(s, 1, Len(s) - 1)) = Len(s) - 1
  BY <1>4 DEF n
<1>6. \A i \in 1..Len(s)-1 : SubSeq(s, 1, Len(s) - 1)[i] = s[i]
  BY <1>1
<1> QED
  BY <1>2, <1>5, <1>6

LEMMA FrontOfAppend ==
  ASSUME NEW S, NEW s \in Seq(S), NEW e \in S
  PROVE  Append(s, e) # <<>> /\ Front(Append(s, e)) = s
<1> DEFINE t == Append(s, e)
<1>1. t \in Seq(S) /\ Len(t) = Len(s) + 1 /\ Len(s) \in Nat /\ \A i \in 1..Len(s) : t[i] = s[i]
  OBVIOUS
<1>2. t # <<>>
  BY <1>1
<1> HIDE DEF t
<1>3. Front(t) \in Seq(S) /\ Len(Front(t)) = Len(t) - 1 /\ \A i \in 1..Len(t)-1 : Front(t)[i] = t[i]
  BY <1>1, <1>2, AllButTheLast
<1>4. Front(t) = s
  BY <1>1, <1>3
<1> QED
  BY <1>2, <1>4 DEF t

(* What EndsWith says of a sequence is what IsSuffix says. *)
LEMMA SuffixMeaning ==
  ASSUME NEW S, NEW s \in Seq(S), NEW t \in Seq(S), EndsWith(t, s)
  PROVE  IsSuffix(s, t)
<1>1. Len(s) \in Nat /\ Len(t) \in Nat /\ Len(s) <= Len(t)
      /\ \A i \in 1..Len(s) : t[Len(t) - Len(s) + i] = s[i]
  BY DEF EndsWith
<1> DEFINE r == Reverse(s)
           q == Reverse(t)
<1>2. \A i \in 1..Len(s) : (Len(s) - i) + 1 \in 1..Len(s) /\ s[(Len(s) - i) + 1] \in S
  BY <1>1
<1>3. \A i \in 1..Len(t) : (Len(t) - i) + 1 \in 1..Len(t) /\ t[(Len(t) - i) + 1] \in S
  BY <1>1
<1>4. r \in Seq(S) /\ Len(r) = Len(s) /\ \A i \in 1..Len(s) : r[i] = s[(Len(s) - i) + 1]
  BY <1>1, <1>2 DEF Reverse
<1>5. q \in Seq(S) /\ Len(q) = Len(t) /\ \A i \in 1..Len(t) : q[i] = t[(Len(t) - i) + 1]
  BY <1>1, <1>3 DEF Reverse
<1> HIDE DEF r, q
<1>6. ASSUME NEW i \in 1..Len(s) PROVE r[i] = q[i]
  <2>1. (Len(s) - i) + 1 \in 1..Len(s) /\ i \in 1..Len(t)
    BY <1>1
  <2>2. Len(t) - Len(s) + ((Len(s) - i) + 1) = (Len(t) - i) + 1
    BY <1>1
  <2> QED
    BY <1>1, <1>4, <1>5, <2>1, <2>2
<1>7. SubSeq(r, 1, Len(r)) \in Seq(S) /\ Len(SubSeq(r, 1, Len(r))) = Len(r)
      /\ \A i \in 1..Len(r) : SubSeq(r, 1, Len(r))[i] = r[i]
  BY <1>1, <1>4
<1>8. SubSeq(q, 1, Len(r)) \in Seq(S) /\ Len(SubSeq(q, 1, Len(r))) = Len(r)
      /\ \A i \in 1..Len(r) : SubSeq(q, 1, Len(r))[i] = q[i]
  BY <1>1, <1>4, <1>5
<1>9. SubSeq(r, 1, Len(r)) = SubSeq(q, 1, Len(r))
  BY <1>4, <1>6, <1>7, <1>8
<1> QED
  BY <1>1, <1>4, <1>5, <1>9 DEF IsSuffix, IsPrefix, r, q
-----------------------------------------------------------------------------
(* The positions before k are as many as the rank of k says. *)
LEMMA FinitePositions ==
  ASSUME NEW n \in Nat, NEW I \in SUBSET (1..n)
  PROVE  /\ IsFiniteSet(I) /\ Cardinality(I) \in Nat /\ Cardinality(I) <= n
         /\ \A k \in I : k \in Nat
<1>1. IsFiniteSet(1..n) /\ Cardinality(1..n) = n
  BY FS_Interval
<1>2. IsFiniteSet(I) /\ Cardinality(I) <= n
  BY <1>1, FS_Subset
<1> QED
  BY <1>2, FS_CardinalityType

LEMMA RankInBounds ==
  ASSUME NEW n \in Nat, NEW I \in SUBSET (1..n), NEW k \in I
  PROVE  Rank(I, k) \in Nat /\ Rank(I, k) + 1 \in 1..Cardinality(I)
<1> DEFINE Below == {j \in I : j < k}
<1>1. IsFiniteSet(I) /\ Cardinality(I) \in Nat /\ k \in Nat
  BY FinitePositions
<1>2. Below \subseteq I /\ k \notin Below
  BY <1>1
<1>3. IsFiniteSet(Below) /\ Cardinality(Below) \in Nat /\ Cardinality(Below) <= Cardinality(I)
  BY <1>1, <1>2, FS_Subset, FS_CardinalityType
<1>4. Cardinality(Below) # Cardinality(I)
  BY <1>1, <1>2, FS_Subset
<1>5. Rank(I, k) = Cardinality(Below)
  BY DEF Rank
<1> HIDE DEF Below
<1> QED
  BY <1>1, <1>3, <1>4, <1>5

(* A later position has the higher rank. *)
LEMMA RankInOrder ==
  ASSUME NEW n \in Nat, NEW I \in SUBSET (1..n), NEW j \in I, NEW k \in I, j < k
  PROVE  Rank(I, j) < Rank(I, k)
<1> DEFINE Low == {i \in I : i < j}
           High == {i \in I : i < k}
<1>1. IsFiniteSet(I) /\ j \in Nat /\ k \in Nat /\ \A i \in I : i \in Nat
  BY FinitePositions
<1>0. ~(j < j) /\ \A i \in I : i < j => i < k
  BY <1>1
<1>2. Low \subseteq High /\ High \subseteq I /\ j \in High /\ j \notin Low
  BY <1>0
<1>3. IsFiniteSet(High) /\ Cardinality(High) \in Nat
  BY <1>1, <1>2, FS_Subset, FS_CardinalityType
<1>4. IsFiniteSet(Low) /\ Cardinality(Low) \in Nat /\ Cardinality(Low) <= Cardinality(High)
  BY <1>2, <1>3, FS_Subset, FS_CardinalityType
<1>5. Cardinality(Low) # Cardinality(High)
  BY <1>2, <1>3, FS_Subset
<1>6. Rank(I, j) = Cardinality(Low) /\ Rank(I, k) = Cardinality(High)
  BY DEF Rank
<1> HIDE DEF Low, High
<1> QED
  BY <1>3, <1>4, <1>5, <1>6

(* So the positions of I are enumerated in their order, each once. *)
LEMMA PositionsInOrder ==
  ASSUME NEW n \in Nat, NEW I \in SUBSET (1..n)
  PROVE  /\ \A i \in 1..Cardinality(I) : Position(I, i) \in I /\ Rank(I, Position(I, i)) = i - 1
         /\ \A k \in I : Position(I, Rank(I, k) + 1) = k
         /\ \A i, j \in 1..Cardinality(I) : i < j => Position(I, i) < Position(I, j)
<1> DEFINE f == [k \in I |-> Rank(I, k) + 1]
<1>1. IsFiniteSet(I) /\ Cardinality(I) \in Nat /\ \A k \in I : k \in Nat
  BY FinitePositions
<1>2. \A k \in I : Rank(I, k) \in Nat /\ Rank(I, k) + 1 \in 1..Cardinality(I)
  BY RankInBounds
<1>3. \A j, k \in I : j < k => Rank(I, j) < Rank(I, k)
  BY RankInOrder
<1>4. \A j, k \in I : Rank(I, j) = Rank(I, k) => j = k
  <2> SUFFICES ASSUME NEW j \in I, NEW k \in I, Rank(I, j) = Rank(I, k), j # k
               PROVE  FALSE
    OBVIOUS
  <2>1. j < k \/ k < j
    BY <1>1
  <2> QED
    BY <1>2, <1>3, <2>1
<1>5. f \in [I -> 1..Cardinality(I)] /\ \A k \in I : f[k] = Rank(I, k) + 1
  BY <1>2
<1>6. \A j, k \in I : f[j] = f[k] => j = k
  <2> HIDE DEF f
  <2>1. \A j, k \in I : f[j] = f[k] => Rank(I, j) = Rank(I, k)
    BY <1>2, <1>5
  <2> QED
    BY <1>4, <2>1
<1> HIDE DEF f
<1>7. f \in Injection(I, 1..Cardinality(I))
  BY <1>5, <1>6 DEF Injection, IsInjective
<1>8. IsFiniteSet(1..Cardinality(I)) /\ Cardinality(1..Cardinality(I)) = Cardinality(I)
  BY <1>1, FS_Interval
<1>9. f \in Surjection(I, 1..Cardinality(I))
  BY <1>1, <1>7, <1>8, FS_Injection
<1>10. \A i \in 1..Cardinality(I) : \E k \in I : f[k] = i
  BY <1>9 DEF Surjection
<1>11. \A i \in 1..Cardinality(I) : \E k \in I : Rank(I, k) = i - 1
  <2> TAKE i \in 1..Cardinality(I)
  <2>1. PICK k \in I : f[k] = i
    BY <1>10
  <2>2. Rank(I, k) = i - 1
    BY <1>2, <1>5, <2>1
  <2> QED
    BY <2>2
<1>12. \A i \in 1..Cardinality(I) : Position(I, i) \in I /\ Rank(I, Position(I, i)) = i - 1
  BY <1>11 DEF Position
<1>13. ASSUME NEW k \in I PROVE Position(I, Rank(I, k) + 1) = k
  <2>1. Rank(I, k) + 1 \in 1..Cardinality(I) /\ (Rank(I, k) + 1) - 1 = Rank(I, k)
    BY <1>2
  <2> QED
    BY <1>4, <1>12, <2>1
<1>14. ASSUME NEW i \in 1..Cardinality(I), NEW j \in 1..Cardinality(I), i < j
       PROVE  Position(I, i) < Position(I, j)
  <2> DEFINE p == Position(I, i)
             q == Position(I, j)
  <2>1. p \in I /\ q \in I /\ Rank(I, p) = i - 1 /\ Rank(I, q) = j - 1
    BY <1>12
  <2>2. i - 1 < j - 1 /\ i - 1 \in Int /\ j - 1 \in Int
    BY <1>14
  <2>3. p \in Nat /\ q \in Nat
    BY <1>1, <2>1
  <2> HIDE DEF p, q
  <2>4. p # q
    BY <2>1, <2>2
  <2>5. ~(q < p)
    BY <1>3, <2>1, <2>2
  <2>6. p < q
    BY <2>3, <2>4, <2>5
  <2> QED
    BY <2>6 DEF p, q
<1> QED
  BY <1>12, <1>13, <1>14

(* A selection is a sequence of the same elements, no longer. *)
LEMMA SelectionType ==
  ASSUME NEW S, NEW s \in Seq(S), NEW I \in SUBSET (1..Len(s))
  PROVE  /\ Selected(s, I) \in Seq(S)
         /\ Len(Selected(s, I)) = Cardinality(I) /\ Cardinality(I) \in Nat
         /\ Cardinality(I) <= Len(s)
         /\ \A i \in 1..Cardinality(I) : 
              Position(I, i) \in I /\ Selected(s, I)[i] = s[Position(I, i)]
<1>0. Len(s) \in Nat /\ \A k \in 1..Len(s) : s[k] \in S
  OBVIOUS
<1>1. Cardinality(I) \in Nat /\ Cardinality(I) <= Len(s)
  BY <1>0, FinitePositions
<1>2. \A i \in 1..Cardinality(I) : Position(I, i) \in I 
  BY <1>0, PositionsInOrder
<1>3. \A i \in 1..Cardinality(I) : Position(I, i) \in 1..Len(s) /\ s[Position(I, i)] \in S
  BY <1>0, <1>2
<1> QED
  BY <1>1, <1>2, <1>3 DEF Selected

(* If a selection has the last m elements of a sequence it ends with them. *)
LEMMA SelectionOfEnd ==
  ASSUME NEW S, NEW s \in Seq(S), NEW I \in SUBSET (1..Len(s)), NEW m \in 0..Len(s),
         \A k \in 1..Len(s) : k > Len(s) - m => k \in I
  PROVE  /\ m <= Cardinality(I)
         /\ \A i \in 1..m : Selected(s, I)[Cardinality(I) - m + i] = s[Len(s) - m + i]
<1> DEFINE end == Len(s)
           size == Cardinality(I)
<1>1. end \in Nat /\ size \in Nat /\ IsFiniteSet(I) /\ \A k \in I : k \in Nat
  BY FinitePositions
<1>2. ASSUME NEW k \in 1..end, k > end - m PROVE Rank(I, k) + (end - k + 1) = size
  <2> DEFINE Below == {j \in I : j < k}
             Rest == k..end
  <2>1. Below \subseteq I /\ IsFiniteSet(Below) /\ Rank(I, k) = Cardinality(Below)
    BY <1>1, FS_Subset DEF Rank
  <2>2. IsFiniteSet(Rest) /\ Cardinality(Rest) = end - k + 1
    <3>1. k <= end
      OBVIOUS
    <3> QED
      BY <1>1, <3>1, FS_Interval
  <2>3. Rest \subseteq I
    <3>1. ASSUME NEW j \in Rest PROVE j \in I
      <4>1. j \in 1..end /\ j > end - m
        BY <1>1, <1>2
      <4> QED
        BY <4>1
    <3> QED
      BY <3>1
  <2>4. I = Below \cup Rest
    <3>1. ASSUME NEW j \in I PROVE j \in Below \/ j \in Rest
      <4>1. j \in 1..end /\ j \in Nat
        OBVIOUS
      <4> QED
        BY <4>1
    <3> QED
      BY <2>1, <2>3, <3>1
  <2>5. Below \cap Rest = {}
    BY <1>1
  <2>6. Cardinality(Below) \in Nat /\ Cardinality(Rest) \in Nat
    BY <2>1, <2>2, FS_CardinalityType
  <2> HIDE DEF Below, Rest
  <2>7. Cardinality(Below \cup Rest) = Cardinality(Below) + Cardinality(Rest) - Cardinality(Below \cap Rest)
    BY <2>1, <2>2, FS_Union
  <2>8. Cardinality({}) = 0
    BY FS_EmptySet
  <2>9. Cardinality(I) = Cardinality(Below) + Cardinality(Rest) - 0
    BY <2>4, <2>5, <2>7, <2>8
  <2> DEFINE a == Cardinality(Below)
             b == Cardinality(Rest)
  <2>10. a \in Nat /\ b = end - k + 1 /\ size = a + b - 0 /\ Rank(I, k) = a
    BY <2>1, <2>2, <2>6, <2>9
  <2> HIDE DEF a, b, size
  <2> QED
    BY <1>1, <2>10
<1>3. m <= size
  <2>1. CASE m = 0
    BY <1>1, <2>1
  <2>2. CASE m # 0
    <3> DEFINE k == end - m + 1
    <3>1. k \in 1..end /\ k > end - m
      BY <1>1, <2>2
    <3>2. Rank(I, k) + (end - k + 1) = size /\ k \in I
      BY <1>2, <3>1
    <3>3. Rank(I, k) \in Nat
      BY <1>1, <3>2, RankInBounds
    <3> QED
      BY <1>1, <3>1, <3>2, <3>3
  <2> QED
    BY <2>1, <2>2
<1>4. ASSUME NEW i \in 1..m PROVE Selected(s, I)[size - m + i] = s[end - m + i]
  <2> DEFINE k == end - m + i
  <2>1. k \in 1..end /\ k > end - m
    BY <1>1
  <2>2. Rank(I, k) + (end - k + 1) = size /\ k \in I
    BY <1>2, <2>1
  <2>3. Rank(I, k) \in Nat
    BY <1>1, <2>2, RankInBounds
  <2>4. Rank(I, k) + 1 = size - m + i
    <3>1. end - k + 1 = m - i + 1
      BY <1>1
    <3> HIDE DEF k
    <3> QED
      BY <1>1, <2>2, <2>3, <3>1
  <2>5. Position(I, size - m + i) = k
    BY <1>1, <2>2, <2>4, PositionsInOrder
  <2>6. size - m + i \in 1..size
    BY <1>1, <1>3
  <2> HIDE DEF k, size
  <2> QED
    BY <2>5, <2>6 DEF Selected, size, k
<1> QED
  BY <1>3, <1>4
-----------------------------------------------------------------------------
(* session_get_history. *)
LEMMA WindowType ==
  ASSUME Typed, NEW c \in Chats
  PROVE  Window(c) \in Seq(Kinds) /\ Len(Window(c)) <= MaxHistory
<1> DEFINE f == file[c]
           I == {i \in 1..Len(f) : f[i].kind \in Kinds}
           w == LastN(Parsable(f), MaxHistory)
<1>1. f \in Seq(Line) /\ MaxHistory \in Nat
  BY TurnAssumption DEF Typed
<1>2. Parsable(f) = Selected(f, I) /\ I \in SUBSET (1..Len(f))
  BY DEF Parsable
<1> HIDE DEF f
<1>3. /\ Parsable(f) \in Seq(Line)
      /\ \A i \in 1..Len(Parsable(f)) : Parsable(f)[i].kind \in Kinds
  <2>1. /\ Selected(f, I) \in Seq(Line) /\ Len(Selected(f, I)) = Cardinality(I)
        /\ \A i \in 1..Cardinality(I) : Position(I, i) \in I /\ Selected(f, I)[i] = f[Position(I, i)]
    BY <1>1, <1>2, SelectionType
  <2>2. \A i \in I : f[i].kind \in Kinds
    OBVIOUS
  <2> HIDE DEF I
  <2> QED
    BY <1>2, <2>1, <2>2
<1> HIDE DEF I
<1>4. /\ w \in Seq(Line) /\ EndsWith(Parsable(f), w)
      /\ Len(w) = IF Len(Parsable(f)) <= MaxHistory THEN Len(Parsable(f)) ELSE MaxHistory
  BY <1>1, <1>3, LastOnes
<1>5. Window(c) = [i \in 1..Len(w) |-> w[i].kind]
  BY DEF Window, f
<1> HIDE DEF w
<1>6. Len(w) \in Nat /\ Len(w) <= MaxHistory
  BY <1>1, <1>3, <1>4
<1>7. ASSUME NEW i \in 1..Len(w) PROVE w[i].kind \in Kinds
  <2> DEFINE p == Parsable(f)
  <2>1. Len(p) \in Nat /\ Len(w) <= Len(p) /\ w[i] = p[Len(p) - Len(w) + i]
    BY <1>3, <1>4 DEF EndsWith
  <2>2. Len(p) - Len(w) + i \in 1..Len(p)
    BY <1>6, <2>1
  <2> QED
    BY <1>3, <2>1, <2>2
<1> QED
  BY <1>5, <1>6, <1>7

LEMMA HistoryStart ==
  ASSUME Typed, NEW c \in Chats
  PROVE  \E start \in 1..Len(Window(c))+1 :
           /\ History(c) = SubSeq(Window(c), start, Len(Window(c)))
           /\ start <= Len(Window(c)) => Window(c)[start] # "result"
<1> DEFINE kinds == Window(c)
           safe == {i \in 1..Len(kinds) :
                      /\ kinds[i] # "result"
                      /\ kinds[i] = "use" => i < Len(kinds) /\ kinds[i + 1] = "result"}
           T == safe \cup {Len(kinds) + 1}
<1>1. kinds \in Seq(Kinds) /\ Len(kinds) \in Nat
  BY WindowType
<1>2. History(c) = SubSeq(kinds, Min(T), Len(kinds))
  BY DEF History
<1> HIDE DEF kinds
<1>3. T \subseteq Nat /\ T # {}
  BY <1>1
<1>4. Min(T) \in T
  BY <1>3, LeastOfNumbers
<1>5. Min(T) \in 1..Len(kinds)+1
  BY <1>1, <1>4
<1>6. Min(T) <= Len(kinds) => kinds[Min(T)] # "result"
  BY <1>1, <1>4
<1> HIDE DEF T
<1> QED
  BY <1>2, <1>5, <1>6 DEF kinds

LEMMA HistoryType ==
  ASSUME Typed, NEW c \in Chats
  PROVE  History(c) \in Seq(Kinds) /\ Len(History(c)) \in 0..MaxHistory
<1>1. Window(c) \in Seq(Kinds) /\ Len(Window(c)) \in Nat /\ Len(Window(c)) <= MaxHistory
  BY WindowType
<1>2. PICK m \in 1..Len(Window(c))+1 : History(c) = SubSeq(Window(c), m, Len(Window(c)))
  BY HistoryStart
<1>3. m \in Nat \ {0} /\ m <= Len(Window(c)) + 1
  BY <1>1
<1>4. History(c) \in Seq(Kinds) /\ Len(History(c)) = Len(Window(c)) + 1 - m
  BY <1>1, <1>2, <1>3, RestOf
<1> QED
  BY <1>1, <1>3, <1>4, TurnAssumption

(* Where the lines of the window have nothing missing between them the history is
   well paired: the window is the end of the file then, as all of it parses. *)
LEMMA WindowIsEnd ==
  ASSUME Typed, NEW c \in Chats, WholeLines(file[c], MaxHistory)
  PROVE  LET f == file[c]
             w == LastN(f, MaxHistory)
         IN  Window(c) = [i \in 1..Len(w) |-> w[i].kind]
<1> DEFINE f == file[c]
           w == LastN(f, MaxHistory)
           I == {i \in 1..Len(f) : f[i].kind \in Kinds}
           p == Parsable(f)
           v == LastN(p, MaxHistory)
           m == Len(w)
<1>1. f \in Seq(Line) /\ MaxHistory \in Nat /\ Len(f) \in Nat
  BY TurnAssumption DEF Typed
<1>2. p = Selected(f, I) /\ I \in SUBSET (1..Len(f))
  BY DEF Parsable
<1>3. /\ p \in Seq(Line) /\ Len(p) = Cardinality(I)
      /\ Cardinality(I) \in Nat /\ Cardinality(I) <= Len(f)
  BY <1>1, <1>2, SelectionType
<1>4. /\ w \in Seq(Line) /\ m = (IF Len(f) <= MaxHistory THEN Len(f) ELSE MaxHistory)
      /\ \A i \in 1..m : f[Len(f) - m + i] = w[i]
  BY <1>1, LastOnes DEF EndsWith
<1>5. m \in 0..Len(f) /\ m <= MaxHistory
  BY <1>1, <1>4
<1> HIDE DEF m, w
<1>6. \A k \in 1..Len(f) : k > Len(f) - m => k \in I
  <2> SUFFICES ASSUME NEW k \in 1..Len(f), k > Len(f) - m PROVE f[k].kind \in Kinds
    OBVIOUS
  <2>1. k > Len(f) - MaxHistory
    <3> HIDE DEF f
    <3> QED
      BY <1>1, <1>5
  <2> QED
    BY <2>1 DEF WholeLines
<1>7. m <= Cardinality(I) /\ \A i \in 1..m : Selected(f, I)[Cardinality(I) - m + i] = f[Len(f) - m + i]
  <2> HIDE DEF I, f
  <2> QED
    BY <1>1, <1>2, <1>5, <1>6, SelectionOfEnd
<1> HIDE DEF I, f, p
<1>8. /\ v \in Seq(Line) /\ Len(v) = (IF Len(p) <= MaxHistory THEN Len(p) ELSE MaxHistory)
      /\ \A i \in 1..Len(v) : p[Len(p) - Len(v) + i] = v[i]
  <2>1. p \in Seq(Line) /\ MaxHistory \in Nat
    BY <1>1, <1>3
  <2>2. /\ v \in Seq(Line) /\ EndsWith(p, v)
        /\ Len(v) = IF Len(p) <= MaxHistory THEN Len(p) ELSE MaxHistory
    BY <2>1, LastOnes
  <2> QED
    BY <2>2 DEF EndsWith
<1> HIDE DEF v
<1>9. Len(v) = m
  BY <1>1, <1>3, <1>4, <1>7, <1>8
<1>10. \A i \in 1..m : v[i] = w[i]
  BY <1>2, <1>3, <1>4, <1>7, <1>8, <1>9
<1>11. v = w
  <2>1. Len(w) = Len(v) /\ \A i \in 1..Len(v) : v[i] = w[i]
    BY <1>9, <1>10 DEF m
  <2> QED
    BY <1>4, <1>8, <2>1
<1> QED
  BY <1>11 DEF Window, v, w, p, f

LEMMA HistoryPaired ==
  ASSUME Typed, NEW c \in Chats,
         Fitting(file[c], MaxHistory, <<>>)
  PROVE  /\ LinkedKinds(History(c))
         /\ History(c) # <<>> => History(c)[1] # "result" /\ History(c)[Len(History(c))] # "use"
<1> DEFINE f == file[c]
           w == LastN(f, MaxHistory)
           d == Len(f) - Len(w)
           kinds == Window(c)
           h == History(c)
<1>1. f \in Seq(Line) /\ MaxHistory \in Nat \ {0} /\ Len(f) \in Nat
  BY TurnAssumption DEF Typed
<1>2. MaxHistory > 0
  BY <1>1
<1>3. kinds = [i \in 1..Len(w) |-> w[i].kind]
  BY WindowIsEnd DEF Fitting
<1>4. (\A i \in 1..Len(f)-1 : i > Len(f) - MaxHistory =>
                               (f[i].kind = "use" <=> f[i + 1].kind = "result"))
      /\ (f # <<>> => f[Len(f)].kind # "use")
  BY <1>2 DEF Fitting, LinkedLines, Awaits
<1> HIDE DEF f
<1>5. w \in Seq(Line) /\ Len(w) \in Nat /\ Len(w) <= Len(f) /\ Len(w) <= MaxHistory
      /\ \A i \in 1..Len(w) : w[i] = f[d + i]
  BY <1>1, LastOnes DEF EndsWith
<1> HIDE DEF w
<1>6. d \in Nat /\ d + Len(w) = Len(f)
  BY <1>1, <1>5
<1>7. Len(kinds) = Len(w) /\ \A i \in 1..Len(w) : kinds[i] = f[d + i].kind
  BY <1>3, <1>5
<1>8. kinds \in Seq(Kinds)
  BY WindowType
<1> HIDE DEF d
<1>9. PICK m \in 1..Len(kinds)+1 : /\ h = SubSeq(kinds, m, Len(kinds))
                                   /\ m <= Len(kinds) => kinds[m] # "result"
  BY HistoryStart
<1> HIDE DEF kinds, h
<1>10. m \in Nat \ {0} /\ m <= Len(kinds) + 1
  BY <1>5, <1>7
<1>11. /\ h \in Seq(Kinds) /\ Len(h) = Len(kinds) + 1 - m
       /\ \A i \in 1..Len(kinds) + 1 - m : h[i] = kinds[m - 1 + i]
  BY <1>8, <1>9, <1>10, RestOf
<1>12. Len(h) \in Nat /\ Len(h) = Len(w) + 1 - m
  BY <1>7, <1>11
<1>13. ASSUME NEW i \in 1..Len(h)
       PROVE  d + (m - 1 + i) \in 1..Len(f) /\ h[i] = f[d + (m - 1 + i)].kind
  <2>1. m - 1 + i \in 1..Len(w)
    BY <1>5, <1>10, <1>12
  <2>2. d + (m - 1 + i) \in 1..Len(f)
    BY <1>5, <1>6, <2>1
  <2> QED
    BY <1>7, <1>11, <1>12, <2>1, <2>2
<1>14. LinkedKinds(h)
  <2> SUFFICES ASSUME NEW i \in 1..Len(h)-1
               PROVE  h[i] = "use" <=> h[i + 1] = "result"
    BY DEF LinkedKinds
  <2>1. i \in 1..Len(h) /\ i + 1 \in 1..Len(h)
    BY <1>12
  <2> DEFINE k == d + (m - 1 + i)
  <2>2. d + (m - 1 + (i + 1)) = k + 1
    BY <1>6, <1>10, <2>1
  <2>3. k \in 1..Len(f) /\ k + 1 \in 1..Len(f) /\ h[i] = f[k].kind /\ h[i + 1] = f[k + 1].kind
    BY <1>13, <2>1, <2>2
  <2>4. k \in 1..Len(f)-1 /\ k > Len(f) - MaxHistory
    BY <1>1, <1>5, <1>6, <1>10, <2>1, <2>3 DEF k
  <2> HIDE DEF k
  <2> QED
    BY <1>4, <2>3, <2>4
<1>15. ASSUME h # <<>> PROVE h[1] # "result" /\ h[Len(h)] # "use"
  <2>1. Len(h) >= 1
    BY <1>11, <1>12, <1>15
  <2>2. h[1] = kinds[m] /\ m <= Len(kinds)
    BY <1>7, <1>10, <1>11, <1>12, <2>1
  <2>3. h[Len(h)] = f[Len(f)].kind /\ f # <<>>
    <3>1. Len(h) \in 1..Len(h)
      BY <1>12, <2>1
    <3>2. m - 1 + Len(h) = Len(w)
      BY <1>5, <1>10, <1>12
    <3>3. d + (m - 1 + Len(h)) = Len(f)
      BY <1>6, <3>2
    <3>4. Len(f) \in 1..Len(f) /\ h[Len(h)] = f[Len(f)].kind
      BY <1>13, <3>1, <3>3
    <3> QED
      BY <1>1, <3>4
  <2> QED
    BY <1>4, <1>9, <2>2, <2>3
<1> QED
  BY <1>14, <1>15 DEF h
-----------------------------------------------------------------------------
(* What is added to a turn and to the context. *)
LEMMA LinkedMore ==
  ASSUME NEW s \in Seq(Kinds), NEW e \in Kinds, LinkedKinds(s),
         s # <<>> => (s[Len(s)] = "use" <=> e = "result")
  PROVE  LinkedKinds(Append(s, e))
<1> DEFINE t == Append(s, e)
<1>1. /\ Len(s) \in Nat /\ Len(t) = Len(s) + 1 /\ t[Len(s) + 1] = e
      /\ \A i \in 1..Len(s) : t[i] = s[i]
  OBVIOUS
<1> HIDE DEF t
<1>2. ASSUME NEW i \in 1..Len(t)-1
      PROVE  t[i] = "use" <=> t[i + 1] = "result"
  <2>1. CASE i = Len(s)
    <3>1. s # <<>> /\ i \in 1..Len(s)
      BY <1>1, <2>1
    <3> QED
      BY <1>1, <2>1, <3>1
  <2>2. CASE i # Len(s)
    <3>1. i \in 1..Len(s)-1 /\ i \in 1..Len(s) /\ i + 1 \in 1..Len(s)
      BY <1>1, <2>2
    <3> QED
      BY <1>1, <3>1 DEF LinkedKinds
  <2> QED
    BY <2>1, <2>2
<1> QED
  BY <1>2 DEF LinkedKinds, t

LEMMA LongerEnd ==
  ASSUME NEW S, NEW s \in Seq(S), NEW t \in Seq(S), NEW e \in S, EndsWith(t, s)
  PROVE  EndsWith(Append(t, e), Append(s, e))
<1> DEFINE a == Append(s, e)
           b == Append(t, e)
<1>1. /\ Len(s) \in Nat /\ Len(a) = Len(s) + 1 /\ a[Len(s) + 1] = e
      /\ \A i \in 1..Len(s) : a[i] = s[i]
  OBVIOUS
<1>2. /\ Len(t) \in Nat /\ Len(b) = Len(t) + 1 /\ b[Len(t) + 1] = e
      /\ \A i \in 1..Len(t) : b[i] = t[i]
  OBVIOUS
<1>3. Len(s) <= Len(t) /\ \A i \in 1..Len(s) : t[Len(t) - Len(s) + i] = s[i]
  BY DEF EndsWith
<1> HIDE DEF a, b
<1>4. Len(b) - Len(a) = Len(t) - Len(s)
  BY <1>1, <1>2
<1>5. ASSUME NEW i \in 1..Len(a) PROVE b[Len(t) - Len(s) + i] = a[i]
  <2>1. CASE i = Len(s) + 1
    <3>1. Len(t) - Len(s) + i = Len(t) + 1
      BY <1>1, <1>2, <2>1
    <3> QED
      BY <1>1, <1>2, <2>1, <3>1
  <2>2. CASE i # Len(s) + 1
    <3>1. i \in 1..Len(s) /\ Len(t) - Len(s) + i \in 1..Len(t)
      BY <1>1, <1>2, <1>3, <2>2
    <3> QED
      BY <1>1, <1>2, <1>3, <3>1
  <2> QED
    BY <2>1, <2>2
<1>6. Len(a) <= Len(b)
  BY <1>1, <1>2, <1>3
<1>7. EndsWith(b, a)
  BY <1>4, <1>5, <1>6 DEF EndsWith
<1> QED
  BY <1>7 DEF a, b

LEMMA SaidFirst == Said(<<"user">>) /\ <<"user">> \in Seq(Kinds)
<1>1. LinkedKinds(<<"user">>)
  BY DEF LinkedKinds
<1> QED
  BY <1>1 DEF Said, Kinds

LEMMA SaidMore ==
  ASSUME NEW s \in Seq(Kinds), Said(s)
  PROVE  /\ Said(Append(s, "answer"))
         /\ Said(Append(Append(s, "use"), "result"))
<1>1. Len(s) \in Nat \ {0} /\ s # <<>> /\ s[1] = "user" /\ s[Len(s)] # "use" /\ LinkedKinds(s)
  BY DEF Said
<1>2. ASSUME NEW k \in Kinds, k # "result"
      PROVE  /\ Append(s, k) \in Seq(Kinds) /\ Append(s, k) # <<>> /\ LinkedKinds(Append(s, k))
             /\ Append(s, k)[1] = "user" /\ Append(s, k)[Len(Append(s, k))] = k
             /\ Len(Append(s, k)) \in Nat \ {0}
  <2>1. LinkedKinds(Append(s, k))
    BY <1>1, <1>2, LinkedMore
  <2>2. /\ Append(s, k) \in Seq(Kinds) /\ Len(Append(s, k)) = Len(s) + 1
        /\ Append(s, k)[1] = s[1] /\ Append(s, k)[Len(s) + 1] = k
    BY <1>1
  <2> QED
    BY <1>1, <2>1, <2>2
<1>3. "answer" \in Kinds /\ "use" \in Kinds /\ "result" \in Kinds
  BY DEF Kinds
<1>4. Said(Append(s, "answer"))
  BY <1>2, <1>3 DEF Said
<1> DEFINE t == Append(s, "use")
<1>5. t \in Seq(Kinds) /\ t # <<>> /\ LinkedKinds(t) /\ t[1] = "user" /\ t[Len(t)] = "use"
      /\ Len(t) \in Nat \ {0}
  BY <1>2, <1>3
<1> HIDE DEF t
<1>6. LinkedKinds(Append(t, "result"))
  BY <1>3, <1>5, LinkedMore
<1>7. Append(t, "result")[1] = t[1] /\ Append(t, "result")[Len(Append(t, "result"))] = "result"
      /\ Append(t, "result") # <<>>
  BY <1>3, <1>5
<1>8. Said(Append(t, "result"))
  BY <1>5, <1>6, <1>7 DEF Said
<1> QED
  BY <1>4, <1>8 DEF t

(* What the context holds from history_msg_count on is what was said. *)
LEMMA NewIsSaid ==
  ASSUME NEW s \in Seq(Kinds), NEW t \in Seq(Kinds), NEW h \in Nat,
         EndsWith(s, t), Len(s) = h + Len(t)
  PROVE  SubSeq(s, h + 1, Len(s)) = t
<1>1. Len(s) \in Nat /\ Len(t) \in Nat /\ h + 1 \in Nat \ {0} /\ h + 1 <= Len(s) + 1
      /\ Len(s) + 1 - (h + 1) = Len(t)
  OBVIOUS
<1> DEFINE r == SubSeq(s, h + 1, Len(s))
<1>2. r \in Seq(Kinds) /\ Len(r) = Len(t) /\ \A i \in 1..Len(t) : r[i] = s[(h + 1) - 1 + i]
  BY <1>1, RestOf
<1>3. \A i \in 1..Len(t) : s[Len(s) - Len(t) + i] = t[i]
  BY DEF EndsWith
<1>4. \A i \in 1..Len(t) : (h + 1) - 1 + i = Len(s) - Len(t) + i
  BY <1>1
<1> HIDE DEF r
<1>5. r = t
  BY <1>2, <1>3, <1>4
<1> QED
  BY <1>5 DEF r

LEMMA PairedMeaning ==
  ASSUME NEW s \in Seq(Kinds), LinkedKinds(s),
         s # <<>> => s[1] # "result" /\ s[Len(s)] # "use"
  PROVE  Paired(s)
<1>1. Len(s) \in Nat
  OBVIOUS
<1>2. ASSUME NEW i \in 1..Len(s), s[i] = "use"
      PROVE  i < Len(s) /\ s[i + 1] = "result"
  <2>1. i # Len(s) /\ s # <<>>
    BY <1>1, <1>2
  <2>2. i \in 1..Len(s)-1
    BY <1>1, <2>1
  <2> QED
    BY <1>1, <1>2, <2>2 DEF LinkedKinds
<1>3. ASSUME NEW i \in 1..Len(s), s[i] = "result"
      PROVE  i > 1 /\ s[i - 1] = "use"
  <2>1. i # 1 /\ s # <<>>
    BY <1>1, <1>3
  <2>2. i - 1 \in 1..Len(s)-1 /\ (i - 1) + 1 = i /\ i > 1
    BY <1>1, <2>1
  <2> QED
    BY <1>1, <1>3, <2>2 DEF LinkedKinds
<1> QED
  BY <1>2, <1>3 DEF Paired

LEMMA PairedMore ==
  ASSUME NEW s \in Seq(Kinds), Paired(s)
  PROVE  /\ Paired(Append(s, "user"))
         /\ Paired(Append(Append(s, "use"), "result"))
<1>1. Len(s) \in Nat
  OBVIOUS
<1>2. LinkedKinds(s) /\ (s # <<>> => s[1] # "result" /\ s[Len(s)] # "use")
  <2>1. ASSUME NEW i \in 1..Len(s)-1 PROVE s[i] = "use" <=> s[i + 1] = "result"
    <3>1. i \in 1..Len(s) /\ i + 1 \in 1..Len(s) /\ (i + 1) - 1 = i
      BY <1>1
    <3> QED
      BY <3>1 DEF Paired
  <2>2. ASSUME s # <<>> PROVE s[1] # "result" /\ s[Len(s)] # "use"
    <3>1. 1 \in 1..Len(s) /\ Len(s) \in 1..Len(s) /\ ~(1 > 1) /\ ~(Len(s) < Len(s))
      BY <1>1, <2>2
    <3> QED
      BY <3>1 DEF Paired
  <2> QED
    BY <2>1, <2>2 DEF LinkedKinds
<1>3. "user" \in Kinds /\ "use" \in Kinds /\ "result" \in Kinds
  BY DEF Kinds
<1>4. ASSUME NEW k \in {"user", "use"}
      PROVE  /\ Append(s, k) \in Seq(Kinds) /\ Append(s, k) # <<>> /\ LinkedKinds(Append(s, k))
             /\ Append(s, k)[1] # "result" /\ Append(s, k)[Len(Append(s, k))] = k
  <2>1. k \in Kinds /\ k # "result" /\ LinkedKinds(Append(s, k))
    BY <1>2, <1>3, LinkedMore
  <2>2. /\ Append(s, k) \in Seq(Kinds) /\ Len(Append(s, k)) = Len(s) + 1
        /\ Append(s, k)[Len(s) + 1] = k /\ Append(s, k) # <<>>
    BY <1>1, <2>1
  <2>3. Append(s, k)[1] # "result"
    <3>1. CASE s = <<>>
      BY <2>1, <3>1
    <3>2. CASE s # <<>>
      <4>1. 1 \in 1..Len(s)
        BY <1>1, <3>2
      <4>2. Append(s, k)[1] = s[1]
        BY <2>1, <4>1
      <4> QED
        BY <1>2, <3>2, <4>2
    <3> QED
      BY <3>1, <3>2
  <2> QED
    BY <2>1, <2>2, <2>3
<1>5. Paired(Append(s, "user"))
  BY <1>4, PairedMeaning
<1> DEFINE t == Append(s, "use")
<1>6. t \in Seq(Kinds) /\ t # <<>> /\ LinkedKinds(t) /\ t[1] # "result" /\ t[Len(t)] = "use"
  BY <1>4
<1> HIDE DEF t
<1>7. Append(t, "result") \in Seq(Kinds) /\ LinkedKinds(Append(t, "result"))
  BY <1>3, <1>6, LinkedMore
<1>8. Append(t, "result")[1] = t[1] /\ Append(t, "result")[Len(Append(t, "result"))] = "result"
  BY <1>3, <1>6
<1>9. Paired(Append(t, "result"))
  BY <1>6, <1>7, <1>8, PairedMeaning
<1> QED
  BY <1>5, <1>9 DEF t
-----------------------------------------------------------------------------
(* The smaller of two numbers; lines of which nothing is known, or none at all. *)
LEMMA SmallerOf ==
  ASSUME NEW a \in Nat, NEW b \in Nat
  PROVE  Min({a, b}) \in {a, b} /\ Min({a, b}) \in Nat /\ Min({a, b}) <= a /\ Min({a, b}) <= b
BY LeastOfNumbers

LEMMA FittingNone ==
  ASSUME NEW s \in Seq(Line), NEW ks
  PROVE  Fitting(s, 0, ks)
BY DEF Fitting, WholeLines, LinkedLines, Awaits

LEMMA FittingEmpty ==
  ASSUME NEW n \in Nat, NEW ks
  PROVE  Fitting(<<>>, n, ks)
BY DEF Fitting, WholeLines, LinkedLines, Awaits

(* Steps that leave the files alone, outside a compaction. *)
LEMMA FilesAlone ==
  ASSUME TurnInv, UNCHANGED <<file, appendCount, raced, clears, crashes>>, chat' \in Chats,
         fails' \in {fails, fails + 1},
         pc \notin {"compact", "rename"}, pc' \notin {"compact", "rename"}
  PROVE  Sized' /\ Aged' /\ Copied'
<1>1. chat \in Chats /\ Typed
  BY DEF TurnInv, Typed
<1>2. Sized'
  <2>1. ASSUME Chats = {chat'}
        PROVE  Len(file'[chat']) <= MaxMsgs + Spare' + appendCount'
    <3>1. chat' = chat
      BY <1>1, <2>1
    <3>2. Len(file[chat]) <= MaxMsgs + Spare + appendCount
      BY <2>1, <3>1 DEF TurnInv, Sized, Counted
    <3>3. Spare \in Nat /\ (Spare' = Spare \/ Spare' = Spare + CompactEvery)
      BY <1>1, SpareFacts
    <3>4. Len(file[chat]) \in Nat /\ MaxMsgs \in Nat /\ appendCount \in Nat /\ CompactEvery \in Nat
      BY <1>1, TurnAssumption DEF Typed
    <3> DEFINE n == Len(file[chat])
    <3> HIDE DEF n
    <3>5. n <= MaxMsgs + Spare' + appendCount
      BY <3>2, <3>3, <3>4 DEF n
    <3> QED
      BY <3>1, <3>5 DEF n
  <2> QED
    BY <2>1 DEF Sized, Counted
<1>3. Aged' /\ Copied'
  BY DEF TurnInv, Aged, Copied
<1> QED
  BY <1>2, <1>3

LEMMA NothingSaved ==
  ASSUME Typed', saved' = <<>>, pc' # "rename"
  PROVE  Newest'
<1>1. file'[chat'] \in Seq(Line) /\ Len(file'[chat']) \in Nat /\ Len(saved') = 0
  BY DEF Typed
<1> QED
  BY <1>1 DEF Newest, EndsAs

LEMMA SavedStays ==
  ASSUME TurnInv, UNCHANGED <<file, tmp, chat, saved, removed>>, pc' = "rename" => pc = "rename"
  PROVE  Newest'
BY DEF TurnInv, Newest

(* What is linked while nothing is being saved. *)
LEMMA LinkedFiles ==
  ASSUME TurnInv, ~Saving, NEW c \in Chats
  PROVE  Fitting(file[c], sound[c], <<>>)
BY DEF TurnInv, Linked

LEMMA LinkedAgain ==
  ASSUME TurnInv, ~Saving, ~Saving', UNCHANGED <<file, sound>>, toSave' = <<>>,
         pc' \in {"trim", "llm"} /\ sound[chat'] = MaxHistory => Paired(messages')
  PROVE  Linked'
<1>1. ASSUME NEW c \in Chats PROVE Fitting(file'[c], sound'[c], <<>>)
  BY LinkedFiles
<1>2. LinkedKinds(<<>>)
  BY DEF LinkedKinds
<1>3. pc' # "rename"
  BY DEF Saving
<1> QED
  BY <1>1, <1>2, <1>3 DEF Linked

LEMMA BeginInv ==
  ASSUME TurnInv, NEW c \in Chats, Begin(c)
  PROVE  TurnInv'
<1>0. PICK h \in {History(c), <<>>} :
        /\ fails' = fails \/ (fails < MaxFails /\ fails' = fails + 1)
        /\ messages' = Append(h, "user") /\ histCount' = Len(h)
  BY DEF Begin, Fails
<1>2. Typed
  BY DEF TurnInv
<1>1. h \in Seq(Kinds) /\ Len(h) \in 0..MaxHistory
  <2>1. CASE h = <<>>
    BY <2>1, TurnAssumption
  <2>2. CASE h = History(c)
    BY <1>2, <2>2, HistoryType
  <2> QED
    BY <1>0, <2>1, <2>2
<1>3. /\ pc = "idle" /\ pc' = "trim" /\ chat' = c /\ turn' = <<"user">>
      /\ turns < MaxTurns /\ turns' = turns + 1
      /\ UNCHANGED <<file, appendCount, tmp, iter, toSave, synced, sound, saved, trimmed, failed,
                     removed, raced, clears, crashes>>
  BY DEF Begin, files, marks
<1>4. "user" \in Kinds /\ <<"user">> \in Seq(Kinds) /\ Said(<<"user">>)
  BY SaidFirst DEF Kinds
<1>5. Typed'
  <2>1. messages' \in Seq(Kinds) /\ turn' \in Seq(Kinds) /\ histCount' \in 0..MaxHistory
    BY <1>0, <1>1, <1>3, <1>4
  <2>2. turns' \in 0..MaxTurns /\ fails' \in 0..MaxFails
    BY <1>0, <1>2, <1>3, TurnAssumption DEF Typed
  <2> QED
    BY <1>2, <1>3, <2>1, <2>2 DEF Typed
<1>6. Sized' /\ Aged' /\ Copied'
  BY <1>0, <1>3, FilesAlone
<1>7. saved = <<>> /\ toSave = <<>> /\ ~trimmed
  BY <1>3 DEF TurnInv, Talking, Saving
<1>8. Talking'
  <2>1. EndsWith(Append(h, "user"), <<"user">>)
    BY <1>1, <1>4 DEF EndsWith
  <2> QED
    BY <1>0, <1>3, <1>4, <1>7, <2>1 DEF Talking, Saving
<1>9. Unmoved'
  <2>1. Len(Append(h, "user")) = Len(h) + 1 /\ Len(<<"user">>) = 1 /\ Len(h) \in Nat
    BY <1>1
  <2> QED
    BY <1>0, <1>3, <2>1 DEF Unmoved
<1>10. Halves' /\ Newest'
  BY <1>3, <1>5, <1>7, NothingSaved DEF Halves, Saving
<1>11. Linked'
  <2>1. ASSUME sound[c] = MaxHistory PROVE Paired(messages')
    <3>1. LinkedKinds(h) /\ (h # <<>> => h[1] # "result" /\ h[Len(h)] # "use")
      <4>1. CASE h = History(c)
        <5>1. Fitting(file[c], MaxHistory, <<>>)
          BY <1>3, <2>1, LinkedFiles DEF Saving
        <5> QED
          BY <1>2, <4>1, <5>1, HistoryPaired
      <4>2. CASE h = <<>>
        BY <4>2 DEF LinkedKinds
      <4> QED
        BY <4>1, <4>2
    <3> QED
      BY <1>0, <1>1, <3>1, PairedMeaning, PairedMore
  <2>2. ~Saving /\ ~Saving'
    BY <1>3 DEF Saving
  <2> QED
    BY <1>3, <1>7, <2>1, <2>2, LinkedAgain
<1> QED
  BY <1>5, <1>6, <1>8, <1>9, <1>10, <1>11 DEF TurnInv
-----------------------------------------------------------------------------
(* trim_context cuts before a message that begins something, if at all. *)
LEMMA TrimmedEnd ==
  ASSUME NEW ms \in Seq(Kinds), ms # <<>>, ms[Len(ms)] = "user", NEW t \in Trimmed(ms)
  PROVE  /\ t \in Seq(Kinds) /\ t # <<>> /\ t[Len(t)] = "user" /\ Len(t) <= Len(ms)
         /\ Paired(ms) => Paired(t)
<1>1. Len(ms) \in Nat \ {0}
  OBVIOUS
<1>2. PICK i \in {1} \cup RoundEnds(ms) : t = SubSeq(ms, i, Len(ms))
  BY DEF Trimmed
<1>3. i \in 1..Len(ms) /\ (i = 1 \/ ms[i] \in {"user", "answer"})
  BY <1>1 DEF RoundEnds
<1>4. i \in Nat \ {0} /\ i <= Len(ms) + 1
  BY <1>1, <1>3
<1>5. /\ t \in Seq(Kinds) /\ Len(t) = Len(ms) + 1 - i
      /\ \A j \in 1..Len(ms) + 1 - i : t[j] = ms[i - 1 + j]
  BY <1>2, <1>4, RestOf
<1>6. Len(t) \in Nat \ {0} /\ i - 1 + Len(t) = Len(ms)
  BY <1>1, <1>3, <1>5
<1>7. \A j \in 1..Len(t) : t[j] = ms[i - 1 + j] /\ i - 1 + j \in 1..Len(ms)
  BY <1>1, <1>4, <1>5, <1>6
<1>8. t # <<>> /\ t[Len(t)] = "user" /\ Len(t) <= Len(ms)
  BY <1>1, <1>4, <1>6, <1>7
<1>9. ASSUME Paired(ms) PROVE Paired(t)
  <2>1. ASSUME NEW j \in 1..Len(t), t[j] = "use"
        PROVE  j < Len(t) /\ t[j + 1] = "result"
    <3>1. i - 1 + j < Len(ms) /\ ms[(i - 1 + j) + 1] = "result"
      BY <1>7, <1>9, <2>1 DEF Paired
    <3>2. j < Len(t) /\ j + 1 \in 1..Len(t) /\ i - 1 + (j + 1) = (i - 1 + j) + 1
      BY <1>4, <1>6, <3>1
    <3>3. t[j + 1] = ms[i - 1 + (j + 1)]
      BY <1>7, <3>2
    <3> QED
      BY <3>1, <3>2, <3>3
  <2>2. ASSUME NEW j \in 1..Len(t), t[j] = "result"
        PROVE  j > 1 /\ t[j - 1] = "use"
    <3>1. i - 1 + j > 1 /\ ms[(i - 1 + j) - 1] = "use" /\ ms[i - 1 + j] = "result"
      BY <1>7, <1>9, <2>2 DEF Paired
    <3>2. j # 1
      <4>1. CASE j = 1
        <5>1. i - 1 + j = i
          BY <1>4, <4>1
        <5> QED
          BY <1>3, <3>1, <5>1
      <4> QED
        BY <4>1
    <3>3. j > 1 /\ j - 1 \in 1..Len(t) /\ i - 1 + (j - 1) = (i - 1 + j) - 1
      BY <1>4, <1>6, <3>2
    <3>4. t[j - 1] = ms[i - 1 + (j - 1)]
      BY <1>7, <3>3
    <3> QED
      BY <3>1, <3>3, <3>4
  <2> QED
    BY <2>1, <2>2 DEF Paired
<1> QED
  BY <1>5, <1>8, <1>9

(* Before a trim the context ends with the message of this turn. *)
LEMMA TrimFacts ==
  ASSUME TurnInv, Trim
  PROVE  /\ messages' \in Seq(Kinds) /\ messages' # <<>> /\ messages'[Len(messages')] = "user"
         /\ Len(messages') <= Len(messages)
         /\ Paired(messages) => Paired(messages')
<1>1. pc = "trim" /\ messages' \in Trimmed(messages)
  BY DEF Trim
<1>2. messages \in Seq(Kinds) /\ turn = <<"user">> /\ EndsWith(messages, turn)
  BY <1>1 DEF TurnInv, Typed, Talking
<1>3. messages # <<>> /\ messages[Len(messages)] = "user"
  <2>1. 1 <= Len(messages) /\ messages[Len(messages) - 1 + 1] = "user" /\ Len(messages) \in Nat
    BY <1>2 DEF EndsWith
  <2>2. Len(messages) - 1 + 1 = Len(messages)
    BY <2>1
  <2> QED
    BY <2>1, <2>2
<1> QED
  BY <1>1, <1>2, <1>3, TrimmedEnd

LEMMA TrimInv ==
  ASSUME TurnInv, Trim
  PROVE  TurnInv'
<1>1. Typed
  BY DEF TurnInv
<1>2. /\ pc = "trim" /\ pc' = "llm" /\ trimmed' = (messages' # messages)
      /\ UNCHANGED <<file, appendCount, tmp, chat, histCount, iter, toSave, synced, sound, turn,
                     saved, failed, removed, raced, turns, clears, crashes, fails>>
  BY DEF Trim, files, marks, world
<1>3. /\ messages' \in Seq(Kinds) /\ messages' # <<>> /\ messages'[Len(messages')] = "user"
      /\ Len(messages') <= Len(messages)
      /\ Paired(messages) => Paired(messages')
  BY TrimFacts
<1>4. trimmed' \in BOOLEAN
  BY <1>2
<1>5. Typed'
  BY <1>1, <1>2, <1>3, <1>4 DEF Typed
<1>6. Sized' /\ Aged' /\ Copied' /\ Newest'
  BY <1>1, <1>2, FilesAlone, SavedStays DEF Typed
<1>7. turn = <<"user">> /\ saved = <<>> /\ toSave = <<>>
  BY <1>2 DEF TurnInv, Talking, Saving
<1>8. Talking'
  <2>1. EndsWith(messages', <<"user">>)
    <3>1. Len(messages') \in Nat \ {0} /\ Len(messages') - 1 + 1 = Len(messages')
      BY <1>3
    <3>2. Len(<<"user">>) = 1 /\ <<"user">>[1] = "user"
      OBVIOUS
    <3> QED
      BY <1>3, <3>1, <3>2 DEF EndsWith
  <2> QED
    BY <1>2, <1>7, <2>1, SaidFirst DEF Talking, Saving
<1>9. Unmoved'
  <2>1. Len(messages) <= histCount + Len(turn)
    BY <1>2 DEF TurnInv, Unmoved
  <2>2. ASSUME ~trimmed' PROVE Len(messages') = histCount + Len(turn)
    <3>1. messages' = messages
      BY <1>2, <2>2
    <3>2. Len(messages) = histCount + 1
      <4>1. ~trimmed
        BY <1>2 DEF TurnInv, Talking
      <4> QED
        BY <1>2, <1>7, <4>1 DEF TurnInv, Unmoved
    <3> QED
      BY <1>7, <3>1, <3>2
  <2>3. Len(messages) \in Nat /\ Len(messages') \in Nat /\ Len(turn) \in Nat /\ histCount \in Nat
    BY <1>1, <1>3, TurnAssumption DEF Typed
  <2>4. Len(messages') <= histCount + Len(turn)
    BY <1>3, <2>1, <2>3
  <2> QED
    BY <1>2, <2>2, <2>4 DEF Unmoved
<1>10. Halves'
  BY <1>2 DEF Halves, Saving
<1>11. Linked'
  <2>1. ASSUME sound[chat] = MaxHistory PROVE Paired(messages')
    <3>1. Paired(messages)
      BY <1>2, <2>1 DEF TurnInv, Linked
    <3> QED
      BY <1>3, <3>1
  <2>2. ~Saving /\ ~Saving'
    BY <1>2 DEF Saving
  <2> QED
    BY <1>2, <1>7, <2>1, <2>2, LinkedAgain
<1> QED
  BY <1>5, <1>6, <1>8, <1>9, <1>10, <1>11 DEF TurnInv
-----------------------------------------------------------------------------
(* Where the save loop begins: with the last of what was said, which has no
   result at its begin unless a trim took the rest away. *)
LEMMA NewIsEnd ==
  ASSUME NEW s \in Seq(Kinds), NEW t \in Seq(Kinds), NEW h \in Nat,
         EndsWith(s, t), Len(s) <= h + Len(t), Said(t)
  PROVE  LET r == SubSeq(s, h + 1, Len(s))
         IN  /\ r \in Seq(Kinds) /\ LinkedKinds(r)
             /\ r # <<>> => r[Len(r)] # "use"
<1> DEFINE r == SubSeq(s, h + 1, Len(s))
<1>1. Len(s) \in Nat /\ Len(t) \in Nat \ {0} /\ h + 1 \in Nat \ {0}
  BY DEF Said
<1>2. r \in Seq(Kinds)
  BY <1>1, RestOf
<1>3. CASE h >= Len(s)
  <2>1. r = <<>>
    BY <1>1, <1>3
  <2>2. LinkedKinds(<<>>)
    BY DEF LinkedKinds
  <2> HIDE DEF r
  <2> QED
    BY <1>2, <2>1, <2>2 DEF r
<1>4. CASE h < Len(s)
  <2> DEFINE d == h - (Len(s) - Len(t))
  <2>1. /\ Len(r) = Len(s) - h /\ Len(r) \in Nat \ {0}
        /\ \A i \in 1..Len(s) - h : r[i] = s[h + i]
    <3>1. h + 1 <= Len(s) + 1 /\ Len(s) + 1 - (h + 1) = Len(s) - h
      BY <1>1, <1>4
    <3>2. Len(r) = Len(s) - h /\ \A i \in 1..Len(s) - h : r[i] = s[(h + 1) - 1 + i]
      BY <1>1, <3>1, RestOf
    <3>3. \A i \in 1..Len(s) - h : (h + 1) - 1 + i = h + i
      BY <1>1
    <3> HIDE DEF r
    <3> QED
      BY <1>1, <1>4, <3>2, <3>3
  <2> HIDE DEF r
  <2>2. Len(t) <= Len(s) /\ \A i \in 1..Len(t) : s[Len(s) - Len(t) + i] = t[i]
    BY DEF EndsWith
  <2>3. d \in Nat /\ d + Len(r) = Len(t)
    BY <1>1, <2>1, <2>2
  <2>4. ASSUME NEW i \in 1..Len(r) PROVE d + i \in 1..Len(t) /\ r[i] = t[d + i]
    <3>1. d + i \in 1..Len(t) /\ Len(s) - Len(t) + (d + i) = h + i
      BY <1>1, <2>1, <2>2, <2>3
    <3> HIDE DEF d
    <3> QED
      BY <2>1, <2>2, <3>1
  <2> HIDE DEF d
  <2>5. LinkedKinds(r)
    <3>1. ASSUME NEW i \in 1..Len(r)-1 PROVE r[i] = "use" <=> r[i + 1] = "result"
      <4>1. /\ i \in 1..Len(r) /\ i + 1 \in 1..Len(r) /\ d + (i + 1) = (d + i) + 1
            /\ d + i \in 1..Len(t)-1
        BY <1>1, <2>1, <2>3
      <4>2. r[i] = t[d + i] /\ r[i + 1] = t[(d + i) + 1]
        BY <2>4, <4>1
      <4> QED
        BY <4>1, <4>2 DEF Said, LinkedKinds
    <3> QED
      BY <3>1 DEF LinkedKinds
  <2>6. r[Len(r)] # "use"
    <3>1. Len(r) \in 1..Len(r)
      BY <2>1
    <3>2. r[Len(r)] = t[Len(t)]
      BY <2>3, <2>4, <3>1
    <3> QED
      BY <3>2 DEF Said
  <2> QED
    BY <1>2, <2>5, <2>6 DEF r
<1>5. h >= Len(s) \/ h < Len(s)
  BY <1>1
<1> HIDE DEF r
<1> QED
  BY <1>3, <1>4, <1>5 DEF r

LEMMA SaveBegins ==
  ASSUME TurnInv, pc = "llm",
         UNCHANGED <<file, appendCount, tmp, chat, histCount, synced, saved, trimmed, failed,
                     removed, raced, turns, clears, crashes, fails>>,
         messages' \in Seq(Kinds), turn' \in Seq(Kinds), iter' \in 0..MaxIter,
         NEW t \in Seq(Kinds), Said(t), EndsWith(messages', t),
         Len(messages') <= histCount + Len(t),
         ~trimmed => Len(messages') = histCount + Len(t),
         NEW ms, ms \in {NewMessages(messages'), Append(NewMessages(messages'), "answer")},
         BeginSave(ms),
         ~trimmed /\ iter' < MaxIter => ms = turn'
  PROVE  TurnInv'
<1> DEFINE r == NewMessages(messages')
<1>0. /\ pc' = "save" /\ toSave' = ms
      /\ sound' = [sound EXCEPT ![chat] = IF trimmed THEN 0 ELSE @]
  BY DEF BeginSave
<1>1. Typed
  BY DEF TurnInv
<1>2. histCount \in Nat /\ chat \in Chats /\ sound \in [Chats -> 0..MaxHistory]
  BY <1>1, TurnAssumption DEF Typed
<1>3. "answer" \in Kinds
  BY DEF Kinds
<1>4. r = SubSeq(messages', histCount + 1, Len(messages'))
  BY DEF NewMessages
<1>5. /\ r \in Seq(Kinds) /\ LinkedKinds(r)
      /\ r # <<>> => r[Len(r)] # "use"
      /\ ~trimmed => r = t
  BY <1>2, <1>4, NewIsEnd, NewIsSaid
<1> HIDE DEF r
<1>6. ms \in Seq(Kinds) /\ LinkedKinds(ms) /\ (ms # <<>> => ms[Len(ms)] # "use")
  <2>1. CASE ms = r
    BY <1>5, <2>1
  <2>2. CASE ms = Append(r, "answer")
    <3>1. LinkedKinds(Append(r, "answer"))
      BY <1>3, <1>5, LinkedMore
    <3>2. Append(r, "answer") \in Seq(Kinds) /\ Append(r, "answer")[Len(Append(r, "answer"))] = "answer"
      BY <1>3, <1>5
    <3> QED
      BY <2>2, <3>1, <3>2
  <2> QED
    BY <2>1, <2>2 DEF r
<1>7. ~trimmed => ms # <<>> /\ ms[1] = "user"
  <2> SUFFICES ASSUME ~trimmed PROVE ms # <<>> /\ ms[1] = "user"
    OBVIOUS
  <2>1. r # <<>> /\ r[1] = "user" /\ Len(r) \in Nat \ {0}
    BY <1>5 DEF Said
  <2>2. CASE ms = r
    BY <2>1, <2>2
  <2>3. CASE ms = Append(r, "answer")
    <3>1. 1 \in 1..Len(r)
      BY <2>1
    <3>2. Append(r, "answer")[1] = r[1] /\ Append(r, "answer") # <<>>
      BY <1>3, <1>5, <3>1
    <3> QED
      BY <2>1, <2>3, <3>2
  <2> QED
    BY <2>2, <2>3 DEF r
<1>8. sound' \in [Chats -> 0..MaxHistory]
  BY <1>0, <1>2, TurnAssumption
<1>9. Typed'
  BY <1>0, <1>1, <1>6, <1>8 DEF Typed
<1>10. Sized' /\ Aged' /\ Copied'
  BY <1>0, <1>1, FilesAlone DEF Typed
<1>11. saved = <<>>
  BY DEF TurnInv, Talking
<1>12. Talking' /\ Unmoved'
  BY <1>0 DEF Talking, Unmoved, Saving
<1>13. Halves' /\ Newest'
  <2>1. ASSUME ~trimmed, iter' < MaxIter PROVE saved \o toSave' = turn'
    BY <1>0, <1>11, <2>1
  <2> QED
    BY <1>0, <1>9, <1>11, <2>1, NothingSaved DEF Halves, Saving
<1>14. Linked'
  <2>1. ASSUME NEW c \in Chats
        PROVE  Fitting(file[c], sound'[c], IF c = chat THEN toSave' ELSE <<>>)
    <3>1. Fitting(file[c], sound[c], <<>>)
      BY LinkedFiles DEF Saving
    <3>2. CASE c # chat
      BY <1>0, <1>2, <3>1, <3>2
    <3>3. CASE c = chat /\ trimmed
      <4>1. sound'[c] = 0 /\ file[c] \in Seq(Line)
        BY <1>0, <1>1, <1>2, <3>3 DEF Typed
      <4> QED
        BY <4>1, FittingNone
    <3>4. CASE c = chat /\ ~trimmed
      <4>1. sound'[c] = sound[c] /\ toSave' # <<>> /\ toSave'[1] = "user"
        BY <1>0, <1>2, <1>7, <3>4
      <4> QED
        BY <3>1, <3>4, <4>1 DEF Fitting, Awaits
    <3> QED
      BY <3>2, <3>3, <3>4
  <2> QED
    BY <1>0, <1>6, <2>1 DEF Linked, Saving
<1> QED
  BY <1>9, <1>10, <1>12, <1>13, <1>14 DEF TurnInv

(* What the tool loop starts from. *)
LEMMA LlmFacts ==
  ASSUME TurnInv, pc = "llm"
  PROVE  /\ messages \in Seq(Kinds) /\ turn \in Seq(Kinds) /\ histCount \in Nat
         /\ EndsWith(messages, turn) /\ Said(turn) /\ saved = <<>> /\ toSave = <<>>
         /\ Len(messages) <= histCount + Len(turn)
         /\ ~trimmed => Len(messages) = histCount + Len(turn)
         /\ sound[chat] = MaxHistory => Paired(messages)
<1>1. messages \in Seq(Kinds) /\ turn \in Seq(Kinds) /\ histCount \in Nat
  BY TurnAssumption DEF TurnInv, Typed
<1>2. EndsWith(messages, turn) /\ Said(turn) /\ saved = <<>> /\ toSave = <<>>
  BY DEF TurnInv, Talking, Saving
<1>3. /\ Len(messages) <= histCount + Len(turn)
      /\ ~trimmed => Len(messages) = histCount + Len(turn)
  BY DEF TurnInv, Unmoved
<1>4. sound[chat] = MaxHistory => Paired(messages)
  BY DEF TurnInv, Linked
<1> QED
  BY <1>1, <1>2, <1>3, <1>4

LEMMA LlmErrorInv ==
  ASSUME TurnInv, LlmError
  PROVE  TurnInv'
<1>1. Typed
  BY DEF TurnInv
<1>2. /\ pc = "llm" /\ pc' = "reply"
      /\ UNCHANGED <<file, appendCount, tmp, chat, messages, histCount, iter, toSave, synced, sound,
                     turn, saved, trimmed, failed, removed, raced, turns, clears, crashes, fails>>
  BY DEF LlmError, files, context, marks, said, world
<1>3. Typed'
  BY <1>1, <1>2 DEF Typed
<1>4. Sized' /\ Aged' /\ Copied'
  BY <1>1, <1>2, FilesAlone DEF Typed
<1>5. saved = <<>> /\ toSave = <<>>
  BY <1>2, LlmFacts
<1>6. Talking' /\ Unmoved' /\ Halves'
  BY <1>2, <1>5 DEF Talking, Unmoved, Halves, Saving
<1>7. Newest'
  BY <1>2, <1>3, <1>5, NothingSaved
<1>8. Linked'
  <2>1. ~Saving /\ ~Saving' /\ pc' \notin {"trim", "llm"}
    BY <1>2 DEF Saving
  <2> QED
    BY <1>2, <1>5, <2>1, LinkedAgain
<1> QED
  BY <1>3, <1>4, <1>6, <1>7, <1>8 DEF TurnInv

LEMMA LlmTextInv ==
  ASSUME TurnInv, LlmText
  PROVE  TurnInv'
<1>1. PICK final \in {<<>>, <<"answer">>} :
        turn' = turn \o final /\ BeginSave(NewMessages(messages) \o final)
  BY DEF LlmText
<1>2. /\ pc = "llm"
      /\ UNCHANGED <<file, appendCount, tmp, chat, messages, histCount, iter, synced, saved,
                     trimmed, failed, removed, raced, turns, clears, crashes, fails>>
  BY DEF LlmText, files, context, world
<1>3. /\ messages \in Seq(Kinds) /\ turn \in Seq(Kinds) /\ histCount \in Nat
      /\ EndsWith(messages, turn) /\ Said(turn)
      /\ Len(messages) <= histCount + Len(turn)
      /\ ~trimmed => Len(messages) = histCount + Len(turn)
  BY <1>2, LlmFacts
<1>4. NewMessages(messages) \in Seq(Kinds) /\ (~trimmed => NewMessages(messages) = turn)
  <2>1. histCount + 1 \in Nat \ {0}
    BY <1>3
  <2> QED
    BY <1>3, <2>1, RestOf, NewIsSaid DEF NewMessages
<1>5. "answer" \in Kinds
  BY DEF Kinds
<1> DEFINE ms == NewMessages(messages) \o final
<1>6. /\ ms \in {NewMessages(messages), Append(NewMessages(messages), "answer")}
      /\ turn' \in Seq(Kinds) /\ (~trimmed => ms = turn')
  <2>1. CASE final = <<>>
    BY <1>1, <1>3, <1>4, <2>1
  <2>2. CASE final = <<"answer">>
    BY <1>1, <1>3, <1>4, <1>5, <2>2
  <2> QED
    BY <2>1, <2>2
<1>7. NewMessages(messages') = NewMessages(messages)
  BY <1>2 DEF NewMessages
<1>8. iter' \in 0..MaxIter
  BY <1>2 DEF TurnInv, Typed
<1>9. BeginSave(ms)
  BY <1>1
<1> HIDE DEF ms
<1>10. messages' = messages /\ ms \in {NewMessages(messages'), Append(NewMessages(messages'), "answer")}
  BY <1>2, <1>6, <1>7
<1> QED
  BY <1>2, <1>3, <1>6, <1>8, <1>9, <1>10, SaveBegins

LEMMA LlmToolsInv ==
  ASSUME TurnInv, LlmTools
  PROVE  TurnInv'
<1> DEFINE more == <<"use", "result">>
<1>1. /\ pc = "llm" /\ iter < MaxIter
      /\ messages' = messages \o more /\ turn' = turn \o more
      /\ \/ pc' = "llm" /\ iter' = iter + 1 /\ UNCHANGED <<toSave, sound>>
         \/ BeginSave(NewMessages(messages')) /\ UNCHANGED iter
      /\ UNCHANGED <<file, appendCount, tmp, chat, histCount, synced, saved, trimmed, failed,
                     removed, raced, turns, clears, crashes, fails>>
  BY DEF LlmTools, MayIterate, files, world
<1>2. /\ messages \in Seq(Kinds) /\ turn \in Seq(Kinds) /\ histCount \in Nat
      /\ EndsWith(messages, turn) /\ Said(turn) /\ saved = <<>> /\ toSave = <<>>
      /\ Len(messages) <= histCount + Len(turn)
      /\ ~trimmed => Len(messages) = histCount + Len(turn)
      /\ sound[chat] = MaxHistory => Paired(messages)
  BY <1>1, LlmFacts
<1>3. Typed
  BY DEF TurnInv
<1>4. "use" \in Kinds /\ "result" \in Kinds
  BY DEF Kinds
<1>5. ASSUME NEW s \in Seq(Kinds)
      PROVE  /\ s \o more = Append(Append(s, "use"), "result") /\ s \o more \in Seq(Kinds)
             /\ Append(s, "use") \in Seq(Kinds) /\ Len(s \o more) = Len(s) + 2
  BY <1>4
<1> HIDE DEF more
<1>6. /\ messages' \in Seq(Kinds) /\ messages' = Append(Append(messages, "use"), "result")
      /\ turn' \in Seq(Kinds) /\ turn' = Append(Append(turn, "use"), "result")
      /\ Append(messages, "use") \in Seq(Kinds) /\ Append(turn, "use") \in Seq(Kinds)
      /\ Len(messages') = Len(messages) + 2 /\ Len(turn') = Len(turn) + 2
  BY <1>1, <1>2, <1>5
<1>7. EndsWith(messages', turn')
  BY <1>2, <1>4, <1>6, LongerEnd
<1>8. Said(turn')
  BY <1>2, <1>6, SaidMore
<1>9. /\ Len(messages') <= histCount + Len(turn')
      /\ ~trimmed => Len(messages') = histCount + Len(turn')
  <2>1. Len(messages) \in Nat /\ Len(turn) \in Nat
    BY <1>2
  <2> QED
    BY <1>2, <1>6, <2>1
<1>10. CASE BeginSave(NewMessages(messages')) /\ iter' = iter
  <2>1. ~trimmed => NewMessages(messages') = turn'
    BY <1>2, <1>6, <1>7, <1>9, NewIsSaid DEF NewMessages
  <2>2. iter' \in 0..MaxIter
    BY <1>3, <1>10 DEF Typed
  <2> QED
    BY <1>1, <1>6, <1>7, <1>8, <1>9, <1>10, <2>1, <2>2, SaveBegins
<1>11. CASE pc' = "llm" /\ iter' = iter + 1 /\ UNCHANGED <<toSave, sound>>
  <2>1. iter' \in 0..MaxIter
    BY <1>1, <1>3, <1>11, TurnAssumption DEF Typed
  <2>2. Typed'
    BY <1>1, <1>3, <1>6, <1>11, <2>1 DEF Typed
  <2>3. Sized' /\ Aged' /\ Copied'
    BY <1>1, <1>3, <1>11, FilesAlone DEF Typed
  <2>4. Talking'
    BY <1>1, <1>2, <1>7, <1>8, <1>11 DEF Talking, Saving
  <2>5. Unmoved'
    BY <1>1, <1>9 DEF Unmoved
  <2>6. Halves' /\ Newest'
    BY <1>1, <1>2, <1>11, <2>2, NothingSaved DEF Halves, Saving
  <2>7. Linked'
    <3>1. ASSUME sound[chat] = MaxHistory PROVE Paired(messages')
      BY <1>2, <1>6, <3>1, PairedMore
    <3>2. ~Saving /\ ~Saving'
      BY <1>1, <1>11 DEF Saving
    <3> QED
      BY <1>1, <1>2, <1>11, <3>1, <3>2, LinkedAgain
  <2> QED
    BY <2>2, <2>3, <2>4, <2>5, <2>6, <2>7 DEF TurnInv
<1> QED
  BY <1>1, <1>10, <1>11

LEMMA IterationLimitInv ==
  ASSUME TurnInv, IterationLimit
  PROVE  TurnInv'
<1>1. /\ pc = "llm" /\ ~(iter < MaxIter)
      /\ messages' = Append(messages, "answer") /\ turn' = Append(turn, "answer")
      /\ BeginSave(Append(NewMessages(messages'), "answer"))
      /\ UNCHANGED <<file, appendCount, tmp, chat, histCount, iter, synced, saved, trimmed,
                     failed, removed, raced, turns, clears, crashes, fails>>
  BY DEF IterationLimit, MayIterate, files, world
<1>2. /\ messages \in Seq(Kinds) /\ turn \in Seq(Kinds) /\ histCount \in Nat
      /\ EndsWith(messages, turn) /\ Said(turn)
      /\ Len(messages) <= histCount + Len(turn)
      /\ ~trimmed => Len(messages) = histCount + Len(turn)
  BY <1>1, LlmFacts
<1>3. "answer" \in Kinds
  BY DEF Kinds
<1>4. /\ messages' \in Seq(Kinds) /\ turn' \in Seq(Kinds)
      /\ Len(messages') = Len(messages) + 1 /\ Len(turn') = Len(turn) + 1
  BY <1>1, <1>2, <1>3
<1>5. EndsWith(messages', turn') /\ Said(turn')
  BY <1>1, <1>2, <1>3, LongerEnd, SaidMore
<1>6. /\ Len(messages') <= histCount + Len(turn')
      /\ ~trimmed => Len(messages') = histCount + Len(turn')
  <2>1. Len(messages) \in Nat /\ Len(turn) \in Nat
    BY <1>2
  <2> QED
    BY <1>2, <1>4, <2>1
<1>7. iter' \in 0..MaxIter /\ ~(iter' < MaxIter)
  BY <1>1 DEF TurnInv, Typed
<1> QED
  BY <1>1, <1>4, <1>5, <1>6, <1>7, SaveBegins
-----------------------------------------------------------------------------
(* What is left to append once the first message is. *)
LEMMA TailLinked ==
  ASSUME NEW ks \in Seq(Kinds), ks # <<>>, LinkedKinds(ks), ks[Len(ks)] # "use"
  PROVE  /\ Head(ks) = ks[1] /\ ks[1] \in Kinds
         /\ Tail(ks) \in Seq(Kinds) /\ LinkedKinds(Tail(ks))
         /\ Tail(ks) # <<>> => Tail(ks)[Len(Tail(ks))] # "use"
         /\ ks[1] = "use" <=> Tail(ks) # <<>> /\ Tail(ks)[1] = "result"
<1> DEFINE t == Tail(ks)
<1>1. /\ Len(ks) \in Nat \ {0} /\ Head(ks) = ks[1] /\ ks[1] \in Kinds /\ t \in Seq(Kinds)
      /\ Len(t) = Len(ks) - 1 /\ \A i \in 1..Len(t) : t[i] = ks[i + 1]
  OBVIOUS
<1> HIDE DEF t
<1>2. LinkedKinds(t)
  <2>1. ASSUME NEW i \in 1..Len(t)-1 PROVE t[i] = "use" <=> t[i + 1] = "result"
    <3>1. i \in 1..Len(t) /\ i + 1 \in 1..Len(t) /\ i + 1 \in 1..Len(ks)-1
      BY <1>1
    <3> QED
      BY <1>1, <3>1 DEF LinkedKinds
  <2> QED
    BY <2>1 DEF LinkedKinds
<1>3. ASSUME t # <<>> PROVE t[Len(t)] # "use"
  <2>1. Len(t) \in 1..Len(t) /\ Len(t) + 1 = Len(ks)
    BY <1>1, <1>3
  <2> QED
    BY <1>1, <2>1
<1>4. ks[1] = "use" <=> t # <<>> /\ t[1] = "result"
  <2>1. CASE t = <<>>
    <3>1. Len(ks) = 1
      BY <1>1, <2>1
    <3> QED
      BY <2>1, <3>1
  <2>2. CASE t # <<>>
    <3>1. 1 \in 1..Len(t) /\ 1 \in 1..Len(ks)-1
      BY <1>1, <2>2
    <3>2. t[1] = ks[1 + 1] /\ (ks[1] = "use" <=> ks[1 + 1] = "result")
      BY <1>1, <3>1 DEF LinkedKinds
    <3> QED
      BY <2>2, <3>2
  <2> QED
    BY <2>1, <2>2
<1> QED
  BY <1>1, <1>2, <1>3, <1>4 DEF t

(* A line appended to a file is one more that has nothing missing. *)
LEMMA FittingMore ==
  ASSUME NEW s \in Seq(Line), NEW l \in Line, NEW n \in Nat, NEW m \in 0..n+1,
         NEW ks \in Seq(Kinds), ks # <<>>, LinkedKinds(ks), ks[Len(ks)] # "use",
         l.kind = ks[1], Fitting(s, n, ks)
  PROVE  Fitting(Append(s, l), m, Tail(ks))
<1> DEFINE g == Append(s, l)
<1>1. /\ Len(s) \in Nat /\ g \in Seq(Line) /\ Len(g) = Len(s) + 1 /\ g[Len(s) + 1] = l
      /\ \A i \in 1..Len(s) : g[i] = s[i]
  OBVIOUS
<1> HIDE DEF g
<1>2. ks[1] \in Kinds /\ (ks[1] = "use" <=> Tail(ks) # <<>> /\ Tail(ks)[1] = "result")
  BY TailLinked
<1>3. WholeLines(g, m)
  <2> SUFFICES ASSUME NEW i \in 1..Len(g), i > Len(g) - m PROVE g[i].kind \in Kinds
    BY DEF WholeLines
  <2>1. CASE i = Len(s) + 1
    BY <1>1, <1>2, <2>1
  <2>2. CASE i # Len(s) + 1
    <3>1. i \in 1..Len(s) /\ i > Len(s) - n
      BY <1>1, <2>2
    <3> QED
      BY <1>1, <3>1 DEF Fitting, WholeLines
  <2> QED
    BY <2>1, <2>2
<1>4. LinkedLines(g, m)
  <2> SUFFICES ASSUME NEW i \in 1..Len(g)-1, i > Len(g) - m
               PROVE  g[i].kind = "use" <=> g[i + 1].kind = "result"
    BY DEF LinkedLines
  <2>1. CASE i = Len(s)
    <3>1. n > 0 /\ s # <<>> /\ i \in 1..Len(s)
      BY <1>1, <2>1
    <3>2. s[Len(s)].kind = "use" <=> ks[1] = "result"
      BY <3>1 DEF Fitting, Awaits
    <3> QED
      BY <1>1, <2>1, <3>1, <3>2
  <2>2. CASE i # Len(s)
    <3>1. i \in 1..Len(s)-1 /\ i \in 1..Len(s) /\ i + 1 \in 1..Len(s) /\ i > Len(s) - n
      BY <1>1, <2>2
    <3>2. s[i].kind = "use" <=> s[i + 1].kind = "result"
      BY <3>1 DEF Fitting, LinkedLines
    <3> QED
      BY <1>1, <3>1, <3>2
  <2> QED
    BY <2>1, <2>2
<1>5. Awaits(g, m, Tail(ks))
  <2>1. g[Len(g)].kind = ks[1]
    BY <1>1
  <2> QED
    BY <1>2, <2>1 DEF Awaits
<1> QED
  BY <1>3, <1>4, <1>5 DEF Fitting, g

LEMMA EndsAsMore ==
  ASSUME NEW s \in Seq(Line), NEW l \in Line, NEW ks \in Seq(Kinds), NEW k \in Kinds,
         l.kind = k, EndsAs(s, ks)
  PROVE  EndsAs(Append(s, l), Append(ks, k))
<1> DEFINE g == Append(s, l)
           t == Append(ks, k)
<1>1. /\ Len(s) \in Nat /\ Len(g) = Len(s) + 1 /\ g[Len(s) + 1] = l
      /\ \A i \in 1..Len(s) : g[i] = s[i]
  OBVIOUS
<1>2. /\ Len(ks) \in Nat /\ Len(t) = Len(ks) + 1 /\ t[Len(ks) + 1] = k
      /\ \A i \in 1..Len(ks) : t[i] = ks[i]
  OBVIOUS
<1> HIDE DEF g, t
<1>3. ASSUME NEW i \in 0..Len(t)-1, i < Len(g) PROVE g[Len(g) - i].kind = t[Len(t) - i]
  <2>1. CASE i = 0
    <3>1. Len(g) - i = Len(s) + 1 /\ Len(t) - i = Len(ks) + 1
      BY <1>1, <1>2, <2>1
    <3> QED
      BY <1>1, <1>2, <3>1
  <2>2. CASE i # 0
    <3>1. /\ i - 1 \in 0..Len(ks)-1 /\ i - 1 < Len(s)
          /\ Len(g) - i = Len(s) - (i - 1) /\ Len(t) - i = Len(ks) - (i - 1)
          /\ Len(g) - i \in 1..Len(s) /\ Len(t) - i \in 1..Len(ks)
      BY <1>1, <1>2, <1>3, <2>2
    <3>2. s[Len(s) - (i - 1)].kind = ks[Len(ks) - (i - 1)]
      BY <3>1 DEF EndsAs
    <3> QED
      BY <1>1, <1>2, <3>1, <3>2
  <2> QED
    BY <2>1, <2>2
<1> QED
  BY <1>3 DEF EndsAs, g, t

(* A line appended to a file, after it or instead of its torn end. *)
LEMMA SaveNextFacts ==
  ASSUME TurnInv, SaveNext
  PROVE  \E l \in Line :
           /\ l.gen = clears[chat]
           /\ \/ /\ ~Torn(chat)
                 /\ file' = [file EXCEPT ![chat] = Append(file[chat], l)]
                 /\ l.kind = toSave[1] /\ saved' = Append(saved, toSave[1])
                 /\ sound' = [sound EXCEPT ![chat] = Min({@ + 1, MaxHistory})]
                 /\ UNCHANGED <<synced, failed>>
              \/ /\ Torn(chat) /\ saved = <<>>
                 /\ file' = [file EXCEPT ![chat] = Append(Front(file[chat]), l)]
                 /\ synced' = [synced EXCEPT ![chat] = Min({@, Len(file[chat]) - 1})]
                 /\ sound' = [sound EXCEPT ![chat] = 0]
                 /\ failed' = TRUE /\ UNCHANGED saved
<1>1. /\ toSave \in Seq(Kinds) /\ toSave # <<>>
      /\ chat \in Chats /\ clears[chat] \in 0..MaxClears
      /\ file[chat] \in Seq(Line) /\ saved \in Seq(Kinds)
  BY DEF TurnInv, Typed, SaveNext
<1>2. Head(toSave) = toSave[1] /\ toSave[1] \in Kinds
  BY <1>1
<1>3. ASSUME NEW k \in Kinds \cup {"bad"}
      PROVE  Written(k) \in Line /\ Written(k).gen = clears[chat] /\ Written(k).kind = k
  BY <1>1 DEF Written, Line
<1>4. CASE ~Torn(chat)
  <2> DEFINE l == Written(toSave[1])
  <2>1. l \in Line /\ l.gen = clears[chat] /\ l.kind = toSave[1]
    BY <1>2, <1>3
  <2>2. /\ file' = [file EXCEPT ![chat] = Append(file[chat], l)]
        /\ saved' = Append(saved, toSave[1])
        /\ sound' = [sound EXCEPT ![chat] = Min({@ + 1, MaxHistory})]
        /\ UNCHANGED <<synced, failed>>
    BY <1>2, <1>4 DEF SaveNext
  <2> HIDE DEF l
  <2> QED
    BY <1>4, <2>1, <2>2
<1>5. CASE Torn(chat)
  <2> DEFINE l == Written("bad")
  <2>1. l \in Line /\ l.gen = clears[chat]
    BY <1>3
  <2>2. /\ file' = [file EXCEPT ![chat] = Append(Front(file[chat]), l)]
        /\ synced' = [synced EXCEPT ![chat] = Min({@, Len(file[chat]) - 1})]
        /\ sound' = [sound EXCEPT ![chat] = 0]
        /\ failed' = TRUE /\ UNCHANGED saved
    BY <1>5 DEF SaveNext
  <2>3. saved = <<>>
    <3> SUFFICES ASSUME saved # <<>> PROVE FALSE
      OBVIOUS
    <3>1. Len(file[chat]) \in Nat \ {0} /\ file[chat][Len(file[chat])].kind = "torn"
      BY <1>1, <1>5 DEF Torn, Last
    <3>2. Len(saved) \in Nat \ {0} /\ saved[Len(saved)] \in Kinds
      BY <1>1
    <3>3. 0 \in 0..Len(saved)-1 /\ 0 < Len(file[chat]) /\ Len(file[chat]) - 0 = Len(file[chat])
          /\ Len(saved) - 0 = Len(saved)
      BY <3>1, <3>2
    <3>4. file[chat][Len(file[chat]) - 0].kind = saved[Len(saved) - 0]
      BY <3>3 DEF TurnInv, Newest, EndsAs
    <3> QED
      BY <3>1, <3>2, <3>3, <3>4 DEF Kinds
  <2> HIDE DEF l
  <2> QED
    BY <1>5, <2>1, <2>2, <2>3
<1> QED
  BY <1>4, <1>5

LEMMA SaveNextInv ==
  ASSUME TurnInv, SaveNext
  PROVE  TurnInv'
<1> DEFINE f == file[chat]
<1>1. Typed
  BY DEF TurnInv
<1>2. /\ pc = "save" /\ toSave # <<>> /\ toSave' = Tail(toSave)
      /\ appendCount' = (appendCount + 1) % CompactEvery
      /\ pc' = (IF appendCount' = 0 THEN "compact" ELSE "save")
      /\ UNCHANGED <<tmp, chat, messages, histCount, iter, turn, trimmed, removed, raced,
                     turns, clears, crashes, fails>>
  BY DEF SaveNext, context, world
<1>3. /\ chat \in Chats /\ f \in Seq(Line) /\ saved \in Seq(Kinds) /\ toSave \in Seq(Kinds)
      /\ file \in [Chats -> Seq(Line)] /\ synced \in [Chats -> Nat]
      /\ sound \in [Chats -> 0..MaxHistory] /\ MaxHistory \in Nat
      /\ CompactEvery \in Nat \ {0} /\ appendCount \in 0..CompactEvery-1
  BY <1>1, TurnAssumption DEF Typed
<1>0. CompactEvery \in Nat \ {0} /\ appendCount \in 0..CompactEvery-1
  BY <1>3
<1>4. /\ LinkedKinds(toSave) /\ toSave[Len(toSave)] # "use"
      /\ \A c \in Chats : Fitting(file[c], sound[c], IF c = chat THEN toSave ELSE <<>>)
  BY <1>2 DEF TurnInv, Linked, Saving
<1>5. /\ toSave[1] \in Kinds /\ Head(toSave) = toSave[1] /\ toSave' \in Seq(Kinds)
      /\ LinkedKinds(toSave') /\ (toSave' # <<>> => toSave'[Len(toSave')] # "use")
  BY <1>2, <1>3, <1>4, TailLinked
<1>6. PICK l \in Line :
        /\ l.gen = clears[chat]
        /\ \/ /\ ~Torn(chat)
              /\ file' = [file EXCEPT ![chat] = Append(f, l)]
              /\ l.kind = toSave[1] /\ saved' = Append(saved, toSave[1])
              /\ sound' = [sound EXCEPT ![chat] = Min({@ + 1, MaxHistory})]
              /\ UNCHANGED <<synced, failed>>
           \/ /\ Torn(chat) /\ saved = <<>>
              /\ file' = [file EXCEPT ![chat] = Append(Front(f), l)]
              /\ synced' = [synced EXCEPT ![chat] = Min({@, Len(f) - 1})]
              /\ sound' = [sound EXCEPT ![chat] = 0]
              /\ failed' = TRUE /\ UNCHANGED saved
  BY SaveNextFacts
<1> DEFINE g == file'[chat]
<1>7. /\ g = (IF Torn(chat) THEN Append(Front(f), l) ELSE Append(f, l))
      /\ file' = [file EXCEPT ![chat] = g]
      /\ \A c \in Chats : c # chat => file'[c] = file[c]
  BY <1>3, <1>6
<1>8. /\ g \in Seq(Line) /\ Len(g) \in 1..Len(f) + 1 /\ g[Len(g)] = l
      /\ \A i \in 1..Len(g)-1 : g[i] = f[i] /\ i \in 1..Len(f)
      /\ Len(f) <= Len(g) /\ (~Torn(chat) => Len(g) = Len(f) + 1)
  <2>1. CASE Torn(chat)
    <3>1. f # <<>> /\ g = Append(Front(f), l)
      BY <1>7, <2>1 DEF Torn
    <3> DEFINE b == Front(f)
    <3>2. /\ b \in Seq(Line) /\ Len(b) = Len(f) - 1 /\ Len(f) \in Nat \ {0}
          /\ \A i \in 1..Len(f)-1 : b[i] = f[i]
      BY <1>3, <3>1, AllButTheLast
    <3> HIDE DEF b
    <3>3. g = Append(b, l)
      BY <3>1 DEF b
    <3> HIDE DEF g, f
    <3>4. g \in Seq(Line) /\ Len(g) = Len(f) /\ g[Len(g)] = l
      BY <3>2, <3>3
    <3>5. \A i \in 1..Len(g)-1 : g[i] = f[i] /\ i \in 1..Len(f)
      BY <3>2, <3>3, <3>4
    <3> QED
      BY <2>1, <3>2, <3>4, <3>5
  <2>2. CASE ~Torn(chat)
    <3>1. g = Append(f, l)
      BY <1>7, <2>2
    <3> HIDE DEF g, f
    <3>2. g \in Seq(Line) /\ Len(g) = Len(f) + 1 /\ g[Len(g)] = l /\ Len(f) \in Nat
      BY <1>3, <3>1
    <3>3. \A i \in 1..Len(g)-1 : g[i] = f[i] /\ i \in 1..Len(f)
      BY <1>3, <3>1, <3>2
    <3> QED
      BY <3>2, <3>3
  <2> QED
    BY <2>1, <2>2
<1> HIDE DEF g
<1>9. /\ appendCount' = (IF appendCount + 1 = CompactEvery THEN 0 ELSE appendCount + 1)
      /\ appendCount' \in 0..CompactEvery-1
  <2>1. (appendCount + 1) % CompactEvery = IF appendCount + 1 = CompactEvery THEN 0 ELSE appendCount + 1
    BY <1>0, Counting
  <2> QED
    BY <1>0, <1>2, <2>1
<1>10. /\ sound' \in [Chats -> 0..MaxHistory]
       /\ \A c \in Chats : c # chat => sound'[c] = sound[c]
       /\ sound'[chat] = IF Torn(chat) THEN 0 ELSE Min({sound[chat] + 1, MaxHistory})
       /\ sound[chat] \in Nat /\ (~Torn(chat) => sound'[chat] \in 0..sound[chat] + 1)
  <2>1. sound \in [Chats -> 0..MaxHistory] /\ chat \in Chats /\ MaxHistory \in Nat
    BY <1>3
  <2> DEFINE n == Min({sound[chat] + 1, MaxHistory})
  <2>2. sound[chat] \in Nat /\ sound[chat] + 1 \in Nat
    BY <2>1
  <2>3. n \in Nat /\ n <= sound[chat] + 1 /\ n <= MaxHistory
    BY <2>1, <2>2, SmallerOf
  <2>4. sound' = [sound EXCEPT ![chat] = IF Torn(chat) THEN 0 ELSE n]
    BY <1>6
  <2> HIDE DEF n
  <2>5. /\ sound' \in [Chats -> 0..MaxHistory]
        /\ \A c \in Chats : c # chat => sound'[c] = sound[c]
        /\ sound'[chat] = IF Torn(chat) THEN 0 ELSE n
    BY <2>1, <2>3, <2>4
  <2>6. ~Torn(chat) => sound'[chat] \in 0..sound[chat] + 1
    BY <2>2, <2>3, <2>5
  <2> QED
    BY <2>2, <2>5, <2>6 DEF n
<1>11. Typed'
  <2>1. file' \in [Chats -> Seq(Line)]
    BY <1>3, <1>7, <1>8
  <2>2. saved' \in Seq(Kinds) /\ failed' \in BOOLEAN
    <3>1. saved' \in {saved, Append(saved, toSave[1])} /\ failed' \in {failed, TRUE}
      BY <1>6
    <3>2. saved \in Seq(Kinds) /\ Append(saved, toSave[1]) \in Seq(Kinds)
      BY <1>3, <1>5
    <3> QED
      BY <1>1, <3>1, <3>2 DEF Typed
  <2>3. synced' \in [Chats -> Nat]
    <3>1. CASE synced' = synced
      BY <1>3, <3>1
    <3>2. CASE Torn(chat) /\ synced' = [synced EXCEPT ![chat] = Min({@, Len(f) - 1})]
      <4>1. Len(f) - 1 \in Nat
        BY <1>3, <3>2 DEF Torn
      <4>2. Min({synced[chat], Len(f) - 1}) \in Nat
        BY <1>3, <4>1, SmallerOf
      <4> QED
        BY <1>3, <3>2, <4>2
    <3> QED
      BY <1>6, <3>1, <3>2
  <2>4. pc' \in {"save", "compact"}
    BY <1>2
  <2> HIDE DEF f
  <2> QED
    BY <1>1, <1>2, <1>5, <1>9, <1>10, <2>1, <2>2, <2>3, <2>4 DEF Typed
<1>12. Sized'
  <2>1. pc' \in {"compact", "rename"} <=> appendCount' = 0
    BY <1>2
  <2>2. ASSUME Chats = {chat}
        PROVE  Len(g) <= MaxMsgs + Spare + IF appendCount' = 0 THEN CompactEvery ELSE appendCount'
    <3>1. Len(f) <= MaxMsgs + Spare + appendCount
      BY <1>2, <2>2 DEF TurnInv, Sized, Counted
    <3>2. Spare \in Nat /\ MaxMsgs \in Nat
      BY <1>1, SpareFacts, TurnAssumption
    <3>3. Len(f) \in Nat /\ Len(g) \in Nat /\ Len(g) <= Len(f) + 1
      BY <1>3, <1>8
    <3> HIDE DEF f
    <3> QED
      BY <1>3, <1>9, <3>1, <3>2, <3>3
  <2>3. Spare' = Spare
    BY <1>2 DEF Spare
  <2> QED
    BY <1>2, <1>7, <2>1, <2>2, <2>3 DEF Sized, Counted, g
<1>13. Talking' /\ Unmoved'
  BY <1>2 DEF Talking, Unmoved, Saving
<1>14. Halves'
  <2> SUFFICES ASSUME ~trimmed, iter < MaxIter, ~failed'
               PROVE  saved' \o toSave' = turn
    BY <1>2 DEF Halves
  <2>1. ~failed /\ saved' = Append(saved, Head(toSave))
    BY <1>5, <1>6
  <2>2. saved \o toSave = turn
    BY <1>2, <2>1 DEF TurnInv, Halves, Saving
  <2>3. Append(saved, Head(toSave)) \o Tail(toSave) = saved \o toSave
    <3>1. saved \in Seq(Kinds) /\ toSave \in Seq(Kinds) /\ toSave # <<>>
      BY <1>2, <1>3
    <3> QED
      BY <3>1
  <2> QED
    BY <1>2, <2>1, <2>2, <2>3
<1>15. Newest'
  <2>0. /\ EndsAs(f, saved) /\ (~removed => Len(saved) <= Len(f) \/ MaxMsgs <= Len(f))
        /\ MaxMsgs \in Nat
    BY TurnAssumption DEF TurnInv, Newest
  <2>1. CASE Torn(chat)
    <3>1. saved' = <<>> /\ pc' # "rename"
      BY <1>2, <1>6, <2>1
    <3> QED
      BY <1>11, <3>1, NothingSaved
  <2>2. CASE ~Torn(chat)
    <3>1. g = Append(f, l) /\ saved' = Append(saved, toSave[1]) /\ l.kind = toSave[1]
      BY <1>6, <1>7, <2>2
    <3>2. EndsAs(g, saved')
      BY <1>3, <1>5, <2>0, <3>1, EndsAsMore
    <3>3. Len(saved') = Len(saved) + 1 /\ Len(g) = Len(f) + 1 /\ Len(saved) \in Nat /\ Len(f) \in Nat
      BY <1>3, <1>5, <1>8, <2>2, <3>1
    <3>4. ~removed => Len(saved') <= Len(g) \/ MaxMsgs <= Len(g)
      <4> HIDE DEF f
      <4> QED
        BY <2>0, <3>3
    <3> QED
      BY <1>2, <3>2, <3>4 DEF Newest, g
  <2> QED
    BY <2>1, <2>2
<1>16. Aged'
  <2>1. ASSUME ~raced, NEW c \in Chats, NEW i \in 1..Len(file'[c])
        PROVE  file'[c][i].gen = clears[c]
    <3>1. CASE c # chat
      BY <1>7, <2>1, <3>1 DEF TurnInv, Aged
    <3>2. CASE c = chat /\ i = Len(g)
      BY <1>6, <1>8, <3>2 DEF g
    <3>3. CASE c = chat /\ i # Len(g)
      <4>1. i \in 1..Len(g)-1
        BY <1>8, <2>1, <3>3 DEF g
      <4>2. file'[c][i] = f[i] /\ i \in 1..Len(f)
        BY <1>8, <3>3, <4>1 DEF g
      <4> QED
        BY <2>1, <3>3, <4>2 DEF TurnInv, Aged
    <3> QED
      BY <3>1, <3>2, <3>3
  <2>2. pc' # "rename"
    BY <1>2
  <2> QED
    BY <1>2, <2>1, <2>2 DEF Aged
<1>17. Copied'
  BY <1>2 DEF Copied
<1>18. Linked'
  <2>1. Fitting(g, sound'[chat], toSave')
    <3>1. CASE Torn(chat)
      <4>1. sound'[chat] = 0
        BY <1>10, <3>1
      <4> QED
        BY <1>8, <4>1, FittingNone
    <3>2. CASE ~Torn(chat)
      <4>1. /\ g = Append(f, l) /\ l.kind = toSave[1]
        BY <1>6, <1>7, <3>2
      <4>2. sound[chat] \in Nat /\ sound'[chat] \in 0..sound[chat] + 1
        BY <1>10, <3>2
      <4>3. Fitting(f, sound[chat], toSave)
        BY <1>3, <1>4
      <4> HIDE DEF f
      <4> QED
        BY <1>2, <1>3, <1>4, <4>1, <4>2, <4>3, FittingMore
    <3> QED
      BY <3>1, <3>2
  <2>2. ASSUME NEW c \in Chats
        PROVE  Fitting(file'[c], sound'[c], IF c = chat THEN toSave' ELSE <<>>)
    <3>1. CASE c = chat
      BY <2>1, <3>1 DEF g
    <3>2. CASE c # chat
      BY <1>4, <1>7, <1>10, <3>2
    <3> QED
      BY <3>1, <3>2
  <2>3. pc' \in {"save", "compact"}
    BY <1>2
  <2> QED
    BY <1>2, <1>5, <2>2, <2>3 DEF Linked, Saving
<1> QED
  BY <1>11, <1>12, <1>13, <1>14, <1>15, <1>16, <1>17, <1>18 DEF TurnInv

LEMMA AppendFailsInv ==
  ASSUME TurnInv, AppendFails
  PROVE  TurnInv'
<1>1. Typed
  BY DEF TurnInv
<1>2. /\ pc = "save" /\ pc' = "save" /\ toSave # <<>> /\ toSave' = Tail(toSave)
      /\ fails < MaxFails /\ fails' = fails + 1
      /\ sound' = [sound EXCEPT ![chat] = 0] /\ failed' = TRUE
      /\ UNCHANGED <<file, appendCount, tmp, chat, messages, histCount, iter, synced, turn, saved,
                     trimmed, removed, raced, turns, clears, crashes>>
  BY DEF AppendFails, Fails, files, context
<1>3. /\ chat \in Chats /\ toSave \in Seq(Kinds) /\ file \in [Chats -> Seq(Line)]
      /\ sound \in [Chats -> 0..MaxHistory] /\ MaxHistory \in Nat
      /\ fails \in Nat /\ MaxFails \in Nat
  BY <1>1, TurnAssumption DEF Typed
<1>4. /\ LinkedKinds(toSave) /\ toSave[Len(toSave)] # "use"
      /\ \A c \in Chats : Fitting(file[c], sound[c], IF c = chat THEN toSave ELSE <<>>)
  BY <1>2 DEF TurnInv, Linked, Saving
<1>5. /\ toSave' \in Seq(Kinds) /\ LinkedKinds(toSave')
      /\ toSave' # <<>> => toSave'[Len(toSave')] # "use"
  BY <1>2, <1>3, <1>4, TailLinked
<1>6. sound' \in [Chats -> 0..MaxHistory] /\ fails' \in 0..MaxFails /\ failed' \in BOOLEAN
  BY <1>2, <1>3
<1>7. Typed'
  BY <1>1, <1>2, <1>5, <1>6 DEF Typed
<1>8. Sized' /\ Aged' /\ Copied'
  BY <1>2, <1>3, FilesAlone
<1>9. Talking' /\ Unmoved' /\ Halves'
  BY <1>2 DEF Talking, Unmoved, Halves, Saving
<1>10. Newest'
  BY <1>2, SavedStays
<1>11. Linked'
  <2>1. ASSUME NEW c \in Chats
        PROVE  Fitting(file[c], sound'[c], IF c = chat THEN toSave' ELSE <<>>)
    <3>1. CASE c = chat
      <4>1. sound'[c] = 0 /\ file[c] \in Seq(Line)
        BY <1>2, <1>3, <3>1
      <4> QED
        BY <4>1, FittingNone
    <3>2. CASE c # chat
      BY <1>2, <1>3, <1>4, <3>2
    <3> QED
      BY <3>1, <3>2
  <2> QED
    BY <1>2, <1>5, <2>1 DEF Linked, Saving
<1> QED
  BY <1>7, <1>8, <1>9, <1>10, <1>11 DEF TurnInv

LEMMA SaveEndInv ==
  ASSUME TurnInv, SaveEnd
  PROVE  TurnInv'
<1>1. Typed
  BY DEF TurnInv
<1>2. /\ pc = "save" /\ toSave = <<>> /\ pc' = "reply"
      /\ UNCHANGED <<file, appendCount, tmp, chat, messages, histCount, iter, toSave, synced, sound,
                     turn, saved, trimmed, failed, removed, raced, turns, clears, crashes, fails>>
  BY DEF SaveEnd, files, context, marks, said, world
<1>3. Typed'
  BY <1>1, <1>2 DEF Typed
<1>4. Sized' /\ Aged' /\ Copied'
  BY <1>1, <1>2, FilesAlone DEF Typed
<1>5. Talking' /\ Unmoved'
  BY <1>2 DEF Talking, Unmoved, Saving
<1>6. Halves'
  <2>1. ASSUME ~trimmed, iter < MaxIter, ~failed PROVE saved = turn
    <3>1. saved \o <<>> = turn
      BY <1>2, <2>1 DEF TurnInv, Halves, Saving
    <3>2. saved \in Seq(Kinds)
      BY <1>1 DEF Typed
    <3> QED
      BY <3>1, <3>2
  <2> QED
    BY <1>2, <2>1 DEF Halves, Saving
<1>7. Newest'
  BY <1>2, SavedStays
<1>8. Linked'
  <2>1. ASSUME NEW c \in Chats PROVE Fitting(file[c], sound[c], <<>>)
    BY <1>2 DEF TurnInv, Linked
  <2> QED
    BY <1>2, <2>1 DEF Linked, Saving, LinkedKinds
<1> QED
  BY <1>3, <1>4, <1>5, <1>6, <1>7, <1>8 DEF TurnInv
-----------------------------------------------------------------------------
(* The newest lines of a file fit as the file does. *)
LEMMA NewestFacts ==
  ASSUME NEW s \in Seq(Line), NEW m \in Nat
  PROVE  LET t == LastN(s, m)
         IN  /\ t \in Seq(Line) /\ Len(t) = (IF Len(s) <= m THEN Len(s) ELSE m)
             /\ Len(t) \in Nat /\ Len(t) <= Len(s)
             /\ \A i \in 1..Len(t) : /\ Len(s) - Len(t) + i \in 1..Len(s)
                                     /\ t[i] = s[Len(s) - Len(t) + i]
<1> DEFINE t == LastN(s, m)
<1>1. /\ t \in Seq(Line) /\ Len(t) = (IF Len(s) <= m THEN Len(s) ELSE m)
      /\ Len(t) <= Len(s) /\ \A i \in 1..Len(t) : s[Len(s) - Len(t) + i] = t[i]
  BY LastOnes DEF EndsWith
<1> HIDE DEF t
<1>2. Len(t) \in Nat /\ Len(s) \in Nat
  BY <1>1
<1>3. \A i \in 1..Len(t) : Len(s) - Len(t) + i \in 1..Len(s)
  BY <1>1, <1>2
<1> QED
  BY <1>1, <1>2, <1>3 DEF t

LEMMA NewestLinked ==
  ASSUME NEW s \in Seq(Line), NEW m \in Nat \ {0}, NEW n \in Nat, NEW ks, Fitting(s, n, ks)
  PROVE  Fitting(LastN(s, m), n, ks)
<1> DEFINE t == LastN(s, m)
           d == Len(s) - Len(t)
<1>1. /\ t \in Seq(Line) /\ Len(t) \in Nat /\ Len(t) <= Len(s) /\ Len(s) \in Nat
      /\ \A i \in 1..Len(t) : d + i \in 1..Len(s) /\ t[i] = s[d + i]
      /\ Len(s) # 0 => Len(t) # 0
  BY NewestFacts
<1> HIDE DEF t
<1>2. d \in Nat /\ d + Len(t) = Len(s)
  BY <1>1
<1> HIDE DEF d
<1>3. WholeLines(t, n)
  <2> SUFFICES ASSUME NEW i \in 1..Len(t), i > Len(t) - n PROVE t[i].kind \in Kinds
    BY DEF WholeLines
  <2>1. d + i > Len(s) - n
    BY <1>1, <1>2
  <2> QED
    BY <1>1, <2>1 DEF Fitting, WholeLines
<1>4. LinkedLines(t, n)
  <2> SUFFICES ASSUME NEW i \in 1..Len(t)-1, i > Len(t) - n
               PROVE  t[i].kind = "use" <=> t[i + 1].kind = "result"
    BY DEF LinkedLines
  <2>1. /\ i \in 1..Len(t) /\ i + 1 \in 1..Len(t) /\ d + (i + 1) = (d + i) + 1
        /\ d + i \in 1..Len(s)-1 /\ d + i > Len(s) - n
    BY <1>1, <1>2
  <2>2. t[i] = s[d + i] /\ t[i + 1] = s[(d + i) + 1]
    BY <1>1, <2>1
  <2>3. s[d + i].kind = "use" <=> s[(d + i) + 1].kind = "result"
    BY <2>1 DEF Fitting, LinkedLines
  <2> QED
    BY <2>2, <2>3
<1>5. Awaits(t, n, ks)
  <2>1. CASE s = <<>>
    <3>1. t = <<>>
      BY <1>1, <1>2, <2>1
    <3> QED
      BY <3>1 DEF Awaits
  <2>2. CASE s # <<>>
    <3>1. Len(t) \in 1..Len(t)
      BY <1>1, <2>2
    <3>2. t[Len(t)] = s[Len(s)]
      BY <1>1, <1>2, <3>1
    <3> QED
      BY <2>2, <3>2 DEF Fitting, Awaits
  <2> QED
    BY <2>1, <2>2
<1> QED
  BY <1>3, <1>4, <1>5 DEF Fitting, t

LEMMA EndsAsNewest ==
  ASSUME NEW s \in Seq(Line), NEW m \in Nat, NEW ks, EndsAs(s, ks)
  PROVE  EndsAs(LastN(s, m), ks)
<1> DEFINE t == LastN(s, m)
<1>1. /\ Len(t) \in Nat /\ Len(t) <= Len(s) /\ Len(s) \in Nat
      /\ \A i \in 1..Len(t) : t[i] = s[Len(s) - Len(t) + i]
  BY NewestFacts
<1> HIDE DEF t
<1>2. ASSUME NEW i \in 0..Len(ks)-1, i < Len(t) PROVE t[Len(t) - i].kind = ks[Len(ks) - i]
  <2>1. /\ i < Len(s) /\ Len(t) - i \in 1..Len(t)
        /\ Len(s) - Len(t) + (Len(t) - i) = Len(s) - i
    BY <1>1, <1>2
  <2> QED
    BY <1>1, <2>1 DEF EndsAs
<1> QED
  BY <1>2 DEF EndsAs, t

LEMMA CompactReadInv ==
  ASSUME TurnInv, CompactRead
  PROVE  TurnInv'
<1> DEFINE f == file[chat]
<1>1. Typed
  BY DEF TurnInv
<1>2. /\ pc = "compact" /\ pc' \in {"save", "rename"}
      /\ UNCHANGED <<file, appendCount, chat, messages, histCount, iter, toSave, synced, sound,
                     turn, saved, trimmed, failed, removed, raced, turns, clears, crashes, fails>>
  BY DEF CompactRead, context, marks, said, world
<1>3. chat \in Chats /\ f \in Seq(Line) /\ MaxMsgs \in Nat \ {0} /\ sound[chat] \in Nat
  BY <1>1, TurnAssumption DEF Typed
<1>4. /\ LastN(f, MaxMsgs) \in Seq(Line)
      /\ Len(LastN(f, MaxMsgs)) = (IF Len(f) <= MaxMsgs THEN Len(f) ELSE MaxMsgs)
      /\ \A i \in 1..Len(LastN(f, MaxMsgs)) :
           /\ Len(f) - Len(LastN(f, MaxMsgs)) + i \in 1..Len(f)
           /\ LastN(f, MaxMsgs)[i] = f[Len(f) - Len(LastN(f, MaxMsgs)) + i]
  BY <1>3, NewestFacts
<1>5. pc' = "rename" => tmp' = LastN(f, MaxMsgs) /\ ~(Len(f) <= MaxMsgs)
  BY DEF CompactRead, Kept
<1>6. pc' = "save" => tmp' = tmp /\ Len(f) <= MaxMsgs
  BY DEF CompactRead
<1>7. pc' = "rename" => Len(tmp') = MaxMsgs
  BY <1>4, <1>5
<1>8. Typed'
  <2>1. tmp' \in Seq(Line)
    BY <1>1, <1>2, <1>4, <1>5, <1>6 DEF Typed
  <2> QED
    BY <1>1, <1>2, <2>1 DEF Typed
<1>9. Sized'
  <2>1. appendCount = 0 /\ Spare \in Nat /\ Spare' = Spare
    BY <1>1, <1>2, SpareFacts DEF TurnInv, Sized
  <2>2. ASSUME Chats = {chat} PROVE Len(f) <= MaxMsgs + Spare + Counted'
    <3>1. CASE pc' = "rename"
      BY <1>2, <2>2, <3>1 DEF TurnInv, Sized, Counted
    <3>2. CASE pc' = "save"
      <4>1. Len(f) <= MaxMsgs /\ Len(f) \in Nat /\ MaxMsgs \in Nat
        BY <1>3, <1>6, <3>2
      <4> HIDE DEF f
      <4>2. Len(f) <= MaxMsgs + Spare + 0
        BY <2>1, <4>1
      <4> QED
        BY <1>2, <2>1, <3>2, <4>2 DEF Counted
    <3> QED
      BY <1>2, <3>1, <3>2
  <2> QED
    BY <1>2, <1>7, <2>1, <2>2 DEF Sized
<1>10. Talking' /\ Unmoved' /\ Halves'
  BY <1>2 DEF TurnInv, Talking, Unmoved, Halves, Saving
<1>11. Newest'
  <2>1. EndsAs(f, saved) /\ (~removed => Len(saved) <= Len(f) \/ MaxMsgs <= Len(f))
    BY DEF TurnInv, Newest
  <2>2. ASSUME pc' = "rename" PROVE EndsAs(tmp', saved)
    BY <1>3, <1>5, <2>1, <2>2, EndsAsNewest
  <2> QED
    BY <1>2, <2>1, <2>2 DEF Newest
<1>12. Aged'
  <2>1. ASSUME ~raced, pc' = "rename", NEW i \in 1..Len(tmp') PROVE tmp'[i].gen = clears[chat]
    <3>1. tmp' = LastN(f, MaxMsgs)
      BY <1>5, <2>1
    <3>2. PICK j \in 1..Len(f) : tmp'[i] = f[j]
      BY <1>4, <2>1, <3>1
    <3> QED
      BY <1>3, <2>1, <3>2 DEF TurnInv, Aged
  <2> QED
    BY <1>2, <2>1 DEF TurnInv, Aged
<1>13. Copied'
  BY <1>2, <1>5 DEF Copied
<1>14. Linked'
  <2>1. /\ \A c \in Chats : Fitting(file[c], sound[c], IF c = chat THEN toSave ELSE <<>>)
        /\ LinkedKinds(toSave) /\ (toSave # <<>> => toSave[Len(toSave)] # "use")
    BY <1>2 DEF TurnInv, Linked, Saving
  <2>2. ASSUME pc' = "rename" PROVE Fitting(tmp', sound[chat], toSave)
    <3>1. Fitting(f, sound[chat], toSave)
      BY <1>3, <2>1
    <3> QED
      BY <1>3, <1>5, <2>2, <3>1, NewestLinked
  <2> QED
    BY <1>2, <2>1, <2>2 DEF Linked, Saving
<1> QED
  BY <1>8, <1>9, <1>10, <1>11, <1>12, <1>13, <1>14 DEF TurnInv

LEMMA CompactRenameInv ==
  ASSUME TurnInv, CompactRename
  PROVE  TurnInv'
<1>1. Typed
  BY DEF TurnInv
<1>2. /\ pc = "rename" /\ pc' = "save" /\ tmp' = <<>>
      /\ file' = [file EXCEPT ![chat] = tmp] /\ synced' = [synced EXCEPT ![chat] = Len(tmp)]
      /\ UNCHANGED <<appendCount, chat, messages, histCount, iter, toSave, sound, turn, saved,
                     trimmed, failed, removed, raced, turns, clears, crashes, fails>>
  BY DEF CompactRename, context, said, world
<1>3. /\ chat \in Chats /\ file \in [Chats -> Seq(Line)] /\ tmp \in Seq(Line)
      /\ synced \in [Chats -> Nat] /\ Len(tmp) = MaxMsgs /\ MaxMsgs \in Nat
  BY <1>1, <1>2, TurnAssumption DEF Typed, TurnInv, Sized
<1>4. file'[chat] = tmp /\ \A c \in Chats : c # chat => file'[c] = file[c]
  BY <1>2, <1>3
<1>5. Typed'
  <2>1. file' \in [Chats -> Seq(Line)] /\ tmp' \in Seq(Line) /\ synced' \in [Chats -> Nat]
    BY <1>2, <1>3
  <2> QED
    BY <1>1, <1>2, <2>1 DEF Typed
<1>6. Sized'
  <2>1. appendCount = 0 /\ Spare \in Nat /\ Spare' = Spare
    BY <1>1, <1>2, SpareFacts DEF TurnInv, Sized
  <2>2. Len(file'[chat]) <= MaxMsgs + Spare + appendCount
    BY <1>3, <1>4, <2>1
  <2> QED
    BY <1>2, <2>1, <2>2 DEF Sized, Counted
<1>7. Talking' /\ Unmoved' /\ Copied' /\ Halves'
  BY <1>2 DEF TurnInv, Talking, Unmoved, Copied, Halves, Saving
<1>8. Newest'
  <2>1. EndsAs(tmp, saved) /\ MaxMsgs <= Len(tmp)
    BY <1>2, <1>3 DEF TurnInv, Newest
  <2> QED
    BY <1>2, <1>4, <2>1 DEF Newest
<1>9. Aged'
  <2>1. ASSUME ~raced, NEW c \in Chats, NEW i \in 1..Len(file'[c])
        PROVE  file'[c][i].gen = clears[c]
    BY <1>2, <1>4, <2>1 DEF TurnInv, Aged
  <2> QED
    BY <1>2, <2>1 DEF Aged
<1>10. Linked'
  <2>1. /\ \A c \in Chats : Fitting(file[c], sound[c], IF c = chat THEN toSave ELSE <<>>)
        /\ LinkedKinds(toSave) /\ (toSave # <<>> => toSave[Len(toSave)] # "use")
        /\ Fitting(tmp, sound[chat], toSave)
    BY <1>2 DEF TurnInv, Linked, Saving
  <2>2. ASSUME NEW c \in Chats
        PROVE  Fitting(file'[c], sound[c], IF c = chat THEN toSave ELSE <<>>)
    BY <1>4, <2>1
  <2> QED
    BY <1>2, <2>1, <2>2 DEF Linked, Saving
<1> QED
  BY <1>5, <1>6, <1>7, <1>8, <1>9, <1>10 DEF TurnInv

LEMMA CompactFailsInv ==
  ASSUME TurnInv, CompactFails
  PROVE  TurnInv'
<1>1. Typed
  BY DEF TurnInv
<1>2. /\ pc \in {"compact", "rename"} /\ pc' = "save" /\ tmp' = <<>>
      /\ fails < MaxFails /\ fails' = fails + 1
      /\ UNCHANGED <<file, appendCount, chat, messages, histCount, iter, toSave, synced, sound,
                     turn, saved, trimmed, failed, removed, raced, turns, clears, crashes>>
  BY DEF CompactFails, Fails, context, marks, said
<1>3. /\ chat \in Chats /\ file[chat] \in Seq(Line) /\ MaxMsgs \in Nat /\ CompactEvery \in Nat
      /\ fails \in Nat /\ MaxFails \in Nat
  BY <1>1, TurnAssumption DEF Typed
<1>4. Typed'
  <2>1. fails' \in 0..MaxFails /\ tmp' \in Seq(Line)
    BY <1>2, <1>3
  <2> QED
    BY <1>1, <1>2, <2>1 DEF Typed
<1>5. Sized'
  <2>1. appendCount = 0 /\ Spare \in Nat /\ Spare' = Spare + CompactEvery
    BY <1>1, <1>2, SpareFacts DEF TurnInv, Sized
  <2>2. ASSUME Chats = {chat}
        PROVE  Len(file[chat]) <= MaxMsgs + Spare' + appendCount
    <3>1. Len(file[chat]) <= MaxMsgs + Spare + CompactEvery
      BY <1>2, <2>2 DEF TurnInv, Sized, Counted
    <3> DEFINE n == Len(file[chat])
    <3>2. n \in Nat /\ n <= MaxMsgs + Spare + CompactEvery
      BY <1>3, <3>1
    <3> HIDE DEF n
    <3>3. n <= MaxMsgs + Spare' + appendCount
      BY <1>3, <2>1, <3>2
    <3> QED
      BY <3>3 DEF n
  <2> QED
    BY <1>2, <2>1, <2>2 DEF Sized, Counted
<1>6. Talking' /\ Unmoved' /\ Copied' /\ Halves' /\ Aged'
  BY <1>2 DEF TurnInv, Talking, Unmoved, Copied, Halves, Aged, Saving
<1>7. Newest'
  BY <1>2 DEF TurnInv, Newest
<1>8. Linked'
  BY <1>2 DEF TurnInv, Linked, Saving
<1> QED
  BY <1>4, <1>5, <1>6, <1>7, <1>8 DEF TurnInv
-----------------------------------------------------------------------------
LEMMA ReplyInv ==
  ASSUME TurnInv, Reply
  PROVE  TurnInv'
<1>1. Typed
  BY DEF TurnInv
<1>2. /\ pc = "reply" /\ pc' = "idle" /\ messages' = <<>> /\ histCount' = 0 /\ iter' = 0
      /\ turn' = <<>> /\ saved' = <<>> /\ trimmed' = FALSE /\ failed' = FALSE /\ removed' = FALSE
      /\ UNCHANGED <<file, appendCount, tmp, chat, toSave, synced, sound, raced, turns, clears,
                     crashes, fails>>
  BY DEF Reply, NoTurn, files, marks, world
<1>3. toSave = <<>>
  BY <1>2 DEF TurnInv, Talking, Saving
<1>4. Typed'
  <2>1. 0 \in 0..MaxHistory /\ 0 \in 0..MaxIter /\ <<>> \in Seq(Kinds)
    BY TurnAssumption
  <2>2. /\ histCount' \in 0..MaxHistory /\ iter' \in 0..MaxIter
        /\ messages' \in Seq(Kinds) /\ turn' \in Seq(Kinds) /\ saved' \in Seq(Kinds)
        /\ trimmed' \in BOOLEAN /\ failed' \in BOOLEAN /\ removed' \in BOOLEAN
    BY <1>2, <2>1
  <2> QED
    BY <1>1, <1>2, <2>2 DEF Typed
<1>5. Sized' /\ Aged' /\ Copied'
  BY <1>1, <1>2, FilesAlone DEF Typed
<1>6. Talking' /\ Unmoved' /\ Halves'
  BY <1>2, <1>3 DEF Talking, Unmoved, Halves, Saving
<1>7. Newest'
  BY <1>2, <1>4, NothingSaved
<1>8. Linked'
  <2>1. ~Saving /\ ~Saving' /\ pc' \notin {"trim", "llm"}
    BY <1>2 DEF Saving
  <2> QED
    BY <1>2, <1>3, <2>1, LinkedAgain
<1> QED
  BY <1>4, <1>5, <1>6, <1>7, <1>8 DEF TurnInv

LEMMA ClearInv ==
  ASSUME TurnInv, NEW c \in Chats, Clear(c)
  PROVE  TurnInv'
<1>1. Typed
  BY DEF TurnInv
<1>2. /\ file' = [file EXCEPT ![c] = <<>>] /\ clears[c] < MaxClears
      /\ synced' = [synced EXCEPT ![c] = 0]
      /\ clears' = [clears EXCEPT ![c] = @ + 1]
      /\ removed' = (removed \/ (pc # "idle" /\ chat = c))
      /\ raced' = (raced \/ (pc = "rename" /\ chat = c))
      /\ UNCHANGED <<appendCount, tmp, pc, chat, messages, histCount, iter, toSave, sound, turn,
                     saved, trimmed, failed, turns, crashes, fails>>
  BY DEF Clear, Removed, context
<1>3. /\ chat \in Chats /\ file \in [Chats -> Seq(Line)] /\ synced \in [Chats -> Nat]
      /\ clears \in [Chats -> 0..MaxClears] /\ MaxClears \in Nat
      /\ sound \in [Chats -> 0..MaxHistory] /\ MaxHistory \in Nat
  BY <1>1, TurnAssumption DEF Typed
<1>4. /\ file'[c] = <<>> /\ \A d \in Chats : d # c => file'[d] = file[d] /\ clears'[d] = clears[d]
  BY <1>2, <1>3
<1>5. Typed'
  <2>1. file' \in [Chats -> Seq(Line)] /\ synced' \in [Chats -> Nat]
    BY <1>2, <1>3
  <2>2. clears[c] + 1 \in 0..MaxClears
    BY <1>2, <1>3
  <2>3. clears' \in [Chats -> 0..MaxClears]
    BY <1>2, <1>3, <2>2
  <2>4. raced' \in BOOLEAN /\ removed' \in BOOLEAN
    BY <1>1, <1>2 DEF Typed
  <2> QED
    BY <1>1, <1>2, <2>1, <2>3, <2>4 DEF Typed
<1>6. Sized'
  <2>1. ASSUME Chats = {chat}
        PROVE  Len(file'[chat]) <= MaxMsgs + Spare + Counted
    <3>1. Len(file'[chat]) = 0
      BY <1>4, <2>1
    <3>2. Spare \in Nat /\ MaxMsgs \in Nat /\ Counted \in Nat
      BY <1>1, SpareFacts, TurnAssumption DEF Typed, Counted
    <3> QED
      BY <3>1, <3>2
  <2>2. Spare' = Spare /\ Counted' = Counted
    BY <1>2 DEF Spare, Counted
  <2> QED
    BY <1>2, <2>1, <2>2 DEF TurnInv, Sized
<1>7. Talking' /\ Unmoved' /\ Halves'
  BY <1>2 DEF TurnInv, Talking, Unmoved, Halves, Saving
<1>8. Newest'
  <2>1. CASE chat # c
    <3>1. file'[chat] = file[chat] /\ (removed <=> removed')
      <4>1. file'[chat] = file[chat]
        BY <1>3, <1>4, <2>1
      <4>2. removed <=> removed'
        BY <1>2, <2>1
      <4> QED
        BY <4>1, <4>2
    <3> QED
      BY <1>2, <3>1 DEF TurnInv, Newest
  <2>2. CASE chat = c
    <3>1. EndsAs(file'[chat], saved)
      BY <1>4, <2>2 DEF EndsAs
    <3>2. pc = "idle" => Len(saved) <= Len(file'[chat])
      BY <1>4, <2>2 DEF TurnInv, Talking
    <3>3. removed' \/ pc = "idle"
      BY <1>2, <2>2
    <3> QED
      BY <1>2, <3>1, <3>2, <3>3 DEF TurnInv, Newest
  <2> QED
    BY <2>1, <2>2
<1>9. Aged'
  <2>1. ASSUME ~raced', NEW d \in Chats, NEW i \in 1..Len(file'[d])
        PROVE  file'[d][i].gen = clears'[d]
    <3>1. ~raced
      BY <1>2, <2>1
    <3>2. d # c
      BY <1>4, <2>1
    <3>3. file'[d] = file[d] /\ clears'[d] = clears[d]
      BY <1>4, <3>2
    <3> QED
      BY <2>1, <3>1, <3>3 DEF TurnInv, Aged
  <2>2. ASSUME ~raced', pc = "rename", NEW i \in 1..Len(tmp) PROVE tmp[i].gen = clears'[chat]
    BY <1>2, <1>3, <1>4, <2>2 DEF TurnInv, Aged
  <2> QED
    BY <1>2, <2>1, <2>2 DEF Aged
<1>10. Copied'
  <2>1. pc = "rename" => file[chat] = <<>> \/ tmp = LastN(file[chat], MaxMsgs)
    BY DEF TurnInv, Copied
  <2>2. file'[chat] \in {<<>>, file[chat]}
    BY <1>3, <1>4
  <2> QED
    BY <1>2, <2>1, <2>2 DEF Copied
<1>11. Linked'
  <2>1. Saving' <=> Saving
    BY <1>2 DEF Saving
  <2>2. ASSUME NEW d \in Chats
        PROVE  Fitting(file'[d], sound[d], IF Saving /\ d = chat THEN toSave ELSE <<>>)
    <3>1. CASE d # c
      BY <1>4, <3>1 DEF TurnInv, Linked
    <3>2. CASE d = c
      <4>1. file'[d] = <<>> /\ sound[d] \in Nat
        BY <1>3, <1>4, <3>2
      <4> QED
        BY <4>1, FittingEmpty
    <3> QED
      BY <3>1, <3>2
  <2> QED
    BY <1>2, <2>1, <2>2 DEF TurnInv, Linked
<1> QED
  BY <1>5, <1>6, <1>7, <1>8, <1>9, <1>10, <1>11 DEF TurnInv

(* What a power loss may leave of the files. *)
LEMMA BegunFacts ==
  ASSUME TurnInv, NEW c \in Chats
  PROVE  /\ Begun(c) \in Seq(Line) /\ Len(file[c]) <= Len(Begun(c))
         /\ Len(Begun(c)) = Len(file[c]) \/ (pc = "save" /\ Len(Begun(c)) = Len(file[c]) + 1)
         /\ \A i \in 1..Len(file[c]) : Begun(c)[i] = file[c][i]
         /\ ~raced => \A i \in 1..Len(Begun(c)) : Begun(c)[i].gen = clears[c]
<1>1. /\ file[c] \in Seq(Line) /\ Len(file[c]) \in Nat /\ toSave \in Seq(Kinds)
      /\ clears[c] \in 0..MaxClears
  BY DEF TurnInv, Typed
<1>2. ~raced => \A i \in 1..Len(file[c]) : file[c][i].gen = clears[c]
  BY DEF TurnInv, Aged
<1>3. CASE Begun(c) = file[c]
  BY <1>1, <1>2, <1>3
<1>4. CASE Begun(c) # file[c]
  <2> DEFINE l == Written(Head(toSave))
  <2>1. c = chat /\ pc = "save" /\ toSave # <<>> /\ Begun(c) = Append(file[c], l)
    BY <1>4 DEF Begun
  <2>2. Head(toSave) \in Kinds
    BY <1>1, <2>1
  <2>3. l \in Line /\ l.gen = clears[c]
    BY <1>1, <2>1, <2>2 DEF Written, Line
  <2> HIDE DEF l
  <2> DEFINE f == file[c]
             g == Append(f, l)
  <2>4. /\ g \in Seq(Line) /\ Len(g) = Len(f) + 1 /\ g[Len(f) + 1] = l
        /\ \A i \in 1..Len(f) : g[i] = f[i]
    BY <1>1, <2>3
  <2>5. Begun(c) = g /\ Len(f) \in Nat /\ (~raced => \A i \in 1..Len(f) : f[i].gen = clears[c])
    BY <1>1, <1>2, <2>1
  <2>6. pc = "save"
    BY <2>1
  <2>7. ~raced => \A i \in 1..Len(g) : g[i].gen = clears[c]
    <3> HIDE DEF g, f
    <3> SUFFICES ASSUME ~raced, NEW i \in 1..Len(g) PROVE g[i].gen = clears[c]
      OBVIOUS
    <3>1. i \in 1..Len(f) \/ i = Len(f) + 1
      BY <2>4, <2>5
    <3> QED
      BY <2>3, <2>4, <2>5, <3>1
  <2> HIDE DEF g
  <2> QED
    BY <2>4, <2>5, <2>6, <2>7
<1> QED
  BY <1>3, <1>4

LEMMA RemainsFacts ==
  ASSUME TurnInv, NEW c \in Chats, NEW n \in 0..Len(file[c]), NEW tears \in BOOLEAN,
         tears => n < Len(Begun(c))
  PROVE  /\ Remains(c, n, tears) \in Seq(Line) /\ Len(Remains(c, n, tears)) <= Len(Begun(c))
         /\ \A i \in 1..Len(Remains(c, n, tears)) : Remains(c, n, tears)[i].gen = Begun(c)[i].gen
<1> DEFINE f == file[c]
           b == Begun(c)
           r == SubSeq(f, 1, n)
           l == [kind |-> "torn", gen |-> b[n + 1].gen]
<1>1. /\ f \in Seq(Line) /\ Len(f) \in Nat /\ b \in Seq(Line) /\ Len(b) \in Nat /\ Len(f) <= Len(b)
      /\ \A i \in 1..Len(f) : b[i] = f[i]
  <2>1. f \in Seq(Line)
    BY DEF TurnInv, Typed
  <2>2. b \in Seq(Line) /\ Len(f) <= Len(b) /\ \A i \in 1..Len(f) : b[i] = f[i]
    BY BegunFacts
  <2> HIDE DEF f, b
  <2> QED
    BY <2>1, <2>2
<1>2. n \in Nat /\ n <= Len(f)
  BY <1>1
<1>3. Remains(c, n, tears) = IF tears THEN Append(r, l) ELSE r
  BY DEF Remains
<1> HIDE DEF f, b
<1>4. r \in Seq(Line) /\ Len(r) = n /\ \A i \in 1..n : r[i] = b[i]
  <2>1. \A i \in 1..n : i \in 1..Len(f) /\ f[i] \in Line
    BY <1>1, <1>2
  <2> QED
    BY <1>1, <1>2, <2>1
<1> HIDE DEF r
<1>5. CASE ~tears
  <2>1. Remains(c, n, tears) = r
    BY <1>3, <1>5
  <2>2. Len(r) <= Len(b) /\ \A i \in 1..Len(r) : r[i].gen = b[i].gen
    BY <1>1, <1>2, <1>4
  <2> QED
    BY <1>4, <2>1, <2>2 DEF b
<1>6. CASE tears
  <2>1. Remains(c, n, tears) = Append(r, l) /\ n < Len(b)
    BY <1>3, <1>6 DEF b
  <2>2. n + 1 \in 1..Len(b)
    BY <1>1, <1>2, <2>1
  <2>3. l \in Line /\ l.gen = b[n + 1].gen
    <3>1. b[n + 1] \in Line
      BY <1>1, <2>2
    <3>2. b[n + 1].gen \in 0..MaxClears
      BY <3>1 DEF Line
    <3> QED
      BY <3>2 DEF Line
  <2> HIDE DEF l
  <2> DEFINE g == Append(r, l)
  <2>4. /\ g \in Seq(Line) /\ Len(g) = n + 1 /\ g[n + 1] = l
        /\ \A i \in 1..n : g[i] = r[i]
    BY <1>2, <1>4, <2>3
  <2> HIDE DEF g
  <2>5. ASSUME NEW i \in 1..Len(g) PROVE g[i].gen = b[i].gen
    <3>1. i \in 1..n \/ i = n + 1
      BY <1>2, <2>4
    <3> QED
      BY <1>4, <2>3, <2>4, <3>1
  <2>6. Len(g) <= Len(b)
    BY <1>1, <1>2, <2>2, <2>4
  <2>7. Remains(c, n, tears) = g
    BY <2>1 DEF g
  <2> QED
    BY <2>4, <2>5, <2>6, <2>7 DEF b
<1> QED
  BY <1>5, <1>6

LEMMA CrashFacts ==
  ASSUME TurnInv, Crash, NEW c \in Chats
  PROVE  /\ file'[c] \in Seq(Line) /\ Len(file'[c]) <= Len(Begun(c))
         /\ \A i \in 1..Len(file'[c]) : file'[c][i].gen = Begun(c)[i].gen
<1>1. PICK left \in [Chats -> 0..Max({Len(file[d]) : d \in Chats})], torn \in SUBSET Chats :
        /\ \A d \in Chats : left[d] \in synced[d]..Len(file[d])
        /\ \A d \in torn : left[d] < Len(Begun(d))
        /\ file' = [d \in Chats |-> Remains(d, left[d], d \in torn)]
  BY DEF Crash
<1>2. synced[c] \in Nat /\ Len(file[c]) \in Nat
  BY DEF TurnInv, Typed
<1>3. left[c] \in 0..Len(file[c]) /\ (c \in torn) \in BOOLEAN
  BY <1>1, <1>2
<1>4. file'[c] = Remains(c, left[c], c \in torn)
  BY <1>1
<1>5. (c \in torn) => left[c] < Len(Begun(c))
  BY <1>1
<1> DEFINE n == left[c]
           tears == c \in torn
<1>6. n \in 0..Len(file[c]) /\ tears \in BOOLEAN /\ (tears => n < Len(Begun(c)))
      /\ file'[c] = Remains(c, n, tears)
  BY <1>3, <1>4, <1>5
<1> HIDE DEF n, tears
<1> QED
  BY <1>6, RemainsFacts

LEMMA CrashInv ==
  ASSUME TurnInv, Crash
  PROVE  TurnInv'
<1>1. Typed
  BY DEF TurnInv
<1>2. /\ crashes < MaxCrashes /\ crashes' = crashes + 1
      /\ synced' = [c \in Chats |-> Len(file'[c])] /\ sound' = [c \in Chats |-> 0]
      /\ appendCount' = 0 /\ tmp' = <<>> /\ pc' = "idle" /\ messages' = <<>> /\ histCount' = 0
      /\ iter' = 0 /\ toSave' = <<>> /\ turn' = <<>> /\ saved' = <<>>
      /\ trimmed' = FALSE /\ failed' = FALSE /\ removed' = FALSE
      /\ UNCHANGED <<chat, raced, turns, clears, fails>>
  BY DEF Crash, NoTurn
<1>3. /\ chat \in Chats /\ file \in [Chats -> Seq(Line)] /\ crashes \in Nat
      /\ CompactEvery \in Nat \ {0} /\ MaxMsgs \in Nat /\ appendCount \in 0..CompactEvery-1
  BY <1>1, TurnAssumption DEF Typed
<1>4. file' \in [Chats -> Seq(Line)] /\ synced' \in [Chats -> Nat]
  <2>1. \E left, torn : file' = [c \in Chats |-> Remains(c, left[c], c \in torn)]
    BY DEF Crash
  <2>2. \A c \in Chats : file'[c] \in Seq(Line) /\ Len(file'[c]) \in Nat
    BY CrashFacts
  <2> QED
    BY <1>2, <2>1, <2>2
<1>5. Typed'
  <2>1. crashes' \in 0..MaxCrashes
    BY <1>2, <1>3, TurnAssumption
  <2>2. 0 \in 0..MaxHistory /\ 0 \in 0..MaxIter /\ 0 \in 0..CompactEvery-1
        /\ <<>> \in Seq(Kinds) /\ <<>> \in Seq(Line)
    BY TurnAssumption
  <2>3. /\ histCount' \in 0..MaxHistory /\ iter' \in 0..MaxIter /\ appendCount' \in 0..CompactEvery-1
        /\ messages' \in Seq(Kinds) /\ turn' \in Seq(Kinds) /\ saved' \in Seq(Kinds)
        /\ toSave' \in Seq(Kinds) /\ tmp' \in Seq(Line)
        /\ trimmed' \in BOOLEAN /\ failed' \in BOOLEAN /\ removed' \in BOOLEAN
    BY <1>2, <2>2
  <2>4. sound' \in [Chats -> 0..MaxHistory]
    BY <1>2, <2>2
  <2> QED
    BY <1>1, <1>2, <1>4, <2>1, <2>3, <2>4 DEF Typed
<1>6. Sized'
  <2>1. ASSUME Chats = {chat} PROVE Len(file'[chat]) <= MaxMsgs + Spare' + 0
    <3>1. Spare \in Nat /\ Spare' = Spare + CompactEvery
      BY <1>1, <1>2, SpareFacts
    <3>2. /\ Counted \in Nat /\ Counted <= CompactEvery /\ (pc = "save" => Counted + 1 <= CompactEvery)
      BY <1>3 DEF Counted
    <3>3. Len(file[chat]) <= MaxMsgs + Spare + Counted
      BY <2>1 DEF TurnInv, Sized
    <3>4. /\ Len(file'[chat]) <= Len(Begun(chat))
          /\ Len(Begun(chat)) = Len(file[chat])
               \/ (pc = "save" /\ Len(Begun(chat)) = Len(file[chat]) + 1)
      BY <1>3, BegunFacts, CrashFacts
    <3> DEFINE n == Len(file'[chat])
               b == Len(Begun(chat))
               m == Len(file[chat])
    <3>5. /\ n \in Nat /\ b \in Nat /\ m \in Nat /\ n <= b /\ m <= MaxMsgs + Spare + Counted
          /\ b = m \/ (pc = "save" /\ b = m + 1)
      BY <1>3, <1>4, <3>3, <3>4, BegunFacts
    <3> HIDE DEF n, b, m
    <3>6. n <= MaxMsgs + Spare' + 0
      BY <1>3, <3>1, <3>2, <3>5
    <3> QED
      BY <3>6 DEF n
  <2> QED
    BY <1>2, <2>1 DEF Sized, Counted
<1>7. Talking' /\ Unmoved' /\ Copied' /\ Halves'
  BY <1>2 DEF Talking, Unmoved, Copied, Halves, Saving
<1>8. Newest'
  BY <1>2, <1>5, NothingSaved
<1>9. Aged'
  <2>1. ASSUME ~raced, NEW c \in Chats, NEW i \in 1..Len(file'[c])
        PROVE  file'[c][i].gen = clears[c]
    <3>1. file'[c][i].gen = Begun(c)[i].gen /\ Len(file'[c]) <= Len(Begun(c))
      BY CrashFacts
    <3>2. Len(Begun(c)) \in Nat /\ Len(file'[c]) \in Nat
      BY <1>4, BegunFacts
    <3>3. i \in 1..Len(Begun(c))
      BY <3>1, <3>2
    <3> QED
      BY <2>1, <3>1, <3>3, BegunFacts
  <2> QED
    BY <1>2, <2>1 DEF Aged
<1>10. Linked'
  <2>1. ASSUME NEW c \in Chats PROVE Fitting(file'[c], sound'[c], <<>>)
    <3>1. sound'[c] = 0 /\ file'[c] \in Seq(Line)
      BY <1>2, <1>4
    <3> QED
      BY <3>1, FittingNone
  <2>2. LinkedKinds(<<>>)
    BY DEF LinkedKinds
  <2> QED
    BY <1>2, <2>1, <2>2 DEF Linked, Saving
<1> QED
  BY <1>5, <1>6, <1>7, <1>8, <1>9, <1>10 DEF TurnInv

LEMMA StutterInv == ASSUME TurnInv, UNCHANGED vars PROVE TurnInv'
<1>1. UNCHANGED <<file, appendCount, tmp, pc, chat, messages, histCount, iter, toSave, synced, sound,
                  turn, saved, trimmed, failed, removed, raced, turns, clears, crashes, fails>>
  BY DEF vars, files, context, marks, said, world
<1>2. Typed' /\ Talking' /\ Unmoved'
  BY <1>1 DEF TurnInv, Typed, Talking, Unmoved, Saving
<1>3. Sized' /\ Newest'
  BY <1>1 DEF TurnInv, Sized, Spare, Counted, Newest
<1>4. Halves' /\ Aged' /\ Copied'
  BY <1>1 DEF TurnInv, Halves, Aged, Copied, Saving
<1>5. Linked'
  BY <1>1 DEF TurnInv, Linked, Saving
<1> QED
  BY <1>2, <1>3, <1>4, <1>5 DEF TurnInv

LEMMA InitInv == Init => TurnInv
<1> SUFFICES ASSUME Init PROVE TurnInv
  OBVIOUS
<1>1. /\ file = [c \in Chats |-> <<>>] /\ clears = [c \in Chats |-> 0]
      /\ synced = [c \in Chats |-> 0] /\ sound = [c \in Chats |-> MaxHistory]
      /\ appendCount = 0 /\ tmp = <<>> /\ pc = "idle" /\ chat \in Chats
      /\ messages = <<>> /\ toSave = <<>> /\ turn = <<>> /\ saved = <<>>
      /\ histCount = 0 /\ iter = 0 /\ turns = 0 /\ crashes = 0 /\ fails = 0
      /\ trimmed = FALSE /\ failed = FALSE /\ removed = FALSE /\ raced = FALSE
  BY DEF Init
<1>2. Typed
  <2>1. /\ file \in [Chats -> Seq(Line)] /\ clears \in [Chats -> 0..MaxClears]
        /\ synced \in [Chats -> Nat] /\ sound \in [Chats -> 0..MaxHistory]
    BY <1>1, TurnAssumption
  <2>2. 0 \in 0..CompactEvery-1 /\ 0 \in 0..MaxHistory /\ 0 \in 0..MaxIter
        /\ 0 \in 0..MaxTurns /\ 0 \in 0..MaxCrashes /\ 0 \in 0..MaxFails
    BY TurnAssumption
  <2>3. trimmed \in BOOLEAN /\ failed \in BOOLEAN /\ removed \in BOOLEAN /\ raced \in BOOLEAN
    BY <1>1
  <2>4. messages \in Seq(Kinds) /\ toSave \in Seq(Kinds) /\ turn \in Seq(Kinds)
        /\ saved \in Seq(Kinds) /\ tmp \in Seq(Line)
    BY <1>1
  <2>5. /\ appendCount \in 0..CompactEvery-1 /\ histCount \in 0..MaxHistory /\ iter \in 0..MaxIter
        /\ turns \in 0..MaxTurns /\ crashes \in 0..MaxCrashes /\ fails \in 0..MaxFails
    BY <1>1, <2>2
  <2> QED
    BY <1>1, <2>1, <2>3, <2>4, <2>5 DEF Typed
<1>3. Sized
  <2>1. Len(file[chat]) = 0 /\ Counted = 0
    BY <1>1 DEF Counted
  <2>2. Spare \in Nat /\ MaxMsgs \in Nat
    BY <1>2, SpareFacts, TurnAssumption
  <2>3. Len(file[chat]) <= MaxMsgs + Spare + Counted
    BY <2>1, <2>2
  <2> QED
    BY <1>1, <2>3 DEF Sized
<1>4. Talking /\ Unmoved /\ Halves /\ Copied /\ Aged
  BY <1>1 DEF Talking, Unmoved, Halves, Copied, Aged, Saving
<1>5. Newest
  BY <1>1 DEF Newest, EndsAs
<1>6. Linked
  <2>1. ASSUME NEW c \in Chats PROVE Fitting(file[c], sound[c], <<>>)
    <3>1. file[c] = <<>> /\ sound[c] \in Nat
      BY <1>1, TurnAssumption
    <3> QED
      BY <3>1, FittingEmpty
  <2>2. LinkedKinds(<<>>)
    BY DEF LinkedKinds
  <2> QED
    BY <1>1, <2>1, <2>2 DEF Linked, Saving
<1> QED
  BY <1>2, <1>3, <1>4, <1>5, <1>6 DEF TurnInv

LEMMA StepInv == TurnInv /\ [Next]_vars => TurnInv'
<1> SUFFICES ASSUME TurnInv, [Next]_vars PROVE TurnInv'
  OBVIOUS
<1>1. CASE \E c \in Chats : Begin(c)
  BY <1>1, BeginInv
<1>2. CASE Trim
  BY <1>2, TrimInv
<1>3. CASE Llm
  BY <1>3, LlmErrorInv, LlmTextInv, LlmToolsInv, IterationLimitInv DEF Llm
<1>4. CASE Save
  BY <1>4, SaveNextInv, AppendFailsInv, SaveEndInv, CompactReadInv, CompactRenameInv,
     CompactFailsInv DEF Save
<1>5. CASE Reply
  BY <1>5, ReplyInv
<1>6. CASE \E c \in Chats : Clear(c)
  BY <1>6, ClearInv
<1>7. CASE Crash
  BY <1>7, CrashInv
<1>8. CASE UNCHANGED vars
  BY <1>8, StutterInv
<1> QED
  BY <1>1, <1>2, <1>3, <1>4, <1>5, <1>6, <1>7, <1>8 DEF Next, Agent

THEOREM TurnInvariant == Spec => []TurnInv
BY InitInv, StepInv, PTL DEF Spec
-----------------------------------------------------------------------------
(* The counters, the files and the context keep their types; a single chat's file
   stays within MaxMsgs lines and an interval for each start and for each file that
   did not open (session_compact). *)
THEOREM TypeCorrect == Spec => []TypeOK
<1>1. TurnInv => TypeOK
  <2> SUFFICES ASSUME TurnInv PROVE TypeOK
    OBVIOUS
  <2>1. Typed
    BY DEF TurnInv
  <2>2. ASSUME Chats = {chat}
        PROVE  Len(file[chat]) <= MaxMsgs + (crashes + fails + 1) * CompactEvery
    <3> DEFINE n == Len(file[chat])
               k == crashes + fails
    <3>1. /\ k \in Nat /\ CompactEvery \in Nat \ {0} /\ MaxMsgs \in Nat
          /\ appendCount \in 0..CompactEvery-1 /\ n \in Nat
      BY <2>1, TurnAssumption DEF Typed
    <3>2. Spare = k * CompactEvery /\ Spare \in Nat
      BY <2>1, SpareFacts DEF Spare
    <3> HIDE DEF k
    <3>3. (k + 1) * CompactEvery = Spare + CompactEvery
      BY <3>1, <3>2, Multiples
    <3>4. Counted \in Nat /\ Counted <= CompactEvery
      BY <3>1 DEF Counted
    <3>5. n <= MaxMsgs + Spare + Counted
      BY <2>2 DEF TurnInv, Sized
    <3> HIDE DEF n
    <3>6. n <= MaxMsgs + (Spare + CompactEvery)
      BY <3>1, <3>2, <3>4, <3>5
    <3> QED
      BY <3>3, <3>6 DEF n, k
  <2> QED
    BY <2>1, <2>2 DEF Typed, TypeOK
<1> QED
  BY <1>1, TurnInvariant, PTL

(* The context of a call of the model ends with what was said in the turn, and every
   use in it has its result where the newest MaxHistory lines of the file have nothing
   missing: whatever the history window, the compactions and the removals cut, and
   again after MaxHistory lines when an append, the power or a trim left a hole
   (agent_loop_task). *)
THEOREM ContextIsPaired == Spec => []ContextPaired
<1>1. TurnInv => ContextPaired
  <2> SUFFICES ASSUME TurnInv, pc = "llm"
               PROVE  IsSuffix(turn, messages) /\ (sound[chat] = MaxHistory => Paired(messages))
    BY DEF ContextPaired
  <2>1. /\ messages \in Seq(Kinds) /\ turn \in Seq(Kinds) /\ EndsWith(messages, turn)
        /\ sound[chat] = MaxHistory => Paired(messages)
    BY LlmFacts
  <2> QED
    BY <2>1, SuffixMeaning
<1> QED
  BY <1>1, TurnInvariant, PTL

(* At the end of a turn the newest lines of the file are those it appended, in their
   order, and what was said in it but for the named exceptions: whatever is compacted
   or removed meanwhile, and whatever fails (the save loop of agent_loop_task). *)
THEOREM SavedIsSaid == Spec => []SavedFaithful
<1>1. TurnInv => SavedFaithful
  <2> SUFFICES ASSUME TurnInv, pc = "reply", saved # <<>>
               PROVE  LET n == Min({Len(file[chat]), Len(saved)})
                      IN  /\ /\ \A i \in 0..n-1 :
                                   file[chat][Len(file[chat]) - i].kind = saved[Len(saved) - i]
                             /\ ~removed => n >= Min({MaxMsgs, Len(saved)})
                          /\ (~trimmed /\ iter < MaxIter /\ ~failed) => saved = turn
    BY DEF SavedFaithful
  <2> DEFINE n == Min({Len(file[chat]), Len(saved)})
             k == Min({MaxMsgs, Len(saved)})
  <2>1. Len(file[chat]) \in Nat /\ Len(saved) \in Nat /\ MaxMsgs \in Nat
    BY TurnAssumption DEF TurnInv, Typed
  <2>2. n \in {Len(file[chat]), Len(saved)} /\ n \in Nat /\ n <= Len(file[chat]) /\ n <= Len(saved)
    BY <2>1, SmallerOf
  <2>3. k \in Nat /\ k <= MaxMsgs /\ k <= Len(saved)
    BY <2>1, SmallerOf
  <2> HIDE DEF n, k
  <2>4. ASSUME NEW i \in 0..n-1
        PROVE  file[chat][Len(file[chat]) - i].kind = saved[Len(saved) - i]
    <3>1. i \in 0..Len(saved)-1 /\ i < Len(file[chat])
      BY <2>1, <2>2
    <3> QED
      BY <3>1 DEF TurnInv, Newest, EndsAs
  <2>5. ASSUME ~removed PROVE n >= k
    <3>1. Len(saved) <= Len(file[chat]) \/ MaxMsgs <= Len(file[chat])
      BY <2>5 DEF TurnInv, Newest
    <3> QED
      BY <2>1, <2>2, <2>3, <3>1
  <2>6. ~trimmed /\ iter < MaxIter /\ ~failed => saved = turn
    BY DEF TurnInv, Halves
  <2> QED
    BY <2>4, <2>5, <2>6 DEF n, k
<1> QED
  BY <1>1, TurnInvariant, PTL

(* What /clearhis removed does not come back, unless the removal fell between the
   two steps of a compaction (session_clear, session_compact). *)
THEOREM ClearsStay == Spec => []ClearStays
<1>1. TurnInv => ClearStays
  BY DEF TurnInv, Aged, ClearStays
<1> QED
  BY <1>1, TurnInvariant, PTL

(* trim_context takes no use from its result, and leaves the user's message. *)
THEOREM TrimKeepsPairs == Spec => TrimNeverSplits
<1> DEFINE A == Trim => /\ Paired(messages) => Paired(messages')
                        /\ messages' # <<>> /\ Last(messages') = "user"
<1>1. TurnInv /\ [Next]_vars => [A]_vars
  BY TrimFacts DEF Last
<1>2. Spec => [][A]_vars
  BY <1>1, TurnInvariant, PTL DEF Spec
<1> QED
  BY <1>2 DEF TrimNeverSplits

(* What a step of the program may make of a file that is not removed. *)
LEMMA FileStep ==
  ASSUME TurnInv, [Next]_vars, NEW c \in Chats, clears'[c] = clears[c], crashes' = crashes
  PROVE  \/ file'[c] \in {file[c], LastN(file[c], MaxMsgs)}
         \/ file'[c] # <<>> /\ Front(file'[c]) = Whole(file[c])
         \/ file[c] = <<>>
<1>1. /\ chat \in Chats /\ file \in [Chats -> Seq(Line)] /\ clears \in [Chats -> 0..MaxClears]
      /\ crashes \in Nat
  BY DEF TurnInv, Typed
<1>2. CASE SaveNext
  <2>1. PICK l \in Line : file' = [file EXCEPT ![chat] = IF Torn(chat) THEN Append(Front(file[chat]), l)
                                                        ELSE Append(file[chat], l)]
    <3>1. \E l \in Line :
            \/ ~Torn(chat) /\ file' = [file EXCEPT ![chat] = Append(file[chat], l)]
            \/ Torn(chat) /\ file' = [file EXCEPT ![chat] = Append(Front(file[chat]), l)]
      BY <1>2, SaveNextFacts
    <3> QED
      BY <3>1
  <2>2. CASE ~Torn(chat) /\ c = chat
    <3>1. file[c] \in Seq(Line) /\ file'[c] = Append(file[c], l)
      BY <1>1, <2>1, <2>2
    <3>2. Whole(file[c]) = file[c]
      BY <2>2 DEF Torn, Whole
    <3> QED
      BY <3>1, <3>2, FrontOfAppend
  <2>3. CASE Torn(chat) /\ c = chat
    <3>1. file[c] \in Seq(Line) /\ file[c] # <<>> /\ Whole(file[c]) = Front(file[c])
      BY <1>1, <2>3 DEF Torn, Whole
    <3>2. Front(file[c]) \in Seq(Line)
      BY <3>1, AllButTheLast
    <3>3. file'[c] = Append(Front(file[c]), l)
      BY <1>1, <2>1, <2>3
    <3> QED
      BY <3>1, <3>2, <3>3, FrontOfAppend
  <2>4. CASE c # chat
    BY <1>1, <2>1, <2>4
  <2> QED
    BY <2>2, <2>3, <2>4
<1>3. CASE CompactRename
  <2>1. file' = [file EXCEPT ![chat] = tmp]
        /\ (file[chat] = <<>> \/ tmp = LastN(file[chat], MaxMsgs))
    BY <1>3 DEF CompactRename, TurnInv, Copied
  <2>2. CASE c = chat
    BY <1>1, <2>1, <2>2
  <2>3. CASE c # chat
    BY <1>1, <2>1, <2>3
  <2> QED
    BY <2>2, <2>3
<1>4. CASE \E d \in Chats : Clear(d)
  <2>1. PICK d \in Chats : Clear(d)
    BY <1>4
  <2>2. file' = [file EXCEPT ![d] = <<>>] /\ clears' = [clears EXCEPT ![d] = @ + 1]
    BY <2>1 DEF Clear, Removed
  <2>3. d # c
    <3>1. ASSUME d = c PROVE FALSE
      <4>1. clears'[c] = clears[c] + 1 /\ clears[c] \in Nat
        BY <1>1, <2>2, <3>1
      <4> QED
        BY <4>1
    <3> QED
      BY <3>1
  <2> QED
    BY <1>1, <2>2, <2>3
<1>5. ~Crash
  <2>1. crashes + 1 # crashes
    BY <1>1
  <2> QED
    BY <2>1 DEF Crash
<1>6. CASE \/ (\E d \in Chats : Begin(d)) \/ Trim \/ Llm \/ AppendFails \/ SaveEnd \/ CompactRead
           \/ CompactFails \/ Reply \/ UNCHANGED vars
  <2>1. file' = file
    BY <1>6 DEF Begin, Trim, Llm, LlmError, LlmText, LlmTools, IterationLimit, AppendFails, SaveEnd,
                CompactRead, CompactFails, Reply, files, vars
  <2> QED
    BY <2>1
<1> QED
  BY <1>2, <1>3, <1>4, <1>5, <1>6 DEF Next, Agent, Save

(* A torn line at the end is the same one in a file and among its newest lines. *)
LEMMA WholeEnd ==
  ASSUME NEW s \in Seq(Line), NEW n \in Nat \ {0}
  PROVE  /\ Whole(LastN(s, n)) \in Seq(Line) /\ Whole(s) \in Seq(Line)
         /\ EndsWith(Whole(s), Whole(LastN(s, n)))
<1> DEFINE t == LastN(s, n)
           d == Len(s) - Len(t)
<1>1. /\ t \in Seq(Line) /\ Len(t) = (IF Len(s) <= n THEN Len(s) ELSE n)
      /\ Len(t) <= Len(s) /\ (\A i \in 1..Len(t) : s[d + i] = t[i]) /\ EndsWith(s, t)
  BY LastOnes DEF EndsWith
<1>2. Len(s) \in Nat
  OBVIOUS
<1> HIDE DEF t
<1>3. Len(t) \in Nat /\ d \in Nat /\ d + Len(t) = Len(s) /\ (Len(s) # 0 => Len(t) # 0)
  BY <1>1, <1>2
<1> HIDE DEF d
<1>4. CASE s = <<>>
  <2>1. t = <<>>
    BY <1>1, <1>3, <1>4
  <2>2. Whole(s) = <<>> /\ Whole(t) = <<>>
    BY <1>4, <2>1 DEF Whole
  <2> QED
    BY <2>2 DEF t, EndsWith
<1>5. CASE s # <<>>
  <2>1. Len(t) \in 1..Len(t) /\ t # <<>>
    BY <1>1, <1>3, <1>5
  <2>2. t[Len(t)] = s[Len(s)]
    BY <1>1, <1>3, <2>1 DEF d
  <2>3. CASE s[Len(s)].kind # "torn"
    <3>1. Whole(s) = s /\ Whole(t) = t
      BY <2>2, <2>3 DEF Whole, Last
    <3> QED
      BY <1>1, <3>1 DEF t
  <2>4. CASE s[Len(s)].kind = "torn"
    <3>1. Whole(s) = Front(s) /\ Whole(t) = Front(t)
      BY <1>5, <2>1, <2>2, <2>4 DEF Whole, Last
    <3> DEFINE a == Front(s)
               b == Front(t)
    <3>2. a \in Seq(Line) /\ Len(a) = Len(s) - 1 /\ \A i \in 1..Len(s)-1 : a[i] = s[i]
      BY <1>5, AllButTheLast
    <3>3. b \in Seq(Line) /\ Len(b) = Len(t) - 1 /\ \A i \in 1..Len(t)-1 : b[i] = t[i]
      BY <1>1, <2>1, AllButTheLast
    <3> HIDE DEF a, b
    <3>4. Len(b) <= Len(a) /\ Len(a) - Len(b) = d
      BY <1>3, <2>1, <3>2, <3>3
    <3>5. ASSUME NEW i \in 1..Len(b) PROVE a[d + i] = b[i]
      <4>1. i \in 1..Len(t)-1 /\ i \in 1..Len(t) /\ d + i \in 1..Len(s)-1
        BY <1>3, <2>1, <3>3
      <4> QED
        BY <1>1, <3>2, <3>3, <4>1 DEF d
    <3>6. EndsWith(a, b)
      BY <3>4, <3>5 DEF EndsWith
    <3> QED
      BY <3>1, <3>2, <3>3, <3>6 DEF a, b, t
  <2> QED
    BY <2>3, <2>4
<1> QED
  BY <1>4, <1>5

LEMMA NewestKept ==
  ASSUME NEW s \in Seq(Line), NEW t \in Seq(Line), NEW n \in Nat \ {0},
         \/ t \in {s, LastN(s, n)}
         \/ t # <<>> /\ Front(t) = Whole(s)
         \/ s = <<>>
  PROVE  \E lines \in {t, Front(t)} : IsSuffix(Whole(LastN(s, n)), lines)
<1> DEFINE new == Whole(LastN(s, n))
<1>1. new \in Seq(Line) /\ Whole(s) \in Seq(Line) /\ EndsWith(Whole(s), new)
  BY WholeEnd
<1>2. Whole(s) \in {s, Front(s)} /\ Whole(LastN(s, n)) \in {LastN(s, n), Front(LastN(s, n))}
  BY DEF Whole
<1>3. IsSuffix(new, Whole(s))
  BY <1>1, SuffixMeaning
<1>4. CASE t = s
  BY <1>2, <1>3, <1>4
<1>5. CASE t = LastN(s, n)
  <2>1. EndsWith(new, new)
    <3> HIDE DEF new
    <3>1. Len(new) \in Nat /\ \A i \in 1..Len(new) : Len(new) - Len(new) + i = i
      BY <1>1
    <3> QED
      BY <3>1 DEF EndsWith
  <2>2. IsSuffix(new, new)
    BY <1>1, <2>1, SuffixMeaning
  <2> QED
    BY <1>2, <1>5, <2>2
<1>6. CASE t # <<>> /\ Front(t) = Whole(s)
  BY <1>3, <1>6
<1>7. CASE s = <<>>
  <2>0. Len(s) = 0 /\ n \in Nat
    BY <1>7
  <2>1. /\ LastN(s, n) \in Seq(Line)
        /\ Len(LastN(s, n)) = IF Len(s) <= n THEN Len(s) ELSE n
    BY <2>0, LastOnes
  <2>2. new = <<>>
    BY <2>0, <2>1 DEF Whole
  <2>3. EndsWith(t, new)
    BY <2>2 DEF EndsWith
  <2>4. IsSuffix(new, t)
    BY <1>1, <2>3, SuffixMeaning
  <2> QED
    BY <2>4
<1> QED
  BY <1>4, <1>5, <1>6, <1>7

(* While there is power, lines leave a file only by its removal: across appends and
   compactions, those that fail included, its newest MaxMsgs lines stay at its end
   (session_mgr.c). *)
THEOREM NothingIsForgotten == Spec => NothingForgotten
<1> DEFINE A == \A c \in Chats : clears'[c] = clears[c] /\ crashes' = crashes =>
                  \E lines \in {file'[c], Front(file'[c])} :
                    IsSuffix(Whole(LastN(file[c], MaxMsgs)), lines)
<1>1. TurnInv /\ [Next]_vars => A
  <2> SUFFICES ASSUME TurnInv, [Next]_vars, NEW c \in Chats, clears'[c] = clears[c],
                      crashes' = crashes
               PROVE  \E lines \in {file'[c], Front(file'[c])} :
                        IsSuffix(Whole(LastN(file[c], MaxMsgs)), lines)
    OBVIOUS
  <2>1. TurnInv'
    BY StepInv
  <2>2. file[c] \in Seq(Line) /\ file'[c] \in Seq(Line) /\ MaxMsgs \in Nat \ {0}
    BY <2>1, TurnAssumption DEF TurnInv, Typed
  <2>3. \/ file'[c] \in {file[c], LastN(file[c], MaxMsgs)}
        \/ file'[c] # <<>> /\ Front(file'[c]) = Whole(file[c])
        \/ file[c] = <<>>
    BY FileStep
  <2> QED
    BY <2>2, <2>3, NewestKept
<1>2. TurnInv /\ [Next]_vars => [A]_vars
  BY <1>1
<1>3. Spec => [][A]_vars
  BY <1>2, TurnInvariant, PTL DEF Spec
<1> QED
  BY <1>3 DEF NothingForgotten
=============================================================================

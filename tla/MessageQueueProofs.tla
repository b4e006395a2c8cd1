-------------------------- MODULE MessageQueueProofs --------------------------
(***************************************************************************)
(* Proofs about one queue of the message bus, for any number of producers, *)
(* consumers and blocks and any positive capacity.  The inductive          *)
(* invariant is IInv: the ring arithmetic (RingOK) is needed to know which *)
(* slot a push overwrites, the control states (HandMatchesState) to know   *)
(* that the pushed content is a real block, and both for SingleOwner.      *)
(***************************************************************************)
EXTENDS MessageQueue, Sequences, SequenceTheorems, TLAPS

IInv == TypeOK /\ RingOK /\ HandMatchesState /\ SingleOwner
-------------------------------------------------------------------------------
(* Ring arithmetic: below twice the capacity, % wraps at most once. *)
LEMMA ModWrap ==
  ASSUME NEW C \in Nat \ {0}, NEW x \in Nat, x < C + C
  PROVE  /\ x < C => x % C = x
         /\ x >= C => x % C = x - C
<1>1. x < C => x % C = x
  BY SMT
<1>2. x >= C => x % C = x - C
  BY SMT
<1> QED BY <1>1, <1>2

(* The slot of a message is a slot of the ring. *)
LEMMA SlotRange ==
  ASSUME NEW C \in Nat \ {0}, NEW t \in 0..C-1, NEW i \in 0..C
  PROVE  (t + i) % C \in 0..C-1
BY SMT

(* Two messages of the queue are in two slots. *)
LEMMA SlotInjective ==
  ASSUME NEW C \in Nat \ {0}, NEW t \in 0..C-1, NEW i \in 0..C-1, NEW j \in 0..C-1,
         (t + i) % C = (t + j) % C
  PROVE  i = j
<1>1. /\ t + i < C => (t + i) % C = t + i
      /\ t + i >= C => (t + i) % C = t + i - C
  BY SMT
<1>2. /\ t + j < C => (t + j) % C = t + j
      /\ t + j >= C => (t + j) % C = t + j - C
  BY SMT
<1> QED BY <1>1, <1>2, SMT

(* Advancing an index and then adding is adding one more. *)
LEMMA SlotShift ==
  ASSUME NEW C \in Nat \ {0}, NEW t \in 0..C-1, NEW i \in 0..C-1
  PROVE  /\ (((t + 1) % C) + i) % C = (t + (i + 1)) % C
         /\ (((t + i) % C) + 1) % C = (t + (i + 1)) % C
<1> DEFINE a == (t + 1) % C
           b == (t + i) % C
<1>1. /\ a \in Nat
      /\ a = t + 1 \/ (t + 1 = C /\ a = 0)
  BY SMT
<1>2. /\ b \in Nat
      /\ t + i < C => b = t + i
      /\ t + i >= C => b = t + i - C
  BY SMT
<1> HIDE DEF a, b
<1>3. (a + i) % C = (t + (i + 1)) % C
  <2>1. CASE a = t + 1
    BY <2>1
  <2>2. CASE t + 1 = C /\ a = 0
    <3>1. i % C = i /\ (C + i) % C = i
      BY ModWrap
    <3> QED BY <2>2, <3>1
  <2> QED BY <1>1, <2>1, <2>2
<1>4. (b + 1) % C = (t + (i + 1)) % C
  <2>1. CASE t + i < C
    BY <1>2, <2>1
  <2>2. CASE t + i >= C
    <3>1. b + 1 < C /\ b = t + i - C
      BY <1>2, <2>2
    <3>2. (b + 1) % C = b + 1
      BY <1>2, <3>1, SMT
    <3>3. (t + (i + 1)) % C = t + (i + 1) - C
      BY <2>2, <3>1, SMT
    <3> QED BY <3>1, <3>2, <3>3
  <2> QED BY <2>1, <2>2
<1> QED BY <1>3, <1>4 DEF a, b

(* A signal moves at most one thread, and only from "waiting" to "woken". *)
LEMMA SignalEffect ==
  ASSUME NEW f \in [Threads -> ProducerStates \cup ConsumerStates],
         NEW T \in SUBSET Threads, NEW g, g \in Signalled(f, T)
  PROVE  /\ g \in [Threads -> ProducerStates \cup ConsumerStates]
         /\ \A t \in Threads : \/ g[t] = f[t]
                               \/ t \in T /\ f[t] = "waiting" /\ g[t] = "woken"
<1>1. g = f \/ \E t \in T : f[t] = "waiting" /\ g = [f EXCEPT ![t] = "woken"]
  BY DEF Signalled
<1> QED BY <1>1 DEF ProducerStates
-------------------------------------------------------------------------------
(* The empty ring, with every thread idle and empty-handed, satisfies IInv. *)
THEOREM InitInv == Init => IInv
<1> SUFFICES ASSUME Init PROVE IInv
  OBVIOUS
<1> USE QueueAssumption DEF Init
<1>1. TypeOK
  <2>1. head \in Slots /\ tail \in Slots /\ count \in 0..Capacity /\ spurious \in 0..MaxSpurious
    BY DEF Slots
  <2> QED BY <2>1 DEF TypeOK, ProducerStates, ConsumerStates, Threads
<1>2. RingOK
  <2>1. (0 + 0) % Capacity = 0
    BY ModWrap
  <2> QED BY <2>1 DEF RingOK
<1>3. HandMatchesState
  BY DEF HandMatchesState, Threads
<1>4. SingleOwner
  BY DEF SingleOwner
<1> QED BY <1>1, <1>2, <1>3, <1>4 DEF IInv

(* Steps that move no message: the ring and the hands stay as they are. *)
LEMMA QuietStep ==
  ASSUME RingOK, SingleOwner, UNCHANGED <<ring, hand>>
  PROVE  RingOK' /\ SingleOwner'
BY DEF RingOK, SingleOwner, ring, Slot

(* A block that a new message is composed in. *)
LEMMA ComposeStep ==
  ASSUME IInv, NEW p \in Producers, Compose(p)
  PROVE  IInv'
<1> USE QueueAssumption DEF IInv, Compose, ring
<1>1. PICK b \in Blocks \ Owned : hand' = [hand EXCEPT ![p] = b]
  OBVIOUS
<1>2. p \in Threads /\ p \notin Consumers
  BY DEF Threads
<1>3. TypeOK'
  BY <1>1, <1>2 DEF TypeOK, ProducerStates, ConsumerStates
<1>4. RingOK'
  BY DEF RingOK, Slot
<1>5. HandMatchesState'
  BY <1>1, <1>2 DEF HandMatchesState, TypeOK, Threads
<1>6. SingleOwner'
  <2>1. /\ \A t \in Threads : hand[t] # b
        /\ \A i \in 0..count-1 : buf[Slot(i)] # b
    BY <1>1 DEF Owned, Live
  <2>2. \A i \in 0..count-1 : Slot(i)' = Slot(i)
    BY DEF Slot
  <2> QED BY <1>1, <1>2, <2>1, <2>2 DEF SingleOwner, TypeOK
<1> QED BY <1>3, <1>4, <1>5, <1>6

(* The block goes from the hand of p to the slot after the newest message. *)
LEMMA PushWriteStep ==
  ASSUME IInv, NEW p \in Producers, PushWrite(p)
  PROVE  IInv'
<1> USE QueueAssumption DEF IInv, PushWrite
<1>0. Capacity \in Nat \ {0} /\ tail \in 0..Capacity-1 /\ count \in 0..Capacity-1
  BY DEF TypeOK, Slots
<1>1. p \in Threads /\ p \notin Consumers
  BY DEF Threads
<1>2. hand[p] \in Blocks
  BY <1>1 DEF HandMatchesState, TypeOK
<1>3. /\ pc' \in [Threads -> ProducerStates \cup ConsumerStates]
      /\ pc'[p] = "idle"
      /\ \A t \in Threads \ {p} :
           pc'[t] = pc[t] \/ (t \in Consumers /\ pc[t] = "waiting" /\ pc'[t] = "woken")
  <2> DEFINE f == [pc EXCEPT ![p] = "idle"]
  <2>1. f \in [Threads -> ProducerStates \cup ConsumerStates]
    BY <1>1 DEF TypeOK, ProducerStates
  <2>2. /\ pc' \in [Threads -> ProducerStates \cup ConsumerStates]
        /\ \A t \in Threads : \/ pc'[t] = f[t]
                              \/ t \in Consumers /\ f[t] = "waiting" /\ pc'[t] = "woken"
    <3> HIDE DEF f
    <3>1. Consumers \in SUBSET Threads
      BY DEF Threads
    <3>2. pc' \in Signalled(f, Consumers)
      BY DEF f
    <3> QED BY <2>1, <3>1, <3>2, SignalEffect
  <2> QED BY <1>1, <2>2 DEF TypeOK
<1>4. /\ head = Slot(count)
      /\ \A i \in 0..count : Slot(i) \in Slots /\ Slot(i)' = Slot(i)
      /\ \A i, j \in 0..count : Slot(i) = Slot(j) => i = j
  <2>1. head = Slot(count)
    BY DEF Slot, RingOK
  <2>2. \A i \in 0..count : Slot(i) \in Slots /\ Slot(i)' = Slot(i)
    BY <1>0, SlotRange DEF Slot, Slots
  <2>3. ASSUME NEW i \in 0..count, NEW j \in 0..count, Slot(i) = Slot(j)
        PROVE  i = j
    <3>1. i \in 0..Capacity-1 /\ j \in 0..Capacity-1
      BY <1>0
    <3> QED BY <1>0, <2>3, <3>1, SlotInjective DEF Slot
  <2> QED BY <2>1, <2>2, <2>3
<1>5. /\ buf'[Slot(count)] = hand[p]
      /\ \A i \in 0..count-1 : buf'[Slot(i)] = buf[Slot(i)]
  BY <1>4 DEF TypeOK
<1>6. TypeOK'
  <2>1. head' \in Slots /\ tail' \in Slots /\ count' \in 0..Capacity
    BY SlotRange DEF TypeOK, Slots
  <2>2. buf' \in [Slots -> Blocks \cup {Nil}] /\ hand' \in [Threads -> Blocks \cup {Nil}]
    BY <1>1 DEF TypeOK
  <2>3. /\ \A q \in Producers : pc'[q] \in ProducerStates
        /\ \A c \in Consumers : pc'[c] \in ConsumerStates
    BY <1>1, <1>3 DEF TypeOK, ProducerStates, ConsumerStates, Threads
  <2> QED BY <1>3, <2>1, <2>2, <2>3 DEF TypeOK
<1>7. RingOK'
  <2>1. head' = (tail' + count') % Capacity
    <3>1. (((tail + count) % Capacity) + 1) % Capacity = (tail + (count + 1)) % Capacity
      BY <1>0, SlotShift
    <3> QED BY <3>1 DEF RingOK
  <2>2. \A i \in 0..count'-1 : i = count \/ i \in 0..count-1
    BY DEF TypeOK
  <2>3. \A i \in 0..count'-1 : buf'[Slot(i)'] \in Blocks
    BY <1>2, <1>4, <1>5, <2>2 DEF RingOK, TypeOK
  <2> QED BY <2>1, <2>3 DEF RingOK
<1>8. HandMatchesState'
  BY <1>1, <1>2, <1>3 DEF HandMatchesState, TypeOK, Threads
<1>9. SingleOwner'
  <2>1. \A i \in 0..count'-1 : i = count \/ i \in 0..count-1
    BY DEF TypeOK
  <2>2. \A i \in 0..count'-1 :
           /\ Slot(i)' = Slot(i)
           /\ i = count => buf'[Slot(i)] = hand[p]
           /\ i # count => i \in 0..count-1 /\ buf'[Slot(i)] = buf[Slot(i)]
    BY <1>4, <1>5, <2>1 DEF TypeOK
  <2>3. \A t \in Threads : hand'[t] = IF t = p THEN Nil ELSE hand[t]
    BY <1>1 DEF TypeOK
  <2>4. \A i, j \in 0..count'-1 : buf'[Slot(i)'] = buf'[Slot(j)'] => i = j
    BY <1>1, <2>2 DEF SingleOwner
  <2>5. \A t \in Threads : \A i \in 0..count'-1 : hand'[t] # buf'[Slot(i)']
    BY <1>1, <1>2, <2>2, <2>3 DEF SingleOwner, RingOK
  <2>6. \A t, u \in Threads : hand'[t] = hand'[u] /\ hand'[t] # Nil => t = u
    BY <2>3 DEF SingleOwner
  <2> QED BY <2>4, <2>5, <2>6 DEF SingleOwner
<1> QED BY <1>6, <1>7, <1>8, <1>9

(* The oldest block goes from its slot to the hand of c. *)
LEMMA PopReadStep ==
  ASSUME IInv, NEW c \in Consumers, PopRead(c)
  PROVE  IInv'
<1> USE QueueAssumption DEF IInv, PopRead
<1>0. /\ Capacity \in Nat \ {0} /\ tail \in 0..Capacity-1 /\ count \in 1..Capacity
      /\ count' = count - 1
  BY DEF TypeOK, Slots
<1>1. c \in Threads /\ c \notin Producers
  BY DEF Threads
<1>2. /\ pc' \in [Threads -> ProducerStates \cup ConsumerStates]
      /\ pc'[c] = "holding"
      /\ \A t \in Threads \ {c} :
           pc'[t] = pc[t] \/ (t \in Producers /\ pc[t] = "waiting" /\ pc'[t] = "woken")
  <2> DEFINE f == [pc EXCEPT ![c] = "holding"]
  <2>1. f \in [Threads -> ProducerStates \cup ConsumerStates]
    BY <1>1 DEF TypeOK, ConsumerStates
  <2>2. /\ pc' \in [Threads -> ProducerStates \cup ConsumerStates]
        /\ \A t \in Threads : \/ pc'[t] = f[t]
                              \/ t \in Producers /\ f[t] = "waiting" /\ pc'[t] = "woken"
    <3> HIDE DEF f
    <3>1. Producers \in SUBSET Threads
      BY DEF Threads
    <3>2. pc' \in Signalled(f, Producers)
      BY DEF f
    <3> QED BY <2>1, <3>1, <3>2, SignalEffect
  <2> QED BY <1>1, <2>2 DEF TypeOK
<1>3. \A i \in 0..count'-1 : i + 1 \in 1..count-1 /\ Slot(i)' = Slot(i + 1)
  BY <1>0, SlotShift DEF Slot
<1>4. buf[tail] = buf[Slot(0)] /\ buf[tail] \in Blocks
  <2>1. tail = Slot(0)
    BY <1>0, ModWrap DEF Slot
  <2> QED BY <1>0, <2>1 DEF RingOK
<1>5. TypeOK'
  <2>1. tail' \in Slots /\ count' \in 0..Capacity
    BY <1>0, SlotRange DEF Slots
  <2>2. hand' \in [Threads -> Blocks \cup {Nil}]
    BY <1>1, <1>4 DEF TypeOK
  <2>3. /\ \A p \in Producers : pc'[p] \in ProducerStates
        /\ \A d \in Consumers : pc'[d] \in ConsumerStates
    BY <1>1, <1>2 DEF TypeOK, ProducerStates, ConsumerStates, Threads
  <2> QED BY <1>2, <2>1, <2>2, <2>3 DEF TypeOK
<1>6. RingOK'
  <2>1. head' = (tail' + count') % Capacity
    <3>1. count - 1 \in 0..Capacity-1 /\ (count - 1) + 1 = count
      BY <1>0
    <3>2. (((tail + 1) % Capacity) + (count - 1)) % Capacity = (tail + count) % Capacity
      BY <1>0, <3>1, SlotShift
    <3> QED BY <1>0, <3>2 DEF RingOK
  <2>2. \A i \in 0..count'-1 : buf'[Slot(i)'] \in Blocks
    BY <1>0, <1>3 DEF RingOK
  <2> QED BY <2>1, <2>2 DEF RingOK
<1>7. HandMatchesState'
  BY <1>1, <1>2, <1>4 DEF HandMatchesState, TypeOK, Threads
<1>8. SingleOwner'
  <2>1. \A t \in Threads : hand'[t] = IF t = c THEN buf[Slot(0)] ELSE hand[t]
    BY <1>1, <1>4 DEF TypeOK
  <2>2. \A i, j \in 0..count'-1 : buf'[Slot(i)'] = buf'[Slot(j)'] => i = j
    <3>1. ASSUME NEW i \in 0..count'-1, NEW j \in 0..count'-1, buf'[Slot(i)'] = buf'[Slot(j)']
          PROVE  i = j
      <4>1. buf[Slot(i + 1)] = buf[Slot(j + 1)]
        BY <1>3, <3>1
      <4>2. i + 1 = j + 1
        BY <1>3, <4>1, <1>0 DEF SingleOwner
      <4> QED BY <1>0, <4>2
    <3> QED BY <3>1
  <2>3. \A i \in 0..count'-1 : buf'[Slot(i)'] # buf[Slot(0)]
    BY <1>0, <1>3 DEF SingleOwner
  <2>4. \A t \in Threads : \A i \in 0..count'-1 : hand'[t] # buf'[Slot(i)']
    BY <1>0, <1>3, <2>1, <2>3 DEF SingleOwner
  <2>5. \A t, u \in Threads : hand'[t] = hand'[u] /\ hand'[t] # Nil => t = u
    BY <1>0, <2>1 DEF SingleOwner
  <2> QED BY <2>2, <2>4, <2>5 DEF SingleOwner
<1> QED BY <1>5, <1>6, <1>7, <1>8

(* A thread frees the block it holds: a push that timed out, a message that
   was handled. *)
LEMMA FreeStep ==
  ASSUME IInv, NEW t \in Threads, hand' = [hand EXCEPT ![t] = Nil], UNCHANGED ring
  PROVE  RingOK' /\ SingleOwner'
<1> USE QueueAssumption DEF IInv, ring
<1>1. \A u \in Threads : hand'[u] = IF u = t THEN Nil ELSE hand[u]
  BY DEF TypeOK
<1>2. \A i \in 0..count-1 : Slot(i)' = Slot(i) /\ buf[Slot(i)] # Nil
  BY DEF Slot, RingOK
<1>3. RingOK'
  BY DEF RingOK, Slot
<1>4. SingleOwner'
  BY <1>1, <1>2 DEF SingleOwner
<1> QED BY <1>3, <1>4

(* No step of a push, of a pop, of a signal or of the shutdown breaks IInv. *)
THEOREM NextInv == IInv /\ [Next]_vars => IInv'
<1> SUFFICES ASSUME IInv, [Next]_vars PROVE IInv'
  OBVIOUS
<1> USE QueueAssumption DEF IInv
<1>1. ASSUME NEW p \in Producers, Compose(p) PROVE IInv'
  BY <1>1, ComposeStep
<1>2. ASSUME NEW p \in Producers, PushWrite(p) PROVE IInv'
  BY <1>2, PushWriteStep
<1>3. ASSUME NEW p \in Producers,
             PushWait(p) \/ PushExpire(p) \/ ProducerExit(p) \/ Spurious(p)
      PROVE  IInv'
  <2> USE DEF PushWait, PushExpire, ProducerExit, Spurious
  <2>1. p \in Threads /\ p \notin Consumers
    BY DEF Threads
  <2>2. TypeOK'
    BY <1>3, <2>1 DEF TypeOK, ProducerStates, ConsumerStates, ring, Threads
  <2>3. HandMatchesState'
    BY <1>3, <2>1 DEF HandMatchesState, TypeOK, Threads
  <2> QED BY <1>3, <2>2, <2>3, QuietStep
<1>4. ASSUME NEW p \in Producers, PushFail(p) PROVE IInv'
  <2> USE <1>4 DEF PushFail
  <2>1. p \in Threads /\ p \notin Consumers
    BY DEF Threads
  <2>2. TypeOK'
    BY <2>1 DEF TypeOK, ProducerStates, ConsumerStates, ring, Threads
  <2>3. HandMatchesState'
    BY <2>1 DEF HandMatchesState, TypeOK, Threads
  <2> QED BY <2>1, <2>2, <2>3, FreeStep
<1>5. ASSUME NEW c \in Consumers, PopRead(c) PROVE IInv'
  BY <1>5, PopReadStep
<1>6. ASSUME NEW c \in Consumers, LoopHead(c) \/ PopWait(c) \/ PopShutdown(c) \/ PopPoll(c)
      PROVE  IInv'
  <2> USE DEF LoopHead, PopWait, PopShutdown, PopPoll
  <2>1. c \in Threads /\ c \notin Producers
    BY DEF Threads
  <2>2. TypeOK'
    BY <1>6, <2>1 DEF TypeOK, ProducerStates, ConsumerStates, ring, Threads
  <2>3. HandMatchesState'
    BY <1>6, <2>1 DEF HandMatchesState, TypeOK, Threads
  <2> QED BY <1>6, <2>2, <2>3, QuietStep
<1>7. ASSUME NEW c \in Consumers, Handle(c) PROVE IInv'
  <2> USE <1>7 DEF Handle
  <2>1. c \in Threads /\ c \notin Producers
    BY DEF Threads
  <2>2. TypeOK'
    BY <2>1 DEF TypeOK, ProducerStates, ConsumerStates, ring, Threads
  <2>3. HandMatchesState'
    BY <2>1 DEF HandMatchesState, TypeOK, Threads
  <2> QED BY <2>1, <2>2, <2>3, FreeStep
<1>8. CASE Shutdown
  <2>1. TypeOK' /\ HandMatchesState'
    BY <1>8 DEF Shutdown, TypeOK, HandMatchesState, ring
  <2> QED BY <1>8, <2>1, QuietStep DEF Shutdown
<1>9. CASE UNCHANGED vars
  <2>1. TypeOK' /\ HandMatchesState'
    BY <1>9 DEF vars, TypeOK, HandMatchesState
  <2> QED BY <1>9, <2>1, QuietStep DEF vars, ring
<1> QED BY <1>1, <1>2, <1>3, <1>4, <1>5, <1>6, <1>7, <1>8, <1>9 DEF Next, Push, Pop
-------------------------------------------------------------------------------
(* IInv holds in every reachable state, for any threads and any capacity. *)
THEOREM Invariant == Spec => []IInv
BY InitInv, NextInv, PTL DEF Spec

(* Every variable keeps its type, whatever the number of threads. *)
THEOREM TypeCorrect == Spec => []TypeOK
BY Invariant, PTL DEF IInv

(* At any capacity the ring never loses count of its messages; a block of content
   has one owner at a time: queue_push hands it over, a failed push and a handled
   message free it once (message_bus.h:21); and no path leaks or forgets it. *)
THEOREM QueueCorrect == Spec => []QueueSound
BY Invariant, PTL DEF IInv, QueueSound
-------------------------------------------------------------------------------
(* The ring seen as the sequence of its messages, oldest first. *)
Contents == [i \in 1..count |-> buf[Slot(i - 1)]]

(* Read oldest first, the ring is a sequence of count blocks. *)
LEMMA ContentsType ==
  ASSUME IInv
  PROVE  /\ Contents \in Seq(Blocks)
         /\ Len(Contents) = count
         /\ \A i \in 1..count : Contents[i] = buf[Slot(i - 1)]
<1>1. count \in Nat /\ \A i \in 1..count : i - 1 \in 0..count-1
  BY QueueAssumption DEF IInv, TypeOK
<1>2. \A i \in 1..count : buf[Slot(i - 1)] \in Blocks
  BY <1>1 DEF IInv, RingOK
<1> QED BY <1>1, <1>2 DEF Contents

(* strdup of the content by the caller of push is an Obtain. *)
LEMMA ObtainRefined ==
  ASSUME IInv, NEW p \in Producers, Compose(p)
  PROVE  Transfer!Obtain(p)
<1>1. p \in Threads /\ hand[p] = Nil
  BY DEF Threads, IInv, HandMatchesState, Compose
<1>2. Contents' = Contents
  BY DEF Contents, Compose, ring, Slot
<1>3. Transfer!Owned \subseteq Owned
  <2>1. \A i \in 1..Len(Contents) : Contents[i] \in Live
    <3>1. \A i \in 1..count : i - 1 \in 0..count-1
      BY QueueAssumption DEF IInv, TypeOK
    <3> QED BY <3>1, ContentsType DEF Live
  <2> QED BY <2>1 DEF Transfer!Owned, Owned, Contents
<1> QED BY <1>1, <1>2, <1>3 DEF Transfer!Obtain, Compose, Contents

(* The write into slot head appends to the abstract queue: a Send. *)
LEMMA SendRefined ==
  ASSUME IInv, IInv', NEW p \in Producers, PushWrite(p)
  PROVE  Transfer!Send(p)
<1> USE QueueAssumption
<1>1. hand[p] # Nil /\ hand[p] \in Blocks
  BY DEF Threads, IInv, HandMatchesState, PushWrite, TypeOK
<1>2. count \in 0..Capacity-1 /\ count' = count + 1
  BY DEF IInv, TypeOK, PushWrite
<1>3. Contents' = Append(Contents, hand[p])
  <2>1. /\ head = Slot(count)
        /\ \A i \in 0..count : Slot(i)' = Slot(i) /\ Slot(i) \in Slots
        /\ \A i \in 0..count-1 : Slot(i) # head
    <3>1. Capacity \in Nat \ {0} /\ tail \in 0..Capacity-1
      BY DEF IInv, TypeOK, Slots
    <3>2. head = Slot(count)
      BY DEF IInv, RingOK, Slot
    <3>3. \A i \in 0..count : Slot(i)' = Slot(i) /\ Slot(i) \in Slots
      BY <1>2, <3>1, SlotRange DEF Slot, Slots, PushWrite
    <3>4. ASSUME NEW i \in 0..count-1, Slot(i) = Slot(count) PROVE FALSE
      <4>1. i \in 0..Capacity-1 /\ count \in 0..Capacity-1 /\ i # count
        BY <1>2
      <4> QED BY <3>1, <3>4, <4>1, SlotInjective DEF Slot
    <3> QED BY <3>2, <3>3, <3>4
  <2>2. /\ buf'[Slot(count)] = hand[p]
        /\ \A i \in 0..count-1 : buf'[Slot(i)] = buf[Slot(i)]
    BY <1>2, <2>1 DEF IInv, TypeOK, PushWrite
  <2>3. \A i \in 1..count+1 : Contents'[i] = IF i = count + 1 THEN hand[p] ELSE Contents[i]
    <3>1. \A i \in 1..count+1 : /\ i - 1 \in 0..count
                                /\ i = count + 1 => i - 1 = count
                                /\ i # count + 1 => i \in 1..count /\ i - 1 \in 0..count-1
      BY <1>2
    <3>2. \A i \in 1..count+1 : Contents'[i] = buf'[Slot(i - 1)]
      BY <1>2, <2>1, <3>1 DEF Contents
    <3>3. \A i \in 1..count : Contents[i] = buf[Slot(i - 1)]
      BY ContentsType
    <3>4. ASSUME NEW i \in 1..count+1
          PROVE  Contents'[i] = IF i = count + 1 THEN hand[p] ELSE Contents[i]
      <4>1. CASE i = count + 1
        BY <1>2, <2>2, <3>1, <3>2, <4>1
      <4>2. CASE i # count + 1
        <5>1. i \in 1..count /\ i - 1 \in 0..count-1
          BY <1>2, <3>1, <4>2
        <5>2. buf'[Slot(i - 1)] = buf[Slot(i - 1)]
          BY <2>2, <5>1
        <5>3. Contents'[i] = Contents[i]
          BY <3>2, <3>3, <5>1, <5>2
        <5> QED BY <4>2, <5>3
      <4> QED BY <4>1, <4>2
    <3> QED BY <3>4
  <2>4. /\ Contents \in Seq(Blocks) /\ Len(Contents) = count
        /\ Contents' \in Seq(Blocks) /\ Len(Contents') = count + 1
    <3>1. \A i \in 1..count+1 : Contents'[i] \in Blocks
      BY <1>1, <2>3, ContentsType, <1>2
    <3>2. Contents' = [i \in 1..count+1 |-> Contents'[i]]
      BY <1>2 DEF Contents
    <3> QED BY <1>2, <3>1, <3>2, ContentsType
  <2> QED BY <1>1, <1>2, <2>3, <2>4
<1>4. Len(Contents) < Capacity
  BY <1>2, ContentsType
<1> QED BY <1>1, <1>3, <1>4 DEF Transfer!Send, PushWrite, Contents

(* The read of slot tail takes the abstract queue's head: a Receive. *)
LEMMA ReceiveRefined ==
  ASSUME IInv, IInv', NEW c \in Consumers, PopRead(c)
  PROVE  Transfer!Receive(c)
<1> USE QueueAssumption
<1>1. hand[c] = Nil
  BY DEF Threads, IInv, HandMatchesState, PopRead
<1>2. count \in 1..Capacity /\ count' = count - 1 /\ Capacity \in Nat \ {0} /\ tail \in 0..Capacity-1
  BY DEF IInv, TypeOK, PopRead, Slots
<1>3. /\ Contents \in Seq(Blocks) /\ Len(Contents) = count
      /\ \A i \in 1..count : Contents[i] = buf[Slot(i - 1)]
  BY ContentsType
<1>4. Contents # <<>> /\ Head(Contents) = buf[tail]
  <2>1. Slot(0) = tail
    BY <1>2, ModWrap DEF Slot
  <2> QED BY <1>2, <1>3, <2>1
<1>5. Contents' = Tail(Contents)
  <2>1. \A i \in 1..count-1 : /\ i + 1 \in 1..count
                              /\ Contents'[i] = Contents[i + 1]
    <3>1. ASSUME NEW i \in 1..count-1
          PROVE  i + 1 \in 1..count /\ Contents'[i] = Contents[i + 1]
      <4>1. i \in 0..Capacity-1 /\ i - 1 \in 0..Capacity-1 /\ i + 1 \in 1..count
        BY <1>2
      <4>2. Slot(i - 1)' = Slot(i)
        <5>1. (((tail + 1) % Capacity) + (i - 1)) % Capacity = (tail + ((i - 1) + 1)) % Capacity
          BY <1>2, <4>1, SlotShift
        <5> QED BY <4>1, <5>1 DEF Slot, PopRead
      <4>3. Contents'[i] = buf[Slot(i)]
        BY <1>2, <4>2 DEF Contents, PopRead
      <4>4. Contents[i + 1] = buf[Slot(i)]
        BY <1>3, <4>1
      <4> QED BY <4>1, <4>3, <4>4
    <3> QED BY <3>1
  <2>2. Contents' = [i \in 1..count-1 |-> Contents'[i]]
    BY <1>2 DEF Contents
  <2>3. Contents' \in Seq(Blocks) /\ Len(Contents') = count - 1
    <3>1. \A i \in 1..count : Contents[i] \in Blocks
      BY <1>3
    <3>2. \A i \in 1..count-1 : Contents'[i] \in Blocks
      BY <2>1, <3>1
    <3> QED BY <1>2, <2>2, <3>2
  <2>4. /\ Tail(Contents) \in Seq(Blocks) /\ Len(Tail(Contents)) = count - 1
        /\ \A i \in 1..count-1 : Tail(Contents)[i] = Contents[i + 1]
    BY <1>3, <1>4, HeadTailProperties
  <2> QED BY <1>2, <2>1, <2>3, <2>4, SeqEqual
<1> QED BY <1>1, <1>4, <1>5 DEF Transfer!Receive, PopRead, Contents

(* The ring buffer with its lock, its waits and its time-outs is a bounded
   FIFO with one owner per block: no message is duplicated or reordered, and
   none is lost but by a push that reports its failure. *)
THEOREM Refinement == Spec => TransferSpec
<1>1. Init => Transfer!Init
  BY QueueAssumption DEF Init, Transfer!Init
<1>2. IInv /\ IInv' /\ [Next]_vars => [Transfer!Next]_Transfer!vars
  <2> SUFFICES ASSUME IInv, IInv', [Next]_vars PROVE [Transfer!Next]_Transfer!vars
    OBVIOUS
  <2>1. ASSUME NEW p \in Producers, Compose(p) PROVE Transfer!Next
    BY <2>1, ObtainRefined DEF Transfer!Next, Threads
  <2>2. ASSUME NEW p \in Producers, PushWrite(p) PROVE Transfer!Next
    BY <2>2, SendRefined DEF Transfer!Next, Threads
  <2>3. ASSUME NEW c \in Consumers, PopRead(c) PROVE Transfer!Next
    BY <2>3, ReceiveRefined DEF Transfer!Next, Threads
  <2>4. ASSUME NEW t \in Threads, PushFail(t) \/ Handle(t), t \in Producers \/ t \in Consumers,
               hand[t] # Nil
        PROVE  Transfer!Next
    <3>1. Contents' = Contents /\ hand' = [hand EXCEPT ![t] = Nil]
      BY <2>4 DEF Contents, PushFail, Handle, ring, Slot
    <3>2. Transfer!Discard(t)
      BY <2>4, <3>1 DEF Transfer!Discard, Contents
    <3> QED BY <3>2 DEF Transfer!Next
  <2>5. ASSUME NEW p \in Producers, PushFail(p) PROVE Transfer!Next
    <3>1. p \in Threads /\ hand[p] # Nil
      BY <2>5 DEF Threads, IInv, HandMatchesState, PushFail
    <3> QED BY <2>4, <2>5, <3>1
  <2>6. ASSUME NEW c \in Consumers, Handle(c) PROVE Transfer!Next
    <3>1. c \in Threads /\ hand[c] # Nil
      BY <2>6 DEF Threads, IInv, HandMatchesState, Handle
    <3> QED BY <2>4, <2>6, <3>1
  <2>7. ASSUME UNCHANGED <<ring, hand>> PROVE UNCHANGED Transfer!vars
    BY <2>7 DEF Transfer!vars, ring, Slot
  <2>8. ASSUME NEW p \in Producers,
               PushWait(p) \/ PushExpire(p) \/ ProducerExit(p) \/ Spurious(p)
        PROVE  UNCHANGED Transfer!vars
    BY <2>7, <2>8 DEF PushWait, PushExpire, ProducerExit, Spurious
  <2>9. ASSUME NEW c \in Consumers, LoopHead(c) \/ PopWait(c) \/ PopShutdown(c) \/ PopPoll(c)
        PROVE  UNCHANGED Transfer!vars
    BY <2>7, <2>9 DEF LoopHead, PopWait, PopShutdown, PopPoll
  <2>10. ASSUME Shutdown \/ UNCHANGED vars PROVE UNCHANGED Transfer!vars
    BY <2>7, <2>10 DEF Shutdown, vars, ring
  <2> QED BY <2>1, <2>2, <2>3, <2>5, <2>6, <2>8, <2>9, <2>10 DEF Next, Push, Pop
<1> QED BY <1>1, <1>2, Invariant, PTL DEF Spec, TransferSpec, Transfer!Spec
===============================================================================

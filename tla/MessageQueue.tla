---------------------------- MODULE MessageQueue ----------------------------
(***************************************************************************)
(* One queue of bus/message_bus.c: a ring buffer of kc_msg_t under one     *)
(* mutex with the condition variables not_empty and not_full, together     *)
(* with the loops of the threads that use it.  The program has two: the    *)
(* inbound queue (CLI, WebSocket, cron and sensor threads push, the agent  *)
(* thread pops) and the outbound queue (the agent pushes, the dispatcher   *)
(* pops).                                                                  *)
(*                                                                         *)
(* A step that runs from taking the mutex to releasing it, or to waiting   *)
(* on a condition variable, is one action.  pthread_cond_timedwait is      *)
(* three states: "waiting", then "woken" (it will return 0) or, for a      *)
(* producer, "expired" (it will return ETIMEDOUT); the thread still has to *)
(* take the mutex back before it goes on, and others may run first.        *)
(***************************************************************************)
EXTENDS Naturals, FiniteSets

CONSTANTS
  Producers,    (* threads that call message_bus_push_*                   *)
  Consumers,    (* threads that call message_bus_pop_*(.., UINT32_MAX)    *)
  Capacity,     (* KC_BUS_QUEUE_LEN                                       *)
  Blocks,       (* heap blocks msg.content may point to                   *)
  Nil,          (* no block: the calloc'ed content of an unused slot      *)
  MaxSpurious   (* bound on the spurious wake-ups POSIX allows            *)

Threads == Producers \cup Consumers

ASSUME QueueAssumption ==
  /\ Producers \cap Consumers = {}
  /\ Capacity \in Nat \ {0}
  /\ Nil \notin Blocks
  /\ MaxSpurious \in Nat

VARIABLES
  buf,        (* the ring: slot -> content                                *)
  head,       (* the slot the next push writes                            *)
  tail,       (* the slot the next pop reads                              *)
  count,      (* how many slots are in use                                *)
  pc,         (* where each thread is                                     *)
  hand,       (* the block each thread owns (msg.content), or Nil         *)
  shutdown,   (* kc_is_shutting_down()                                    *)
  spurious    (* spurious wake-ups so far                                 *)

ring == <<buf, head, tail, count>>
vars == <<buf, head, tail, count, pc, hand, shutdown, spurious>>

Slots == 0..Capacity-1
Slot(i) == (tail + i) % Capacity         (* the i-th oldest message's slot *)
Live == {buf[Slot(i)] : i \in 0..count-1}
Owned == {hand[t] : t \in Threads} \cup Live

ProducerStates == {"idle", "pushing", "waiting", "woken", "expired", "exited"}
ConsumerStates == {"idle", "popping", "waiting", "woken", "holding", "exited"}

Init ==
  /\ buf = [s \in Slots |-> Nil]
  /\ head = 0 /\ tail = 0 /\ count = 0
  /\ pc = [t \in Threads |-> "idle"]
  /\ hand = [t \in Threads |-> Nil]
  /\ shutdown = FALSE
  /\ spurious = 0
-----------------------------------------------------------------------------
(***************************************************************************)
(* pthread_cond_signal to the threads T, in control state f: one waiter is *)
(* woken, if there is any.  POSIX lets a thread whose wait is timing out   *)
(* consume the signal as well; the signal then wakes nobody.               *)
(***************************************************************************)
Signalled(f, T) ==
  LET waiting == {t \in T : f[t] = "waiting"}
  IN  {[f EXCEPT ![t] = "woken"] : t \in waiting}
        \cup {g \in {f} : waiting = {} \/ \E t \in T : f[t] = "expired"}

(* The caller builds a message: it strdups the content. *)
Compose(p) ==
  /\ pc[p] = "idle"
  /\ \E b \in Blocks \ Owned : hand' = [hand EXCEPT ![p] = b]
  /\ pc' = [pc EXCEPT ![p] = "pushing"]
  /\ UNCHANGED <<ring, shutdown, spurious>>

PushWait(p) ==
  /\ pc[p] \in {"pushing", "woken"}
  /\ count >= Capacity
  /\ pc' = [pc EXCEPT ![p] = "waiting"]
  /\ UNCHANGED <<ring, hand, shutdown, spurious>>

PushWriteOffByOne(p) ==                  (* mutant: one message too many *)
  /\ pc[p] \in {"pushing", "woken"}
  /\ count <= Capacity
  /\ buf' = [buf EXCEPT ![head] = hand[p]]
  /\ head' = (head + 1) % Capacity
  /\ count' = count + 1
  /\ hand' = [hand EXCEPT ![p] = Nil]
  /\ pc' \in Signalled([pc EXCEPT ![p] = "idle"], Consumers)
  /\ UNCHANGED <<tail, shutdown, spurious>>
PushWriteKeeps(p) ==                     (* mutant: the caller keeps the content *)
  /\ pc[p] \in {"pushing", "woken"}
  /\ count < Capacity
  /\ buf' = [buf EXCEPT ![head] = hand[p]]
  /\ head' = (head + 1) % Capacity
  /\ count' = count + 1
  /\ pc' \in Signalled([pc EXCEPT ![p] = "idle"], Consumers)
  /\ UNCHANGED <<tail, hand, shutdown, spurious>>

PushWrite(p) ==
  /\ pc[p] \in {"pushing", "woken"}
  /\ count < Capacity
  /\ buf' = [buf EXCEPT ![head] = hand[p]]
  /\ head' = (head + 1) % Capacity
  /\ count' = count + 1
  /\ hand' = [hand EXCEPT ![p] = Nil]
  /\ pc' \in Signalled([pc EXCEPT ![p] = "idle"], Consumers)
  /\ UNCHANGED <<tail, shutdown, spurious>>

(* One second passes: timedwait gives up on not_full. *)
PushExpire(p) ==
  /\ pc[p] = "waiting"
  /\ pc' = [pc EXCEPT ![p] = "expired"]
  /\ UNCHANGED <<ring, hand, shutdown, spurious>>

(* timedwait returns ETIMEDOUT, with the mutex: push returns KC_ERR_TIMEOUT
   whatever count is by now, and the caller frees the content. *)
PushFail(p) ==
  /\ pc[p] = "expired"
  /\ hand' = [hand EXCEPT ![p] = Nil]
  /\ pc' = [pc EXCEPT ![p] = "idle"]
  /\ UNCHANGED <<ring, shutdown, spurious>>

ProducerExit(p) ==
  /\ pc[p] = "idle"
  /\ shutdown
  /\ pc' = [pc EXCEPT ![p] = "exited"]
  /\ UNCHANGED <<ring, hand, shutdown, spurious>>
-----------------------------------------------------------------------------
(* while (!kc_is_shutting_down()): the head of the consumer's loop. *)
LoopHead(c) ==
  /\ pc[c] = "idle"
  /\ pc' = [pc EXCEPT ![c] = IF shutdown THEN "exited" ELSE "popping"]
  /\ UNCHANGED <<ring, hand, shutdown, spurious>>

PopReadKeepsTail(c) ==                   (* mutant: tail does not advance *)
  /\ pc[c] \in {"popping", "woken"}
  /\ count > 0
  /\ hand' = [hand EXCEPT ![c] = buf[tail]]
  /\ count' = count - 1
  /\ pc' \in Signalled([pc EXCEPT ![c] = "holding"], Producers)
  /\ UNCHANGED <<buf, head, tail, shutdown, spurious>>
PopReadOffByOne(c) ==                    (* mutant: the last message stays *)
  /\ pc[c] \in {"popping", "woken"}
  /\ count > 1
  /\ hand' = [hand EXCEPT ![c] = buf[tail]]
  /\ tail' = (tail + 1) % Capacity
  /\ count' = count - 1
  /\ pc' \in Signalled([pc EXCEPT ![c] = "holding"], Producers)
  /\ UNCHANGED <<buf, head, shutdown, spurious>>

PopRead(c) ==
  /\ pc[c] \in {"popping", "woken"}
  /\ count > 0
  /\ hand' = [hand EXCEPT ![c] = buf[tail]]
  /\ tail' = (tail + 1) % Capacity
  /\ count' = count - 1
  /\ pc' \in Signalled([pc EXCEPT ![c] = "holding"], Producers)
  /\ UNCHANGED <<buf, head, shutdown, spurious>>

PopWaitDeaf(c) ==                        (* mutant: shutdown is not looked at *)
  /\ pc[c] \in {"popping", "woken"}
  /\ count = 0
  /\ pc' = [pc EXCEPT ![c] = "waiting"]
  /\ UNCHANGED <<ring, hand, shutdown, spurious>>

PopWait(c) ==
  /\ pc[c] \in {"popping", "woken"}
  /\ count = 0
  /\ ~shutdown
  /\ pc' = [pc EXCEPT ![c] = "waiting"]
  /\ UNCHANGED <<ring, hand, shutdown, spurious>>

(* pop returns KC_ERR_TIMEOUT and the loop goes back to its head. *)
PopShutdown(c) ==
  /\ pc[c] \in {"popping", "woken"}
  /\ count = 0
  /\ shutdown
  /\ pc' = [pc EXCEPT ![c] = "idle"]
  /\ UNCHANGED <<ring, hand, shutdown, spurious>>

(* The one-second poll: the result of this timedwait is ignored. *)
PopPoll(c) ==
  /\ pc[c] = "waiting"
  /\ pc' = [pc EXCEPT ![c] = "woken"]
  /\ UNCHANGED <<ring, hand, shutdown, spurious>>

(* The consumer handles the message, or not when the program stops, and
   frees its content. *)
Handle(c) ==
  /\ pc[c] = "holding"
  /\ hand' = [hand EXCEPT ![c] = Nil]
  /\ pc' = [pc EXCEPT ![c] = IF shutdown THEN "exited" ELSE "idle"]
  /\ UNCHANGED <<ring, shutdown, spurious>>
-----------------------------------------------------------------------------
(* SIGINT or SIGTERM. *)
Shutdown ==
  /\ ~shutdown
  /\ shutdown' = TRUE
  /\ UNCHANGED <<ring, pc, hand, spurious>>

Spurious(p) ==
  /\ pc[p] = "waiting"
  /\ spurious < MaxSpurious
  /\ spurious' = spurious + 1
  /\ pc' = [pc EXCEPT ![p] = "woken"]
  /\ UNCHANGED <<ring, hand, shutdown>>

Push(p) == PushWait(p) \/ PushWrite(p) \/ PushExpire(p) \/ PushFail(p)
Pop(c) == LoopHead(c) \/ PopRead(c) \/ PopWait(c) \/ PopShutdown(c)
            \/ PopPoll(c) \/ Handle(c)

Next ==
  \/ \E p \in Producers : Compose(p) \/ Push(p) \/ ProducerExit(p) \/ Spurious(p)
  \/ \E c \in Consumers : Pop(c)
  \/ Shutdown

(* Every thread inside push or pop is scheduled and gets the mutex in the
   end, and every timed wait ends.  Nothing obliges a producer to send, the
   program to stop, or a wake-up to be spurious. *)
Fairness ==
  /\ \A p \in Producers : WF_vars(Push(p))
  /\ \A c \in Consumers : WF_vars(Pop(c))

Spec == Init /\ [][Next]_vars
FairSpec == Spec /\ Fairness
-----------------------------------------------------------------------------
TypeOK ==
  /\ buf \in [Slots -> Blocks \cup {Nil}]
  /\ head \in Slots /\ tail \in Slots /\ count \in 0..Capacity
  /\ pc \in [Threads -> ProducerStates \cup ConsumerStates]
  /\ \A p \in Producers : pc[p] \in ProducerStates
  /\ \A c \in Consumers : pc[c] \in ConsumerStates
  /\ hand \in [Threads -> Blocks \cup {Nil}]
  /\ shutdown \in BOOLEAN
  /\ spurious \in 0..MaxSpurious

(* The ring never loses count: the write position is count slots after the
   read position, and the slots between them hold real content. *)
RingOK ==
  /\ head = (tail + count) % Capacity
  /\ \A i \in 0..count-1 : buf[Slot(i)] \in Blocks

(* Ownership moves with the message (message_bus.h:21): a block is never in
   two live slots, in a live slot and a thread's hand, or in two hands, so
   that it is neither freed twice nor used after it was freed, although a
   popped slot keeps its stale pointer. *)
SingleOwner ==
  /\ \A i, j \in 0..count-1 : buf[Slot(i)] = buf[Slot(j)] => i = j
  /\ \A t \in Threads : \A i \in 0..count-1 : hand[t] # buf[Slot(i)]
  /\ \A t, u \in Threads : hand[t] = hand[u] /\ hand[t] # Nil => t = u

(* A thread holds a block exactly while it is in the middle of a push, or
   between its pop and its free: no path of push or of the callers' error
   handling leaks the content or goes on without it. *)
HandMatchesState ==
  /\ \A p \in Producers : hand[p] # Nil <=> pc[p] \in {"pushing", "waiting", "woken", "expired"}
  /\ \A c \in Consumers : hand[c] # Nil <=> pc[c] = "holding"

(* So the queue neither loses, doubles nor leaks a message, in any order of
   pushes, pops, time-outs and the shutdown. *)
QueueSound == RingOK /\ SingleOwner /\ HandMatchesState

(* The bus is a bounded FIFO with one owner per block. *)
Transfer == INSTANCE MessageTransfer WITH
  queue <- [i \in 1..count |-> buf[Slot(i - 1)]]
TransferSpec == Transfer!Spec

(* Every message in the queue is taken, unless the program stops. *)
Delivered == \A b \in Blocks : []<>(b \notin Live \/ shutdown)

(* After SIGTERM every consumer leaves its loop, even one that is waiting on
   an empty queue: agent_loop_stop and serial_cli_stop can join it. *)
ConsumersExit == shutdown ~> \A c \in Consumers : pc[c] = "exited"
=============================================================================

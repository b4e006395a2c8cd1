-------------------------- MODULE MessageTransfer --------------------------
(***************************************************************************)
(* What the message bus promises its callers, with no ring buffer, lock or *)
(* condition variable: a bounded FIFO of heap blocks in which every block  *)
(* has one owner at a time.  A block is obtained by the thread that        *)
(* strdups it, handed to the queue, taken in order by a receiver, and      *)
(* freed by whoever holds it.                                              *)
(***************************************************************************)
EXTENDS Naturals, Sequences

CONSTANTS
  Threads,   (* every thread that sends or receives              *)
  Blocks,    (* the heap blocks msg.content may point to         *)
  Nil,       (* no block                                         *)
  Capacity   (* the number of messages the queue holds at most   *)

VARIABLES
  queue,     (* the blocks in the queue, oldest first            *)
  hand       (* the block each thread owns, or Nil               *)

vars == <<queue, hand>>

Owned == {hand[t] : t \in Threads} \cup {queue[i] : i \in 1..Len(queue)}

Init ==
  /\ queue = <<>>
  /\ hand = [t \in Threads |-> Nil]

Obtain(t) ==
  /\ hand[t] = Nil
  /\ \E b \in Blocks \ Owned : hand' = [hand EXCEPT ![t] = b]
  /\ UNCHANGED queue

Send(t) ==
  /\ hand[t] # Nil
  /\ Len(queue) < Capacity
  /\ queue' = Append(queue, hand[t])
  /\ hand' = [hand EXCEPT ![t] = Nil]

Receive(t) ==
  /\ hand[t] = Nil
  /\ queue # <<>>
  /\ hand' = [hand EXCEPT ![t] = Head(queue)]
  /\ queue' = Tail(queue)

Discard(t) ==
  /\ hand[t] # Nil
  /\ hand' = [hand EXCEPT ![t] = Nil]
  /\ UNCHANGED queue

Next == \E t \in Threads : Obtain(t) \/ Send(t) \/ Receive(t) \/ Discard(t)

Spec == Init /\ [][Next]_vars
=============================================================================

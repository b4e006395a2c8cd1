CONSTANTS
  Producers = {p1, p2}
  Consumers = {c1}
  Blocks = {b1, b2, b3, b4}
  Nil = Nil
  Capacity = 2
  MaxSpurious = 1
SPECIFICATION FairSpec
INVARIANTS TypeOK QueueSound
PROPERTIES TransferSpec Delivered ConsumersExit
CHECK_DEADLOCK FALSE

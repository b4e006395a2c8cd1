--------------------------- MODULE MCMessageQueue ---------------------------
(* One queue of the bus on small instances: MessageQueue*.cfg give the       *)
(* threads and blocks as model values.                                       *)
EXTENDS MessageQueue
=============================================================================

------------------------------ MODULE Pipeline ------------------------------
(***************************************************************************)
(* The program as a whole: main.c starts its threads one by one, the       *)
(* threads pass messages from the channels, the cron service and the       *)
(* sensors through the inbound queue to the agent (agent/agent_loop.c), and*)
(* the agent's answers through the outbound queue to the dispatcher        *)
(* (cli/serial_cli.c), which shows them on the channels (channel_mgr.c);   *)
(* after a signal main joins the threads, again one by one, and saves.     *)
(*                                                                         *)
(* The queues are the sequences of MessageTransfer, which MessageQueue     *)
(* implements.  A turn of the agent is what it says: any number of texts of*)
(* its tools, then an answer or, if a tool has answered, none.  Memory does*)
(* not run out, and the CLI's and the dispatcher's thread can be created.  *)
(***************************************************************************)
EXTENDS Naturals, Sequences, SequencesExt, Selection

CONSTANTS
  Capacity,    (* KC_BUS_QUEUE_LEN, of each queue                           *)
  MaxMsgs,     (* bound on the messages                                     *)
  MaxTexts     (* bound on the texts of a turn before its answer, and on    *)
               (* what is said in all before such a text                    *)

ASSUME PipelineAssumption ==
  Capacity \in Nat \ {0} /\ MaxMsgs \in Nat /\ MaxTexts \in Nat

Channels == {"cli", "ws"}
Producers == {"cli", "ws", "cron", "sensors"}
Msgs == 1..MaxMsgs
NoItem == [msg |-> 0, nr |-> 0]

VARIABLES
  main,        (* what main does next; "dead" when the process is gone      *)
  running,     (* s_running                                                 *)
  place,       (* where each producer is                                    *)
  holds,       (* the message it is pushing, or 0                           *)
  inbound, outbound,   (* messages, and what the agent says of them         *)
  agent, turn, (* where the agent thread is; its message                    *)
  texts,       (* what it has said in this turn                             *)
  disp, item,  (* where the dispatcher is, and what it has popped           *)
  made, from,  (* how many messages there are, and the channel of each      *)
  shown        (* what each channel has shown                               *)

(* What the run so far tells. *)
VARIABLES
  accepted,    (* the messages pushed, in order                             *)
  taken,       (* those the agent has taken, in order                       *)
  said,        (* what it has pushed of them, in order                      *)
  closed       (* the messages whose turn is over                           *)

threads == <<place, holds, agent, turn, texts, disp, item>>
queues == <<inbound, outbound>>
outside == <<made, from, shown>>
history == <<accepted, taken, said, closed>>
vars == <<main, running, threads, queues, outside, history>>

Init ==
  /\ main = "agent" /\ running = TRUE
  /\ place = [p \in Producers |-> "off"] /\ holds = [p \in Producers |-> 0]
  /\ inbound = <<>> /\ outbound = <<>>
  /\ agent = "off" /\ turn = 0 /\ texts = 0 /\ disp = "off" /\ item = NoItem
  /\ made = 0 /\ from = [m \in Msgs |-> "nobody"] /\ shown = [c \in Channels |-> <<>>]
  /\ accepted = <<>> /\ taken = <<>> /\ said = <<>> /\ closed = {}

Alive == main # "dead" /\ main # "end"
-----------------------------------------------------------------------------
(* main: a start that fails aborts the program. *)
Starts(what, next) ==
  /\ main = what
  /\ main' \in {next, "dead"}
  /\ UNCHANGED <<running, queues, outside, history>>
Places(p) == place' = [place EXCEPT ![p] = IF main' = "dead" THEN @ ELSE "idle"]

StartAgent ==
  /\ Starts("agent", "cli")
  /\ agent' = "pop"
  /\ UNCHANGED <<place, holds, turn, texts, disp, item>>
StartProducer(p, what, next) ==
  /\ Starts(what, next)
  /\ Places(p)
  /\ UNCHANGED <<holds, agent, turn, texts, disp, item>>
StartDispatch ==
  /\ Starts("dispatch", "roles")
  /\ disp' = "pop"
  /\ UNCHANGED <<place, holds, agent, turn, texts, item>>
Start ==
  \/ StartAgent
  \/ StartProducer("cli", "cli", "ws") \/ StartProducer("ws", "ws", "dispatch")
  \/ StartDispatch
  \/ StartProducer("sensors", "roles", "cron") \/ StartProducer("cron", "cron", "ready")

(* SIGINT, SIGTERM or /quit: before main has set its handler the process ends. *)
Signal ==
  /\ Alive /\ running
  /\ IF main = "ready" THEN running' = FALSE /\ UNCHANGED main
     ELSE main' = "dead" /\ UNCHANGED running
  /\ UNCHANGED <<threads, queues, outside, history>>

(* The orderly stop: one join after the other, then kc_config_save. *)
After(what, ended, next) == main = what /\ ended /\ main' = next
StopWithoutAgent ==                      (* mutant *)
  /\ \/ After("ready", ~running, "stopCron")
     \/ After("stopCron", place["cron"] = "ended", "stopSensors")
     \/ After("stopSensors", place["sensors"] = "ended", "stopDispatch")
     \/ After("stopDispatch", disp = "ended", "stopCli")
     \/ After("stopCli", place["cli"] = "ended", "stopWs")
     \/ After("stopWs", place["ws"] = "ended", "save")
     \/ After("save", TRUE, "end")
  /\ UNCHANGED <<running, threads, queues, outside, history>>
Stop ==
  /\ \/ After("ready", ~running, "stopCron")
     \/ After("stopCron", place["cron"] = "ended", "stopSensors")
     \/ After("stopSensors", place["sensors"] = "ended", "stopDispatch")
     \/ After("stopDispatch", disp = "ended", "stopCli")
     \/ After("stopCli", place["cli"] = "ended", "stopWs")
     \/ After("stopWs", place["ws"] = "ended", "stopAgent")
     \/ After("stopAgent", agent = "ended", "save")
     \/ After("save", TRUE, "end")
  /\ UNCHANGED <<running, threads, queues, outside, history>>
-----------------------------------------------------------------------------
(* A line of the terminal, a message of the page, a job that is due (answered
   where it was made), an event of a sensor (answered everywhere).            *)
ChannelsOf(p) == IF p \in Channels THEN {p}
                 ELSE IF p = "sensors" THEN {"system"} ELSE Channels \cup {"system"}
Compose(p) ==
  /\ Alive /\ running /\ place[p] = "idle" /\ made < MaxMsgs
  /\ made' = made + 1
  /\ \E c \in ChannelsOf(p) : from' = [from EXCEPT ![made'] = c]
  /\ holds' = [holds EXCEPT ![p] = made']
  /\ place' = [place EXCEPT ![p] = "push"]
  /\ UNCHANGED <<main, running, agent, turn, texts, disp, item, queues, shown, history>>

(* The queue takes it, or is full for a second, and it is freed. *)
Push(p) ==
  /\ Alive /\ place[p] = "push"
  /\ IF Len(inbound) < Capacity
     THEN /\ inbound' = Append(inbound, holds[p])
          /\ accepted' = Append(accepted, holds[p])
     ELSE UNCHANGED <<inbound, accepted>>
  /\ holds' = [holds EXCEPT ![p] = 0]
  /\ place' = [place EXCEPT ![p] = "idle"]
  /\ UNCHANGED <<main, running, agent, turn, texts, disp, item, outbound, outside, taken, said,
                 closed>>

(* A command of the CLI; /shell keeps its thread for up to 5 minutes. *)
Command ==
  /\ Alive /\ running /\ place["cli"] = "idle"
  /\ place' = [place EXCEPT !["cli"] = "command"]
  /\ UNCHANGED <<main, running, holds, agent, turn, texts, disp, item, queues, outside, history>>
CommandEnds ==
  /\ Alive /\ place["cli"] = "command"
  /\ place' = [place EXCEPT !["cli"] = "idle"]
  /\ UNCHANGED <<main, running, holds, agent, turn, texts, disp, item, queues, outside, history>>

(* Switching the role, a command or a tool starts and stops the sensors, also when
   main has already stopped them for good.                                     *)
SwitchRole ==
  /\ Alive /\ (place["cli"] = "command" \/ agent = "turn")
  /\ \/ place["sensors"] = "idle" /\ place' = [place EXCEPT !["sensors"] = "ended"]
     \/ place["sensors"] = "ended" /\ place' = [place EXCEPT !["sensors"] = "idle"]
  /\ UNCHANGED <<main, running, holds, agent, turn, texts, disp, item, queues, outside, history>>

(* The loops end with the program; the CLI's also with its input. *)
End(p) ==
  /\ Alive /\ place[p] = "idle" /\ (~running \/ p = "cli")
  /\ place' = [place EXCEPT ![p] = "ended"]
  /\ UNCHANGED <<main, running, holds, agent, turn, texts, disp, item, queues, outside, history>>
-----------------------------------------------------------------------------
(* agent_loop_task. *)
TakeAndDrop ==                           (* mutant *)
  /\ Alive /\ agent = "pop" /\ running /\ inbound # <<>>
  /\ inbound' = Tail(inbound)
  /\ \/ turn' = Head(inbound) /\ agent' = "turn" /\ texts' = 0
     \/ UNCHANGED <<turn, texts, agent>>
  /\ taken' = Append(taken, Head(inbound))
  /\ UNCHANGED <<main, running, place, holds, disp, item, outbound, outside, accepted, said,
                 closed>>
Take ==
  /\ Alive /\ agent = "pop" /\ running /\ inbound # <<>>
  /\ inbound' = Tail(inbound)
  /\ turn' = Head(inbound) /\ agent' = "turn" /\ texts' = 0
  /\ taken' = Append(taken, Head(inbound))
  /\ UNCHANGED <<main, running, place, holds, disp, item, outbound, outside, accepted, said,
                 closed>>

(* send_outbound: to the channel of the message; a full queue loses the text. *)
SayOverFull ==                           (* mutant *)
  LET words == [msg |-> turn, nr |-> texts + 1]
  IN  outbound' = Append(outbound, words) /\ said' = Append(said, words)
Say ==
  LET words == [msg |-> turn, nr |-> texts + 1]
  IN  IF Len(outbound) < Capacity
      THEN outbound' = Append(outbound, words) /\ said' = Append(said, words)
      ELSE UNCHANGED <<outbound, said>>
SayText ==
  /\ Alive /\ agent = "turn" /\ texts + Len(said) < MaxTexts
  /\ Say
  /\ texts' = texts + 1
  /\ UNCHANGED <<main, running, place, holds, agent, turn, disp, item, inbound, outside,
                 accepted, taken, closed>>
EndTurn ==
  /\ agent' = "pop" /\ turn' = 0 /\ texts' = 0 /\ closed' = closed \cup {turn}
  /\ UNCHANGED <<main, running, place, holds, disp, item, inbound, outside, accepted, taken>>
Answer == Alive /\ agent = "turn" /\ Say /\ EndTurn
Handled == Alive /\ agent = "turn" /\ EndTurn /\ UNCHANGED <<outbound, said>>

(* The flag is looked at before the pop, and after it: the message is freed. *)
AgentEnds ==
  /\ Alive /\ agent = "pop" /\ ~running
  /\ agent' = "ended"
  /\ inbound' \in {inbound} \cup {Tail(q) : q \in {inbound} \ {<<>>}}
  /\ UNCHANGED <<main, running, place, holds, turn, texts, disp, item, outbound, outside, history>>
-----------------------------------------------------------------------------
(* outbound_dispatch and channel_mgr_send. *)
PopNewest ==                             (* mutant: from the wrong end *)
  /\ Alive /\ disp = "pop" /\ running /\ outbound # <<>>
  /\ item' = Last(outbound) /\ outbound' = Front(outbound)
  /\ disp' = "send"
  /\ UNCHANGED <<main, running, place, holds, agent, turn, texts, inbound, outside, history>>
Pop ==
  /\ Alive /\ disp = "pop" /\ running /\ outbound # <<>>
  /\ item' = Head(outbound) /\ outbound' = Tail(outbound)
  /\ disp' = "send"
  /\ UNCHANGED <<main, running, place, holds, agent, turn, texts, inbound, outside, history>>
GoesTo(c, m) == from[m] \in {c, "system"}
SendOut ==
  /\ Alive /\ disp = "send"
  /\ shown' = [c \in Channels |-> IF GoesTo(c, item.msg) THEN Append(shown[c], item) ELSE shown[c]]
  /\ item' = NoItem /\ disp' = "pop"
  /\ UNCHANGED <<main, running, place, holds, agent, turn, texts, queues, made, from, history>>
DispatchEnds ==
  /\ Alive /\ disp = "pop" /\ ~running
  /\ disp' = "ended"
  /\ outbound' \in {outbound} \cup {Tail(q) : q \in {outbound} \ {<<>>}}
  /\ UNCHANGED <<main, running, place, holds, agent, turn, texts, item, inbound, outside, history>>

Producer(p) == Push(p) \/ End(p)
Agent == Take \/ SayText \/ Answer \/ Handled \/ AgentEnds
Dispatcher == Pop \/ SendOut \/ DispatchEnds
Next ==
  \/ Start \/ Signal \/ Stop
  \/ (\E p \in Producers : Compose(p) \/ Producer(p)) \/ Command \/ CommandEnds
  \/ SwitchRole
  \/ Agent \/ Dispatcher

(* Every thread gets through what it has begun, a command ends, and the model
   answers or fails; nobody need type, fire or stop anything.                 *)
Proceeds(p) == Push(p) \/ (End(p) /\ ~running) \/ (p = "cli" /\ CommandEnds)
Fairness ==
  /\ WF_vars(Start \/ Stop)
  /\ \A p \in Producers : WF_vars(Proceeds(p))
  /\ WF_vars(Agent) /\ WF_vars(Dispatcher)
Spec == Init /\ [][Next]_vars /\ Fairness
-----------------------------------------------------------------------------
Item == [msg : Msgs, nr : Nat]
TypeOK ==
  /\ main \in {"agent", "cli", "ws", "dispatch", "roles", "cron", "ready", "stopCron",
               "stopSensors", "stopDispatch", "stopCli", "stopWs", "stopAgent", "save", "end",
               "dead"}
  /\ running \in BOOLEAN /\ made \in 0..MaxMsgs /\ texts \in 0..MaxTexts
  /\ place \in [Producers -> {"off", "idle", "push", "command", "ended"}]
  /\ holds \in [Producers -> 0..MaxMsgs] /\ turn \in 0..MaxMsgs
  /\ inbound \in Seq(Msgs) /\ outbound \in Seq(Item) /\ item \in Item \cup {NoItem}
  /\ Len(inbound) <= Capacity /\ Len(outbound) <= Capacity
  /\ agent \in {"off", "pop", "turn", "ended"} /\ disp \in {"off", "pop", "send", "ended"}
  /\ from \in [Msgs -> Channels \cup {"system", "nobody"}] /\ shown \in [Channels -> Seq(Item)]
  /\ accepted \in Seq(Msgs) /\ taken \in Seq(Msgs) /\ said \in Seq(Item) /\ closed \subseteq Msgs

(* Each channel shows what the agent says of its own messages and of the events,
   in the order in which the messages were accepted, nothing twice and nothing
   left out: of all that was said, what goes to it of a first part, while the
   rest is on its way.  After the signal the rest may be dropped, never a part
   from the middle.                                                            *)
For(c, items) == Selected(items, {i \in 1..Len(items) : GoesTo(c, items[i].msg)})
OnTheWay == (IF disp = "send" THEN <<item>> ELSE <<>>) \o outbound
ShownInOrder ==
  /\ \E n \in 0..Len(said) :
       /\ \A c \in Channels : shown[c] = For(c, SubSeq(said, 1, n))
       /\ running => OnTheWay = SubSeq(said, n + 1, Len(said))
  /\ IF running THEN accepted = taken \o inbound ELSE IsPrefix(taken, accepted)
  /\ \A i, k \in 1..Len(said) : \A a, b \in 1..Len(taken) :
       (said[i].msg = taken[a] /\ said[k].msg = taken[b] /\ i < k)
         => a < b \/ (a = b /\ said[i].nr < said[k].nr)

(* When main saves the configuration for the last time no thread is left to
   change it: not the page, not the agent's tools, not a command of the CLI.
   (The sensors, which do not, may have been started again by a role switch.)  *)
SavedLast ==
  main \in {"save", "end"} =>
    /\ \A p \in Producers \ {"sensors"} : place[p] = "ended"
    /\ agent = "ended" /\ disp = "ended"

(* Again and again every message accepted so far has had its turn and all that was
   said has left the queue, unless the program stops; and a stop comes to its end
   whatever the threads were doing.                                             *)
Drained == ToSet(accepted) \subseteq closed /\ outbound = <<>>
Flows == []<>(IF running THEN Drained \/ main = "dead" ELSE main = "end")
=============================================================================

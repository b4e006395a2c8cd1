----------------------------- MODULE RoleSwitch -----------------------------
(***************************************************************************)
(* roles/role_mgr.c with what a switch of role changes: the disabled flags *)
(* and the cached tools text of tools/tool_registry.c, the sensors started *)
(* and stopped by sensors/sensor_mgr.c, the saved role in the              *)
(* configuration; and the turn of the agent thread that keeps a pointer to *)
(* the tools text.                                                         *)
(*                                                                         *)
(* role_mgr_switch takes no lock.  It runs in the main thread (at start),  *)
(* in the CLI thread (/role NAME) and in the agent thread (the switch_role *)
(* tool), step by step as written here; at the end the main thread runs    *)
(* sensor_mgr_stop_all, which is a switch to NoRole cut short, while the   *)
(* other two may still begin a switch.  So switches overlap, and what C    *)
(* leaves undefined then (a text freed twice, a thread joined or a model   *)
(* freed by two) either goes unnoticed or ends the process (Aborts).       *)
(***************************************************************************)
EXTENDS Naturals, Sequences, FiniteSets, SequencesExt

CONSTANTS
  Roles,         (* names of role files; "default" is built in              *)
  NoRole,        (* s_active = -1                                           *)
  Tools,         (* s_tools                                                 *)
  SensorTable,   (* s_sensors, in the order of registration                 *)
  SensorsOf,     (* role -> the sequence sensors[] of its file              *)
  DisabledBy,    (* role -> the sequence disabled_tools[] of its file       *)
  Users,         (* the threads that switch roles, of "cli" and "agent"     *)
  MaxSwitches    (* bound on the switches that they begin                   *)

Default == "default"
Named == Roles \cup {Default}
Sensors == Range(SensorTable)
Threads == {"main", "cli", "agent"}

ASSUME RoleAssumption ==
  /\ Default \notin Roles /\ NoRole \notin Named /\ SensorTable \in Seq(Sensors)
  /\ SensorsOf \in [Named -> Seq(Sensors)] /\ SensorsOf[Default] = <<>>
  /\ DisabledBy \in [Named -> Seq(Tools)] /\ DisabledBy[Default] = <<>>
  /\ Users \subseteq {"cli", "agent"} /\ MaxSwitches \in Nat

VARIABLES
  known,      (* s_roles, as far as they are loaded                         *)
  active,     (* s_active                                                   *)
  saved,      (* active_role in the configuration                           *)
  disabled,   (* the tools with s_disabled set                              *)
  text,       (* s_tools_json: the number of a text in heap, or 0 for NULL  *)
  heap,       (* every tools text built so far: its tools, how often freed  *)
  running,    (* s_running                                                  *)
  stopping,   (* the stopping flag of each sensor                           *)
  handle,     (* ctx->thread: the last thread created for the sensor        *)
  alive,      (* the threads of each sensor that have not ended             *)
  pc,         (* where each thread is in role_mgr_switch, "idle" outside    *)
  target,     (* the role it switches to                                    *)
  todo,       (* what is left of the loop it is in                          *)
  joining,    (* the sensor's thread that it joins                          *)
  turn,       (* whether the agent thread is in a turn                      *)
  held,       (* tools_json of agent_loop_task                              *)
  shutdown,   (* kc_is_shutting_down()                                      *)
  switches,   (* switches begun                                             *)
  (* Of the past: whether the last switch to begin did so during another,   *)
  (* and whether any did, or began after main had stopped the sensors.      *)
  mixed, crossed

roles == <<known, active, saved>>
tools == <<disabled, text, heap>>
sensors == <<running, stopping, handle, alive>>
control == <<pc, target, todo, joining>>
past == <<mixed, crossed>>
agent == <<turn, held>>
vars == <<roles, tools, sensors, control, agent, shutdown, switches, past>>

Init ==
  /\ known = {} /\ active = NoRole /\ saved \in Named
  /\ disabled = {} /\ text = 1 /\ heap = <<[tools |-> Tools, frees |-> 0]>>
  /\ running = [s \in Sensors |-> FALSE] /\ stopping = [s \in Sensors |-> FALSE]
  /\ handle = [s \in Sensors |-> 0] /\ alive = [s \in Sensors |-> {}]
  /\ pc = [t \in Threads |-> IF t = "main" THEN "load" ELSE "idle"]
  /\ target = [t \in Threads |-> NoRole] /\ todo = [t \in Threads |-> <<>>]
  /\ joining = [t \in Threads |-> 0] /\ mixed = FALSE /\ crossed = FALSE
  /\ turn = FALSE /\ held = 0
  /\ shutdown = FALSE /\ switches = 0

(* Thread t goes on at place, with the rest of a loop still to do. *)
Goto(t, place, rest) ==
  /\ pc' = [pc EXCEPT ![t] = place]
  /\ todo' = [todo EXCEPT ![t] = rest]
Step(t, place, rest) ==
  Goto(t, place, rest) /\ UNCHANGED <<target, joining, shutdown, switches, past>>

Outside == {"load", "idle", "halted", "aborted"}
Overlaps(t) == \E u \in Threads \ {t} : pc[u] \notin Outside

(* It begins a switch to role r, and first has the sensors of list to stop. *)
Enter(t, r, list) ==
  /\ Goto(t, "stop", list)
  /\ target' = [target EXCEPT ![t] = r]
  /\ mixed' = Overlaps(t)
  /\ crossed' = (crossed \/ mixed' \/ pc["main"] = "halted")
  /\ UNCHANGED <<roles, tools, sensors, joining, agent, shutdown>>
-----------------------------------------------------------------------------
(* role_mgr_init: the built-in role, then the files that parse, in the order
   of the directory.  Files beyond MAX_ROLES or with a name taken are skipped. *)
LoadRole ==
  /\ pc["main"] = "load"
  /\ \E r \in Named \ known :
       /\ known = {} => r = Default
       /\ known' = known \cup {r}
  /\ UNCHANGED <<active, saved, tools, sensors, control, agent, shutdown, switches, past>>

SavedUnchecked == saved                  (* mutant *)
SavedOrDefault == IF saved \in known THEN saved ELSE Default

StopFirst == IF active = NoRole THEN <<>> ELSE SensorsOf[active]

(* ... then the saved role, or the default if its file is gone. *)
EndLoad ==
  /\ pc["main"] = "load" /\ Default \in known
  /\ \/ /\ SavedOrDefault # active
        /\ Enter("main", SavedOrDefault, StopFirst)
        /\ UNCHANGED switches
     \/ /\ SavedOrDefault = active
        /\ Step("main", "idle", <<>>)
        /\ UNCHANGED <<roles, tools, sensors, agent>>

(* role_mgr_switch in the CLI or, in a turn, in the agent thread: a name that
   is not known, or of the role in force, changes nothing. *)
Begin(t) ==
  /\ pc[t] = "idle" /\ t \in Users
  /\ t = "agent" => turn
  /\ switches < MaxSwitches
  /\ \E r \in known \ {active} : Enter(t, r, StopFirst)
  /\ switches' = switches + 1

(* main, after the signal: sensor_mgr_stop_all. *)
StopAll ==
  /\ shutdown /\ pc["main"] = "idle"
  /\ Enter("main", NoRole, SensorTable)
  /\ UNCHANGED switches
-----------------------------------------------------------------------------
(* 1. sensor_mgr_stop_by_name: ask a running sensor to stop, and join it; a
   thread that has already been joined is not waited for.                   *)
SkipStop(t) ==
  /\ pc[t] = "stop" /\ todo[t] # <<>> /\ ~running[Head(todo[t])]
  /\ Step(t, "stop", Tail(todo[t]))
  /\ UNCHANGED <<roles, tools, sensors, agent>>

StopSensorUnasked(t) ==                  (* mutant: the flag is not set *)
  /\ pc[t] = "stop" /\ todo[t] # <<>> /\ running[Head(todo[t])]
  /\ Goto(t, "join", todo[t])
  /\ joining' = [joining EXCEPT ![t] = handle[Head(todo[t])]]
  /\ UNCHANGED <<roles, tools, sensors, agent, target, shutdown, switches, past>>

StopSensor(t) ==
  /\ pc[t] = "stop" /\ todo[t] # <<>> /\ running[Head(todo[t])]
  /\ stopping' = [stopping EXCEPT ![Head(todo[t])] = TRUE]
  /\ Goto(t, "join", todo[t])
  /\ joining' = [joining EXCEPT ![t] = handle[Head(todo[t])]]
  /\ UNCHANGED <<roles, tools, running, handle, alive, agent, target, shutdown, switches, past>>

JoinedAtOnce(t) ==                       (* mutant: the thread is not joined *)
  LET s == Head(todo[t])
  IN  /\ pc[t] = "join"
      /\ running' = [running EXCEPT ![s] = FALSE]
      /\ Goto(t, "stop", Tail(todo[t]))
      /\ joining' = [joining EXCEPT ![t] = 0]
      /\ UNCHANGED <<roles, tools, stopping, handle, alive, agent, target, shutdown, switches, past>>

Joined(t) ==
  LET s == Head(todo[t])
  IN  /\ pc[t] = "join" /\ joining[t] \notin alive[s]
      /\ running' = [running EXCEPT ![s] = FALSE]
      /\ Goto(t, "stop", Tail(todo[t]))
      /\ joining' = [joining EXCEPT ![t] = 0]
      /\ UNCHANGED <<roles, tools, stopping, handle, alive, agent, target, shutdown, switches, past>>

Halt ==
  /\ pc["main"] = "stop" /\ todo["main"] = <<>> /\ target["main"] = NoRole
  /\ Step("main", "halted", <<>>)
  /\ UNCHANGED <<roles, tools, sensors, agent>>

(* 2. tool_registry_reset_all_enabled. *)
AllEnabled(t) == {}

Reset(t) ==
  /\ pc[t] = "stop" /\ todo[t] = <<>> /\ target[t] # NoRole
  /\ disabled' = AllEnabled(t)
  /\ Step(t, "disable", DisabledBy[target[t]])
  /\ UNCHANGED <<roles, text, heap, sensors, agent>>

(* 3. tool_registry_set_disabled. *)
Disable(t) ==
  /\ pc[t] = "disable" /\ todo[t] # <<>>
  /\ disabled' = disabled \cup {Head(todo[t])}
  /\ Step(t, "disable", Tail(todo[t]))
  /\ UNCHANGED <<roles, text, heap, sensors, agent>>

(* 4. tool_registry_rebuild frees the old text and builds the new one. *)
FreeText(t) ==
  /\ pc[t] = "disable" /\ todo[t] = <<>>
  /\ heap' = IF text = 0 THEN heap ELSE [heap EXCEPT ![text].frees = @ + 1]
  /\ Step(t, "build", <<>>)
  /\ UNCHANGED <<roles, disabled, text, sensors, agent>>

OldText == text                          (* mutant: the pointer is kept *)
NewText == Len(heap) + 1

BuildText(t) ==
  /\ pc[t] = "build"
  /\ heap' = Append(heap, [tools |-> Tools \ disabled, frees |-> 0])
  /\ text' = NewText
  /\ Step(t, "activate", <<>>)
  /\ UNCHANGED <<roles, disabled, sensors, agent>>

(* 5. *)
Activate(t) ==
  /\ pc[t] = "activate"
  /\ active' = target[t]
  /\ Step(t, "start", SensorsOf[target[t]])
  /\ UNCHANGED <<known, saved, tools, sensors, agent>>

(* 6. sensor_mgr_start_by_name: loading the models takes a while. *)
SkipStart(t) ==
  /\ pc[t] = "start" /\ todo[t] # <<>> /\ running[Head(todo[t])]
  /\ Step(t, "start", Tail(todo[t]))
  /\ UNCHANGED <<roles, tools, sensors, agent>>

StartSensor(t) ==
  /\ pc[t] = "start" /\ todo[t] # <<>> /\ ~running[Head(todo[t])]
  /\ Step(t, "starting", todo[t])
  /\ UNCHANGED <<roles, tools, sensors, agent>>

StartFails(t) ==
  /\ pc[t] = "starting"
  /\ Step(t, "start", Tail(todo[t]))
  /\ UNCHANGED <<roles, tools, sensors, agent>>

Marked(s) == [running EXCEPT ![s] = TRUE]

Started(t) ==
  LET s == Head(todo[t])
  IN  /\ pc[t] = "starting"
      /\ stopping' = [stopping EXCEPT ![s] = FALSE]
      /\ handle' = [handle EXCEPT ![s] = @ + 1]
      /\ alive' = [alive EXCEPT ![s] = @ \cup {handle'[s]}]
      /\ running' = Marked(s)
      /\ Step(t, "start", Tail(todo[t]))
      /\ UNCHANGED <<roles, tools, agent>>

(* 7. *)
Finish(t) ==
  /\ pc[t] = "start" /\ todo[t] = <<>>
  /\ saved' = target[t]
  /\ Step(t, "idle", <<>>)
  /\ UNCHANGED <<known, active, tools, sensors, agent>>

(* The second of two that free one text, or that stop one sensor (and free its
   model), may end the process.                                               *)
TwiceDone(t) ==
  \/ pc[t] = "disable" /\ todo[t] = <<>> /\ text # 0 /\ heap[text].frees > 0
  \/ pc[t] = "join" /\ \E u \in Threads \ {t} : pc[u] = "join" /\ Head(todo[u]) = Head(todo[t])
Aborts(t) ==
  /\ TwiceDone(t)
  /\ pc' = [u \in Threads |-> "aborted"] /\ alive' = [s \in Sensors |-> {}]
  /\ UNCHANGED <<roles, tools, running, stopping, handle, target, todo, joining, agent, shutdown,
                 switches, past>>
-----------------------------------------------------------------------------
(* A sensor's thread sees the flag, or ends by itself when its device fails. *)
Obey(s) ==
  /\ stopping[s] /\ alive[s] # {}
  /\ \E i \in alive[s] : alive' = [alive EXCEPT ![s] = @ \ {i}]
  /\ UNCHANGED <<roles, tools, running, stopping, handle, control, agent, shutdown, switches, past>>
DeviceFails(s) ==
  /\ \E i \in alive[s] : alive' = [alive EXCEPT ![s] = @ \ {i}]
  /\ UNCHANGED <<roles, tools, running, stopping, handle, control, agent, shutdown, switches, past>>

(* The agent thread takes a message, and the tools text for the whole turn;
   between its calls to the model the turn may switch roles (Begin). *)
BeginTurn ==
  /\ ~turn /\ ~shutdown /\ pc["agent"] = "idle"
  /\ turn' = TRUE /\ held' = text
  /\ UNCHANGED <<roles, tools, sensors, control, shutdown, switches, past>>
EndTurn ==
  /\ turn /\ pc["agent"] = "idle"
  /\ turn' = FALSE /\ held' = 0
  /\ UNCHANGED <<roles, tools, sensors, control, shutdown, switches, past>>

Signal ==
  /\ ~shutdown
  /\ shutdown' = TRUE
  /\ UNCHANGED <<roles, tools, sensors, control, agent, switches, past>>

Switch(t) ==
  \/ SkipStop(t) \/ StopSensor(t) \/ Joined(t) \/ Reset(t) \/ Disable(t)
  \/ FreeText(t) \/ BuildText(t) \/ Activate(t)
  \/ SkipStart(t) \/ StartSensor(t) \/ StartFails(t) \/ Started(t) \/ Finish(t)
Main == EndLoad \/ StopAll \/ Halt

Next ==
  \/ LoadRole \/ Main \/ Signal
  \/ \E t \in Threads : Begin(t) \/ Switch(t) \/ Aborts(t)
  \/ \E s \in Sensors : Obey(s) \/ DeviceFails(s)
  \/ BeginTurn \/ EndTurn

(* Threads in the middle of a switch are scheduled, the main thread gets
   through its steps, and a sensor's loop comes round to look at its flag. *)
Fairness ==
  /\ \A t \in Threads : WF_vars(Switch(t))
  /\ WF_vars(Main)
  /\ \A s \in Sensors : WF_vars(Obey(s))

Spec == Init /\ [][Next]_vars
FairSpec == Spec /\ Fairness
-----------------------------------------------------------------------------
Places == {"load", "idle", "stop", "join", "disable", "build", "activate", "start", "starting",
           "halted", "aborted"}
TypeOK ==
  /\ known \subseteq Named /\ active \in known \cup {NoRole} /\ saved \in Named
  /\ disabled \subseteq Tools /\ text \in 0..Len(heap)
  /\ heap \in Seq([tools : SUBSET Tools, frees : Nat])
  /\ running \in [Sensors -> BOOLEAN] /\ stopping \in [Sensors -> BOOLEAN]
  /\ handle \in [Sensors -> Nat] /\ alive \in [Sensors -> SUBSET Nat]
  /\ pc \in [Threads -> Places] /\ target \in [Threads -> Named \cup {NoRole}]
  /\ todo \in [Threads -> Seq(Sensors) \cup Seq(Tools)] /\ joining \in [Threads -> Nat]
  /\ turn \in BOOLEAN /\ held \in 0..Len(heap)
  /\ shutdown \in BOOLEAN /\ switches \in 0..MaxSwitches
  /\ mixed \in BOOLEAN /\ crossed \in BOOLEAN

Quiet == \A t \in Threads : pc[t] = "idle"

(* After a switch that ran alone, whatever earlier ones that overlapped have
   left, the flags, the text the model is given and the saved name are those of
   the role in force.                                                         *)
RoleApplied ==
  Quiet /\ ~mixed =>
    /\ active \in known /\ saved = active
    /\ disabled = Range(DisabledBy[active])
    /\ heap[text].tools = Tools \ disabled

(* As long as no two switches have overlapped: between switches a sensor's
   thread runs only in a role that lists it; once main has stopped the sensors
   none runs; and never do two for one sensor.                                *)
SensorsFollowRole ==
  \A s \in Sensors : ~crossed =>
    /\ Cardinality(alive[s]) <= 1
    /\ Quiet /\ alive[s] # {} => s \in Range(SensorsOf[active])
    /\ pc["main"] = "halted" => alive[s] = {}

(* The role that the program says is in force is in force, in its tools and in
   its sensors, whichever thread switched and whatever device failed.         *)
RoleInForce == RoleApplied /\ SensorsFollowRole

(* However the rebuilds of several threads interleave: when none is at work, the
   text that s_tools_json points to, the one the next turn takes, is not freed. *)
RegistryTextLives ==
  (\A t \in Threads : pc[t] \notin {"build", "aborted"}) => heap[text].frees = 0

(* A switch that runs alone ends: the sensors it stops are asked to, and are
   joined.                                                                     *)
SwitchEnds == \A t \in Threads : []<>(pc[t] \in Outside \/ mixed)

(* "Generated at build time, static lifetime" (tool_registry.h:51): the text a
   turn gives to the model exists. *)
TextInUse == (turn /\ pc["agent"] = "idle" /\ held # 0) => heap[held].frees = 0
=============================================================================

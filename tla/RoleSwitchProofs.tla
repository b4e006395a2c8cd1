--------------------------- MODULE RoleSwitchProofs ---------------------------
(***************************************************************************)
(* TypeOK, RoleInForce and RegistryTextLives for any role files, tools,    *)
(* sensors, users and number of switches, however the switches overlap.    *)
(*                                                                         *)
(* The types need that each thread has a role and a list that fit its      *)
(* place.  For the text: whoever has freed the one that s_tools_json points*)
(* to is still at work on its successor (TextInv).  For the rest, the place*)
(* of a switch tells what it has done so far: to the tools when none ran   *)
(* beside it since it began (ToolsInv), and to the sensors, of which each  *)
(* switch only stops what its own view of the role in force lists, when no *)
(* two switches have ever overlapped (SensorsInv).                         *)
(***************************************************************************)
EXTENDS RoleSwitch, SequenceTheorems, FiniteSetTheorems, TLAPS

Texts == [tools : SUBSET Tools, frees : Nat]
-----------------------------------------------------------------------------
(* What a loop has done and what it has left. *)
LEMMA HeadAndTail ==
  ASSUME NEW S, NEW s \in Seq(S), s # <<>>
  PROVE  Head(s) \in S /\ Tail(s) \in Seq(S) /\ Range(s) = {Head(s)} \cup Range(Tail(s))
<1>1. Head(s) \in S /\ Tail(s) \in Seq(S) /\ Len(Tail(s)) = Len(s) - 1
        /\ \A i \in 1..Len(Tail(s)) : Tail(s)[i] = s[i + 1]
  BY HeadTailProperties
<1>2. Len(s) \in Nat \ {0} /\ DOMAIN s = 1..Len(s) /\ DOMAIN Tail(s) = 1..Len(Tail(s))
  BY <1>1, LenProperties, EmptySeq
<1>3. Head(s) = s[1]
  BY <1>2
<1>4. ASSUME NEW i \in 1..Len(s) PROVE s[i] \in {Head(s)} \cup Range(Tail(s))
  <2>1. CASE i = 1
    BY <2>1, <1>3
  <2>2. CASE i # 1
    <3>1. i - 1 \in DOMAIN Tail(s) /\ Tail(s)[i - 1] = s[i]
      BY <2>2, <1>1, <1>2
    <3> QED
      BY <3>1 DEF Range
  <2> QED
    BY <2>1, <2>2
<1>5. ASSUME NEW i \in 1..Len(Tail(s)) PROVE Tail(s)[i] \in Range(s)
  BY <1>1, <1>2 DEF Range
<1>6. s[1] \in Range(s)
  BY <1>2 DEF Range
<1> QED
  BY <1>1, <1>2, <1>3, <1>4, <1>5, <1>6 DEF Range

LEMMA RangeOfEmpty == Range(<<>>) = {}
<1>1. <<>> \in Seq({}) /\ Len(<<>>) = 0
  BY EmptySeq
<1>2. DOMAIN <<>> = {}
  BY <1>1, LenProperties
<1> QED
  BY <1>2 DEF Range

LEMMA Freed ==
  ASSUME NEW r \in Texts
  PROVE  [r EXCEPT !.frees = @ + 1] = [tools |-> r.tools, frees |-> r.frees + 1]
<1>1. PICK a \in SUBSET Tools, b \in Nat : r = [tools |-> a, frees |-> b]
  BY DEF Texts
<1> QED
  BY <1>1

(* The types: role and list fit the place. *)
Placed(t) ==
  /\ target[t] \in known \cup {NoRole}
  /\ pc[t] \in {"disable", "build", "activate", "start", "starting"} => target[t] \in known
  /\ pc[t] \in {"stop", "join", "start", "starting"} => todo[t] \in Seq(Sensors)
  /\ pc[t] = "disable" => todo[t] \in Seq(Tools)
  /\ pc[t] \in {"join", "starting"} => todo[t] # <<>>
TypesInv == TypeOK /\ \A t \in Threads : Placed(t)

(* The places outside of the loops: what is left of the list there does not matter. *)
NoLoop == {"load", "idle", "build", "activate", "halted", "aborted"}
StateTypes ==
  /\ known \subseteq Named /\ active \in known \cup {NoRole} /\ saved \in Named
  /\ disabled \subseteq Tools /\ text \in 0..Len(heap)
  /\ heap \in Seq([tools : SUBSET Tools, frees : Nat])
  /\ running \in [Sensors -> BOOLEAN] /\ stopping \in [Sensors -> BOOLEAN]
  /\ handle \in [Sensors -> Nat] /\ alive \in [Sensors -> SUBSET Nat]
  /\ turn \in BOOLEAN /\ held \in 0..Len(heap)
  /\ shutdown \in BOOLEAN /\ switches \in 0..MaxSwitches
  /\ joining \in [Threads -> Nat] /\ mixed \in BOOLEAN /\ crossed \in BOOLEAN

(* A thread that goes to a place with what fits it; the others stay where they are. *)
LEMMA GoesTyped ==
  ASSUME TypesInv, NEW t \in Threads, NEW r \in known \cup {NoRole}, NEW place \in Places, NEW rest,
         Goto(t, place, rest), target' = [target EXCEPT ![t] = r], known' = known,
         place \in {"disable", "build", "activate", "start", "starting"} => r \in known,
         IF place = "disable" THEN rest \in Seq(Tools)
         ELSE IF place \in NoLoop THEN rest \in Seq(Tools) \cup Seq(Sensors)
         ELSE rest \in Seq(Sensors),
         place \in {"join", "starting"} => rest # <<>>,
         StateTypes'
  PROVE  TypesInv'
<1>1. /\ pc \in [Threads -> Places] /\ target \in [Threads -> Named \cup {NoRole}]
      /\ todo \in [Threads -> Seq(Sensors) \cup Seq(Tools)] /\ known \subseteq Named
      /\ \A u \in Threads : Placed(u)
  BY DEF TypesInv, TypeOK
<1>2. rest \in Seq(Sensors) \cup Seq(Tools) /\ r \in Named \cup {NoRole}
  BY <1>1
<1>3. /\ pc' = [pc EXCEPT ![t] = place] /\ todo' = [todo EXCEPT ![t] = rest]
      /\ target' = [target EXCEPT ![t] = r]
  BY DEF Goto
<1>4. /\ pc' \in [Threads -> Places] /\ target' \in [Threads -> Named \cup {NoRole}]
      /\ todo' \in [Threads -> Seq(Sensors) \cup Seq(Tools)]
  BY <1>1, <1>2, <1>3
<1>5. pc'[t] = place /\ todo'[t] = rest /\ target'[t] = r
  BY <1>1, <1>3
<1>6. \A u \in Threads \ {t} : pc'[u] = pc[u] /\ todo'[u] = todo[u] /\ target'[u] = target[u]
  BY <1>1, <1>3
<1>7. Placed(t)'
  BY <1>5 DEF Placed, Places, NoLoop
<1>8. \A u \in Threads \ {t} : Placed(u)'
  BY <1>1, <1>6 DEF Placed
<1>9. TypeOK'
  BY <1>4 DEF TypeOK, StateTypes
<1> QED
  BY <1>7, <1>8, <1>9 DEF TypesInv

(* The steps that move no thread. *)
LEMMA StaysTyped ==
  ASSUME TypesInv, UNCHANGED control, known \subseteq known', StateTypes'
  PROVE  TypesInv'
<1>1. /\ pc' \in [Threads -> Places] /\ target' \in [Threads -> Named \cup {NoRole}]
      /\ todo' \in [Threads -> Seq(Sensors) \cup Seq(Tools)]
  BY DEF TypesInv, TypeOK, control
<1>2. \A u \in Threads : Placed(u)'
  BY DEF TypesInv, Placed, control
<1> QED
  BY <1>1, <1>2 DEF TypesInv, TypeOK, StateTypes

LEMMA SwitchTyped ==
  ASSUME TypesInv, NEW t \in Threads, Switch(t) \/ (Halt /\ t = "main")
  PROVE  TypesInv'
<1>0. /\ StateTypes /\ Placed(t) /\ target \in [Threads -> Named \cup {NoRole}]
      /\ known \subseteq Named /\ NoRole \notin Named
  BY RoleAssumption DEF TypesInv, TypeOK, StateTypes
<1>1. /\ <<>> \in Seq(Sensors) /\ <<>> \in Seq(Tools)
      /\ \A r \in Named : SensorsOf[r] \in Seq(Sensors) /\ DisabledBy[r] \in Seq(Tools)
  BY RoleAssumption, EmptySeq
<1>2. /\ todo[t] \in Seq(Sensors) /\ todo[t] # <<>> => Head(todo[t]) \in Sensors /\ Tail(todo[t]) \in Seq(Sensors)
      /\ todo[t] \in Seq(Tools) /\ todo[t] # <<>> => Head(todo[t]) \in Tools /\ Tail(todo[t]) \in Seq(Tools)
  BY HeadTailProperties
<1>3. target' = target => target' = [target EXCEPT ![t] = target[t]]
  BY <1>0
<1>4. \A p \in {"stop", "join", "disable", "build", "activate", "start", "starting", "idle", "halted"} : p \in Places
  BY DEF Places
<1>5. target[t] \in known \cup {NoRole}
  BY <1>0 DEF Placed
<1>6. CASE SkipStop(t)
  <2>1. /\ Goto(t, "stop", Tail(todo[t])) /\ target' = target
        /\ UNCHANGED <<roles, tools, sensors, agent, joining, shutdown, switches, past>>
        /\ Tail(todo[t]) \in Seq(Sensors)
    BY <1>0, <1>2, <1>6 DEF SkipStop, Step, Placed
  <2>2. StateTypes' /\ known' = known
    BY <1>0, <2>1 DEF StateTypes, roles, tools, sensors, agent, past
  <2> QED
    BY <1>3, <1>4, <1>5, <2>1, <2>2, GoesTyped DEF NoLoop
<1>7. CASE StopSensor(t)
  <2>1. /\ Goto(t, "join", todo[t]) /\ target' = target
        /\ UNCHANGED <<roles, tools, running, handle, alive, agent, shutdown, switches, past>>
        /\ todo[t] \in Seq(Sensors) /\ todo[t] # <<>>
        /\ stopping' = [stopping EXCEPT ![Head(todo[t])] = TRUE]
        /\ joining' = [joining EXCEPT ![t] = handle[Head(todo[t])]]
    BY <1>0, <1>7 DEF StopSensor, Placed
  <2>2. joining' \in [Threads -> Nat]
    BY <1>0, <1>2, <2>1 DEF StateTypes
  <2>3. StateTypes' /\ known' = known
    BY <1>0, <2>1, <2>2 DEF StateTypes, roles, tools, agent, past
  <2> QED
    BY <1>3, <1>4, <1>5, <2>1, <2>3, GoesTyped DEF NoLoop
<1>8. CASE Joined(t)
  <2>1. /\ Goto(t, "stop", Tail(todo[t])) /\ target' = target
        /\ UNCHANGED <<roles, tools, stopping, handle, alive, agent, shutdown, switches, past>>
        /\ Tail(todo[t]) \in Seq(Sensors)
        /\ running' = [running EXCEPT ![Head(todo[t])] = FALSE]
        /\ joining' = [joining EXCEPT ![t] = 0]
    BY <1>0, <1>2, <1>8 DEF Joined, Placed
  <2>2. StateTypes' /\ known' = known
    BY <1>0, <2>1 DEF StateTypes, roles, tools, agent, past
  <2> QED
    BY <1>3, <1>4, <1>5, <2>1, <2>2, GoesTyped DEF NoLoop
<1>9. CASE Halt /\ t = "main"
  <2>1. /\ Goto(t, "halted", <<>>) /\ target' = target
        /\ UNCHANGED <<roles, tools, sensors, agent, joining, shutdown, switches, past>>
    BY <1>9 DEF Halt, Step
  <2>2. StateTypes' /\ known' = known
    BY <1>0, <2>1 DEF StateTypes, roles, tools, sensors, agent, past
  <2> QED
    BY <1>1, <1>3, <1>4, <1>5, <2>1, <2>2, GoesTyped DEF NoLoop
<1>10. CASE Reset(t)
  <2>1. /\ Goto(t, "disable", DisabledBy[target[t]]) /\ target' = target
        /\ UNCHANGED <<roles, text, heap, sensors, agent, joining, shutdown, switches, past>>
        /\ disabled' = {} /\ target[t] \in known
    BY <1>5, <1>10 DEF Reset, Step, AllEnabled
  <2>2. StateTypes' /\ known' = known
    BY <1>0, <2>1 DEF StateTypes, roles, sensors, agent, past
  <2>3. DisabledBy[target[t]] \in Seq(Tools)
    BY <1>0, <1>1, <2>1
  <2> QED
    BY <1>3, <1>4, <1>5, <2>1, <2>2, <2>3, GoesTyped DEF NoLoop
<1>11. CASE Disable(t)
  <2>1. /\ Goto(t, "disable", Tail(todo[t])) /\ target' = target
        /\ UNCHANGED <<roles, text, heap, sensors, agent, joining, shutdown, switches, past>>
        /\ disabled' = disabled \cup {Head(todo[t])} /\ Head(todo[t]) \in Tools
        /\ Tail(todo[t]) \in Seq(Tools) /\ target[t] \in known
    BY <1>0, <1>2, <1>11 DEF Disable, Step, Placed
  <2>2. StateTypes' /\ known' = known
    BY <1>0, <2>1 DEF StateTypes, roles, sensors, agent, past
  <2> QED
    BY <1>3, <1>4, <1>5, <2>1, <2>2, GoesTyped DEF NoLoop
<1>12. CASE FreeText(t)
  <2>1. /\ Goto(t, "build", <<>>) /\ target' = target
        /\ UNCHANGED <<roles, disabled, text, sensors, agent, joining, shutdown, switches, past>>
        /\ heap' = (IF text = 0 THEN heap ELSE [heap EXCEPT ![text].frees = @ + 1])
        /\ target[t] \in known
    BY <1>0, <1>12 DEF FreeText, Step, Placed
  <2>2. heap' \in Seq(Texts) /\ Len(heap') = Len(heap)
    <3>1. heap \in Seq(Texts) /\ text \in 0..Len(heap) /\ Len(heap) \in Nat
      BY <1>0 DEF StateTypes, Texts, past
    <3>2. CASE text = 0
      BY <2>1, <3>1, <3>2
    <3>3. CASE text # 0
      <4> DEFINE freed == [tools |-> heap[text].tools, frees |-> heap[text].frees + 1]
      <4>1. text \in 1..Len(heap) /\ heap[text] \in Texts
        BY <3>1, <3>3, ElementOfSeq
      <4>2. freed \in Texts
        BY <4>1 DEF Texts
      <4>3. heap' = [heap EXCEPT ![text] = freed]
        BY <2>1, <3>3, <4>1, Freed
      <4> HIDE DEF freed
      <4> QED
        BY <3>1, <4>1, <4>2, <4>3, ExceptSeq
    <3> QED
      BY <3>2, <3>3
  <2>3. StateTypes' /\ known' = known
    BY <1>0, <2>1, <2>2 DEF StateTypes, roles, sensors, agent, Texts, past
  <2> QED
    BY <1>1, <1>3, <1>4, <1>5, <2>1, <2>3, GoesTyped DEF NoLoop
<1>13. CASE BuildText(t)
  <2>1. /\ Goto(t, "activate", <<>>) /\ target' = target
        /\ UNCHANGED <<roles, disabled, sensors, agent, joining, shutdown, switches, past>>
        /\ heap' = Append(heap, [tools |-> Tools \ disabled, frees |-> 0])
        /\ text' = Len(heap) + 1 /\ target[t] \in known
    BY <1>0, <1>13 DEF BuildText, Step, Placed, NewText
  <2>2. heap' \in Seq(Texts) /\ Len(heap') = Len(heap) + 1 /\ Len(heap) \in Nat
    <3>1. heap \in Seq(Texts) /\ [tools |-> Tools \ disabled, frees |-> 0] \in Texts
      BY <1>0 DEF StateTypes, Texts, past
    <3> QED
      BY <2>1, <3>1, AppendProperties, LenProperties
  <2>3. text' \in 0..Len(heap') /\ held' \in 0..Len(heap')
    BY <1>0, <2>1, <2>2 DEF StateTypes, agent, past
  <2>4. StateTypes' /\ known' = known
    BY <1>0, <2>1, <2>2, <2>3 DEF StateTypes, roles, sensors, agent, Texts, past
  <2> QED
    BY <1>1, <1>3, <1>4, <1>5, <2>1, <2>4, GoesTyped DEF NoLoop
<1>14. CASE Activate(t)
  <2>1. /\ Goto(t, "start", SensorsOf[target[t]]) /\ target' = target
        /\ UNCHANGED <<known, saved, tools, sensors, agent, joining, shutdown, switches, past>>
        /\ active' = target[t] /\ target[t] \in known
    BY <1>0, <1>14 DEF Activate, Step, Placed
  <2>2. StateTypes' /\ known' = known
    BY <1>0, <2>1 DEF StateTypes, tools, sensors, agent, past
  <2>3. SensorsOf[target[t]] \in Seq(Sensors)
    BY <1>0, <1>1, <2>1
  <2> QED
    BY <1>3, <1>4, <1>5, <2>1, <2>2, <2>3, GoesTyped DEF NoLoop
<1>15. CASE SkipStart(t) \/ StartFails(t)
  <2>1. /\ Goto(t, "start", Tail(todo[t])) /\ target' = target
        /\ UNCHANGED <<roles, tools, sensors, agent, joining, shutdown, switches, past>>
        /\ Tail(todo[t]) \in Seq(Sensors) /\ target[t] \in known
    BY <1>0, <1>2, <1>15 DEF SkipStart, StartFails, Step, Placed
  <2>2. StateTypes' /\ known' = known
    BY <1>0, <2>1 DEF StateTypes, roles, tools, sensors, agent, past
  <2> QED
    BY <1>3, <1>4, <1>5, <2>1, <2>2, GoesTyped DEF NoLoop
<1>16. CASE StartSensor(t)
  <2>1. /\ Goto(t, "starting", todo[t]) /\ target' = target
        /\ UNCHANGED <<roles, tools, sensors, agent, joining, shutdown, switches, past>>
        /\ todo[t] \in Seq(Sensors) /\ todo[t] # <<>> /\ target[t] \in known
    BY <1>0, <1>16 DEF StartSensor, Step, Placed
  <2>2. StateTypes' /\ known' = known
    BY <1>0, <2>1 DEF StateTypes, roles, tools, sensors, agent, past
  <2> QED
    BY <1>3, <1>4, <1>5, <2>1, <2>2, GoesTyped DEF NoLoop
<1>17. CASE Started(t)
  <2> DEFINE s == Head(todo[t])
  <2>1. /\ Goto(t, "start", Tail(todo[t])) /\ target' = target
        /\ UNCHANGED <<roles, tools, agent, joining, shutdown, switches, past>>
        /\ Tail(todo[t]) \in Seq(Sensors) /\ target[t] \in known /\ s \in Sensors
        /\ stopping' = [stopping EXCEPT ![s] = FALSE]
        /\ handle' = [handle EXCEPT ![s] = @ + 1]
        /\ alive' = [alive EXCEPT ![s] = @ \cup {handle'[s]}]
        /\ running' = [running EXCEPT ![s] = TRUE]
    BY <1>0, <1>2, <1>17 DEF Started, Step, Placed, Marked
  <2> HIDE DEF s
  <2>2. /\ handle' \in [Sensors -> Nat] /\ running' \in [Sensors -> BOOLEAN]
        /\ stopping' \in [Sensors -> BOOLEAN]
    BY <1>0, <2>1 DEF StateTypes, past
  <2>3. alive' \in [Sensors -> SUBSET Nat]
    BY <1>0, <2>1, <2>2 DEF StateTypes, past
  <2>4. StateTypes' /\ known' = known
    BY <1>0, <2>1, <2>2, <2>3 DEF StateTypes, roles, tools, agent, past
  <2> QED
    BY <1>3, <1>4, <1>5, <2>1, <2>4, GoesTyped DEF NoLoop
<1>18. CASE Finish(t)
  <2>1. /\ Goto(t, "idle", <<>>) /\ target' = target
        /\ UNCHANGED <<known, active, tools, sensors, agent, joining, shutdown, switches, past>>
        /\ saved' = target[t] /\ target[t] \in Named
    BY <1>0, <1>18 DEF Finish, Step, Placed
  <2>2. StateTypes' /\ known' = known
    BY <1>0, <2>1 DEF StateTypes, tools, sensors, agent, past
  <2> QED
    BY <1>1, <1>3, <1>4, <1>5, <2>1, <2>2, GoesTyped DEF NoLoop
<1> QED
  BY <1>6, <1>7, <1>8, <1>9, <1>10, <1>11, <1>12, <1>13, <1>14, <1>15, <1>16, <1>17, <1>18 DEF Switch

(* A switch begins, with the sensors of list to stop. *)
LEMMA EntersTyped ==
  ASSUME TypesInv, NEW t \in Threads, NEW r \in known \cup {NoRole}, NEW list \in Seq(Sensors),
         Enter(t, r, list), switches' \in 0..MaxSwitches
  PROVE  TypesInv'
<1>1. /\ Goto(t, "stop", list) /\ target' = [target EXCEPT ![t] = r] /\ known' = known
      /\ UNCHANGED <<roles, tools, sensors, joining, agent, shutdown>>
      /\ mixed' \in BOOLEAN /\ crossed' \in BOOLEAN
  BY DEF Enter, Overlaps, roles
<1>2. StateTypes'
  BY <1>1 DEF TypesInv, TypeOK, StateTypes, roles, tools, sensors, agent
<1>3. "stop" \in Places
  BY DEF Places
<1> QED
  BY <1>1, <1>2, <1>3, GoesTyped DEF NoLoop

LEMMA BeginTyped ==
  ASSUME TypesInv, EndLoad \/ StopAll \/ \E t \in Threads : Begin(t)
  PROVE  TypesInv'
<1>0. /\ StateTypes /\ target \in [Threads -> Named \cup {NoRole}] /\ \A t \in Threads : Placed(t)
      /\ known \subseteq Named /\ SensorTable \in Seq(Sensors) /\ <<>> \in Seq(Sensors)
      /\ MaxSwitches \in Nat /\ switches \in 0..MaxSwitches
  BY RoleAssumption, EmptySeq DEF TypesInv, TypeOK, StateTypes
<1>1. StopFirst \in Seq(Sensors)
  BY <1>0, RoleAssumption DEF StopFirst, StateTypes
<1>2. "idle" \in Places /\ "main" \in Threads
  BY DEF Places, Threads
<1>3. CASE EndLoad
  <2>1. SavedOrDefault \in known
    BY <1>3 DEF EndLoad, SavedOrDefault
  <2>2. CASE Enter("main", SavedOrDefault, StopFirst) /\ UNCHANGED switches
    BY <1>0, <1>1, <1>2, <2>1, <2>2, EntersTyped
  <2>3. CASE Step("main", "idle", <<>>) /\ UNCHANGED <<roles, tools, sensors, agent>>
    <3>1. /\ Goto("main", "idle", <<>>) /\ target' = target
          /\ UNCHANGED <<roles, tools, sensors, agent, joining, shutdown, switches, past>>
      BY <2>3 DEF Step
    <3>2. StateTypes' /\ known' = known
      BY <1>0, <3>1 DEF StateTypes, roles, tools, sensors, agent, past
    <3>3. target' = [target EXCEPT !["main"] = target["main"]] /\ target["main"] \in known \cup {NoRole}
      BY <1>0, <1>2, <3>1 DEF Placed
    <3> QED
      BY <1>0, <1>2, <3>1, <3>2, <3>3, GoesTyped DEF NoLoop
  <2> QED
    BY <1>3, <2>2, <2>3 DEF EndLoad
<1>4. CASE StopAll
  BY <1>0, <1>2, <1>4, EntersTyped DEF StopAll
<1>5. ASSUME NEW t \in Threads, Begin(t) PROVE TypesInv'
  <2>1. PICK r \in known : Enter(t, r, StopFirst)
    BY <1>5 DEF Begin
  <2>2. switches' \in 0..MaxSwitches
    BY <1>0, <1>5 DEF Begin
  <2> QED
    BY <1>1, <2>1, <2>2, EntersTyped
<1> QED
  BY <1>3, <1>4, <1>5

LEMMA AbortsTyped ==
  ASSUME TypesInv, NEW t \in Threads, Aborts(t)
  PROVE  TypesInv'
<1>1. pc' \in [Threads -> Places] /\ alive' \in [Sensors -> SUBSET Nat] /\ "aborted" \in Places
  BY DEF Aborts, Places
<1>2. UNCHANGED <<known, active, saved, disabled, text, heap, running, stopping, handle, target, todo,
                  joining, turn, held, shutdown, switches, mixed, crossed>>
  BY DEF Aborts, roles, tools, agent, past
<1>3. TypeOK'
  BY <1>1, <1>2 DEF TypesInv, TypeOK
<1>4. \A u \in Threads : pc'[u] = "aborted"
  BY DEF Aborts
<1>5. \A u \in Threads : Placed(u)'
  BY <1>2, <1>4 DEF TypesInv, Placed
<1> QED
  BY <1>3, <1>5 DEF TypesInv

LEMMA OthersTyped ==
  ASSUME TypesInv,
         LoadRole \/ (\E s \in Sensors : Obey(s) \/ DeviceFails(s)) \/ BeginTurn \/ EndTurn \/ Signal
           \/ UNCHANGED vars
  PROVE  TypesInv'
<1>0. StateTypes
  BY DEF TypesInv, TypeOK, StateTypes
<1>1. CASE LoadRole
  <2>1. /\ UNCHANGED <<active, saved, tools, sensors, control, agent, shutdown, switches, past>>
        /\ known \subseteq known' /\ known' \subseteq Named
    BY <1>0, <1>1 DEF LoadRole, StateTypes
  <2>2. StateTypes'
    BY <1>0, <2>1 DEF StateTypes, tools, sensors, agent, past, control
  <2> QED
    BY <2>1, <2>2, StaysTyped
<1>2. ASSUME NEW s \in Sensors, Obey(s) \/ DeviceFails(s) PROVE TypesInv'
  <2>1. /\ UNCHANGED <<roles, tools, running, stopping, handle, control, agent, shutdown, switches, past>>
        /\ \E i \in alive[s] : alive' = [alive EXCEPT ![s] = @ \ {i}]
    BY <1>2 DEF Obey, DeviceFails
  <2>2. alive' \in [Sensors -> SUBSET Nat]
    BY <1>0, <2>1 DEF StateTypes, past, control
  <2>3. StateTypes'
    BY <1>0, <2>1, <2>2 DEF StateTypes, roles, tools, agent, past, control
  <2> QED
    BY <2>1, <2>3, StaysTyped DEF roles
<1>3. CASE BeginTurn
  <2>1. UNCHANGED <<roles, tools, sensors, control, shutdown, switches, past>> /\ turn' = TRUE /\ held' = text
    BY <1>3 DEF BeginTurn
  <2>2. StateTypes'
    BY <1>0, <2>1 DEF StateTypes, roles, tools, sensors, past, control
  <2> QED
    BY <2>1, <2>2, StaysTyped DEF roles
<1>4. CASE EndTurn
  <2>1. UNCHANGED <<roles, tools, sensors, control, shutdown, switches, past>> /\ turn' = FALSE /\ held' = 0
    BY <1>4 DEF EndTurn
  <2>2. 0 \in 0..Len(heap)
    BY <1>0 DEF StateTypes, past, control
  <2>3. StateTypes'
    BY <1>0, <2>1, <2>2 DEF StateTypes, roles, tools, sensors, past, control
  <2> QED
    BY <2>1, <2>3, StaysTyped DEF roles
<1>5. CASE Signal \/ UNCHANGED vars
  <2>1. UNCHANGED <<roles, tools, sensors, control, agent, switches, past>> /\ shutdown' \in {shutdown, TRUE}
    BY <1>5 DEF Signal, vars
  <2>2. StateTypes'
    BY <1>0, <2>1 DEF StateTypes, roles, tools, sensors, agent, past, control
  <2> QED
    BY <2>1, <2>2, StaysTyped DEF roles
<1> QED
  BY <1>1, <1>2, <1>3, <1>4, <1>5

LEMMA TypesInit == Init => TypesInv
<1> SUFFICES ASSUME Init PROVE TypesInv
  OBVIOUS
<1> USE DEF Init
<1>1. /\ <<>> \in Seq(Sensors) /\ <<>> \in Seq(Tools)
      /\ heap \in Seq(Texts) /\ Len(heap) = 1
  BY EmptySeq DEF Texts
<1>2. /\ pc \in [Threads -> Places] /\ target \in [Threads -> Named \cup {NoRole}]
      /\ todo \in [Threads -> Seq(Sensors) \cup Seq(Tools)]
  BY <1>1 DEF Places
<1>5. text \in 0..Len(heap) /\ held \in 0..Len(heap) /\ switches \in 0..MaxSwitches
  BY <1>1, RoleAssumption
<1>6. /\ running \in [Sensors -> BOOLEAN] /\ stopping \in [Sensors -> BOOLEAN]
      /\ handle \in [Sensors -> Nat] /\ alive \in [Sensors -> SUBSET Nat]
      /\ joining \in [Threads -> Nat]
  OBVIOUS
<1>3. TypeOK
  BY <1>1, <1>2, <1>5, <1>6 DEF TypeOK, Texts
<1>4. \A t \in Threads : Placed(t)
  BY DEF Placed
<1> QED
  BY <1>3, <1>4 DEF TypesInv

LEMMA TypesStep == TypesInv /\ [Next]_vars => TypesInv'
<1> SUFFICES ASSUME TypesInv, [Next]_vars PROVE TypesInv'
  OBVIOUS
<1>1. CASE EndLoad \/ StopAll \/ \E t \in Threads : Begin(t)
  BY <1>1, BeginTyped
<1>2. CASE Halt \/ \E t \in Threads : Switch(t)
  BY <1>2, SwitchTyped DEF Threads
<1>4. ASSUME NEW t \in Threads, Aborts(t) PROVE TypesInv'
  BY <1>4, AbortsTyped
<1>3. CASE LoadRole \/ (\E s \in Sensors : Obey(s) \/ DeviceFails(s)) \/ BeginTurn \/ EndTurn \/ Signal
             \/ UNCHANGED vars
  BY <1>3, OthersTyped
<1> QED
  BY <1>1, <1>2, <1>3, <1>4 DEF Next, Main

(* Every part of the state keeps its type, however many switches overlap: the role
   in force is a loaded one, and the texts that the registry and the turn point to
   were built.                                                                    *)
THEOREM TypeCorrect == Spec => []TypeOK
<1>1. TypesInv => TypeOK
  BY DEF TypesInv
<1> QED
  BY <1>1, TypesInit, TypesStep, PTL DEF Spec
-----------------------------------------------------------------------------
(* Who has freed the text that s_tools_json points to is still in its rebuild. *)
TextInv == text # 0 /\ (heap[text].frees > 0 => \E t \in Threads : pc[t] \in {"build", "aborted"})

LEMMA TextStep ==
  ASSUME TypesInv, TextInv, [Next]_vars
  PROVE  TextInv'
<1>0. /\ heap \in Seq(Texts) /\ text \in 1..Len(heap) /\ pc \in [Threads -> Places] /\ Len(heap) \in Nat
      /\ heap[text] \in Texts
  <2>1. heap \in Seq(Texts) /\ text \in 1..Len(heap) /\ pc \in [Threads -> Places]
    BY LenProperties DEF TypesInv, TypeOK, TextInv, Texts
  <2> QED
    BY <2>1, ElementOfSeq, LenProperties
<1>1. ASSUME NEW t \in Threads, FreeText(t) PROVE TextInv'
  <2>1. pc'[t] = "build" /\ text' = text
    BY <1>0, <1>1 DEF FreeText, Step, Goto
  <2> QED
    BY <2>1 DEF TextInv
<1>2. ASSUME NEW t \in Threads, BuildText(t) PROVE TextInv'
  <2> DEFINE new == [tools |-> Tools \ disabled, frees |-> 0]
  <2>1. heap' = Append(heap, new) /\ text' = Len(heap) + 1
    BY <1>2 DEF BuildText, NewText
  <2>2. new \in Texts
    BY DEF Texts
  <2>3. heap'[text'] = new
    BY <1>0, <2>1, <2>2, AppendProperties
  <2> QED
    BY <1>0, <2>1, <2>3 DEF TextInv
<1>3. ASSUME NEW t \in Threads, Aborts(t) PROVE TextInv'
  BY <1>3 DEF Aborts, tools, TextInv
(* No other step leaves a rebuild, or touches the texts. *)
<1>4. ASSUME text' = text, heap' = heap,
             pc' = pc \/ \E t \in Threads, place \in Places : pc[t] # "build" /\ place # "aborted"
                            /\ pc' = [pc EXCEPT ![t] = place] /\ pc[t] # "aborted"
      PROVE  TextInv'
  BY <1>0, <1>4 DEF TextInv
<1>5. ASSUME NEW t \in Threads,
             \/ SkipStop(t) \/ StopSensor(t) \/ Joined(t) \/ Reset(t) \/ Disable(t) \/ Activate(t)
             \/ SkipStart(t) \/ StartSensor(t) \/ StartFails(t) \/ Started(t) \/ Finish(t) \/ Begin(t)
      PROVE  TextInv'
  <2>1. text' = text /\ heap' = heap
    BY <1>5 DEF SkipStop, StopSensor, Joined, Reset, Disable, Activate, SkipStart, StartSensor,
         StartFails, Started, Finish, Begin, Enter, tools
  <2>2. pc[t] \notin {"build", "aborted"}
    BY <1>5 DEF SkipStop, StopSensor, Joined, Reset, Disable, Activate, SkipStart, StartSensor,
         StartFails, Started, Finish, Begin
  <2>3. \E place \in {"stop", "join", "disable", "start", "starting", "idle"} :
          pc' = [pc EXCEPT ![t] = place]
    BY <1>5 DEF SkipStop, StopSensor, Joined, Reset, Disable, Activate, SkipStart, StartSensor,
         StartFails, Started, Finish, Begin, Enter, Step, Goto
  <2> QED
    BY <1>4, <2>1, <2>2, <2>3 DEF Places
<1>6. CASE EndLoad \/ StopAll \/ Halt
  <2>1. text' = text /\ heap' = heap
    BY <1>6 DEF EndLoad, StopAll, Halt, Enter, tools
  <2>2. pc["main"] \notin {"build", "aborted"} /\ "main" \in Threads
    BY <1>6 DEF EndLoad, StopAll, Halt, Threads
  <2>3. \E place \in {"stop", "idle", "halted"} : pc' = [pc EXCEPT !["main"] = place]
    BY <1>6 DEF EndLoad, StopAll, Halt, Enter, Step, Goto
  <2> QED
    BY <1>4, <2>1, <2>2, <2>3 DEF Places
<1>7. CASE LoadRole \/ (\E s \in Sensors : Obey(s) \/ DeviceFails(s)) \/ BeginTurn \/ EndTurn \/ Signal
             \/ UNCHANGED vars
  BY <1>4, <1>7 DEF LoadRole, Obey, DeviceFails, BeginTurn, EndTurn, Signal, vars, tools, control
<1> QED
  BY <1>1, <1>2, <1>3, <1>5, <1>6, <1>7 DEF Next, Main, Switch

(* However many threads rebuild the tools text at once, the pointer that is left
   when they are done is to a text that exists.                                 *)
THEOREM RegistryTextIsLive == Spec => []RegistryTextLives
<1>1. Init => TextInv
  BY DEF Init, TextInv
<1>2. TypesInv /\ TextInv => RegistryTextLives
  <2> SUFFICES ASSUME TypesInv, TextInv, \A t \in Threads : pc[t] \notin {"build", "aborted"}
               PROVE  heap[text].frees = 0
    BY DEF RegistryTextLives
  <2>1. heap \in Seq(Texts) /\ text \in 1..Len(heap)
    BY LenProperties DEF TypesInv, TypeOK, TextInv, Texts
  <2>2. heap[text] \in Texts
    BY <2>1, ElementOfSeq
  <2>3. heap[text].frees \in Nat
    BY <2>2 DEF Texts
  <2> QED
    BY <2>3 DEF TextInv
<1>3. TypesInv /\ TextInv /\ [Next]_vars => (TypesInv /\ TextInv)'
  BY TypesStep, TextStep
<1> QED
  BY <1>1, <1>2, <1>3, TypesInit, PTL DEF Spec
-----------------------------------------------------------------------------
(* What a switch that runs alone has done so far to the flags, the text and the
   role in force; and what it leaves.                                          *)
Busy(t) == pc[t] \notin Outside
ToolsAt(t) ==
  /\ pc[t] = "disable" => Range(DisabledBy[target[t]]) = disabled \cup Range(todo[t])
  /\ pc[t] \in {"build", "activate", "start", "starting"} => disabled = Range(DisabledBy[target[t]])
  /\ pc[t] \in {"activate", "start", "starting"} => heap[text].tools = Tools \ disabled
  /\ pc[t] \in {"start", "starting"} => active = target[t]
Applied ==
  /\ active \in known /\ saved = active
  /\ disabled = Range(DisabledBy[active]) /\ heap[text].tools = Tools \ disabled
AtRest ==
  (\A t \in Threads : ~Busy(t)) =>
    \/ pc["main"] \in {"halted", "aborted"}
    \/ pc["main"] = "load" /\ active = NoRole
    \/ Applied
OneBusy == \A t, u \in Threads : Busy(t) /\ Busy(u) => t = u
ToolsInv == ~mixed => OneBusy /\ (\A t \in Threads : ToolsAt(t)) /\ AtRest

(* A thread in a switch goes on: the others stay outside. *)
LEMMA ToolsGo ==
  ASSUME TypesInv, ToolsInv, mixed' = mixed, NEW t \in Threads, Busy(t),
         NEW place \in Places, NEW rest, Goto(t, place, rest),
         ~mixed /\ ToolsAt(t) => ToolsAt(t)',
         place = "idle" /\ ~mixed /\ ToolsAt(t) => Applied',
         place = "halted" => t = "main", place \notin {"load", "aborted"}
  PROVE  ToolsInv'
<1> SUFFICES ASSUME ~mixed PROVE OneBusy' /\ (\A u \in Threads : ToolsAt(u)') /\ AtRest'
  BY DEF ToolsInv
<1>1. pc \in [Threads -> Places] /\ OneBusy /\ ToolsAt(t)
  BY DEF TypesInv, TypeOK, ToolsInv
<1>2. pc'[t] = place /\ \A u \in Threads \ {t} : pc'[u] = pc[u] /\ pc[u] \in Outside
  BY <1>1 DEF Goto, OneBusy, Busy
<1>3. OneBusy'
  BY <1>2 DEF OneBusy, Busy
<1>4. ASSUME NEW u \in Threads \ {t} PROVE ToolsAt(u)'
  <2>1. pc'[u] \in {"load", "idle", "halted", "aborted"}
    BY <1>2 DEF Outside
  <2> QED
    BY <2>1 DEF ToolsAt
<1>5. AtRest'
  <2>1. CASE place = "idle"
    BY <1>1, <2>1 DEF AtRest
  <2>2. CASE place = "halted"
    BY <1>2, <2>2 DEF AtRest
  <2>3. CASE place \notin {"idle", "halted"}
    BY <1>2, <2>3 DEF AtRest, Busy, Outside
  <2> QED
    BY <2>1, <2>2, <2>3
<1> QED
  BY <1>1, <1>3, <1>4, <1>5

LEMMA ToolsSwitch ==
  ASSUME TypesInv, TextInv, ToolsInv, NEW t \in Threads, Switch(t) \/ (Halt /\ t = "main")
  PROVE  ToolsInv'
<1>0. /\ Placed(t) /\ known \subseteq Named /\ mixed \in BOOLEAN
      /\ heap \in Seq(Texts) /\ text \in 1..Len(heap)
      /\ \A p \in {"stop", "join", "disable", "build", "activate", "start", "starting", "idle", "halted"} :
           p \in Places
  BY LenProperties DEF TypesInv, TypeOK, TextInv, Texts, Places
<1>1. Busy(t)
  BY DEF Switch, SkipStop, StopSensor, Joined, Reset, Disable, FreeText, BuildText, Activate, SkipStart,
     StartSensor, StartFails, Started, Finish, Halt, Busy, Outside
<1>2. mixed' = mixed
  BY DEF Switch, SkipStop, StopSensor, Joined, Reset, Disable, FreeText, BuildText, Activate, SkipStart,
     StartSensor, StartFails, Started, Finish, Halt, Step, past
<1>3. /\ pc \in [Threads -> Places] /\ todo \in [Threads -> Seq(Sensors) \cup Seq(Tools)]
  BY DEF TypesInv, TypeOK
<1>4. ASSUME NEW place, NEW rest, Goto(t, place, rest)
      PROVE  pc'[t] = place /\ todo'[t] = rest
  BY <1>3, <1>4 DEF Goto
(* The steps that leave tools and roles alone. *)
<1>5. ASSUME NEW place \in {"stop", "join", "halted"}, NEW rest, Goto(t, place, rest), place = "halted" => t = "main"
      PROVE  ToolsInv'
  <2>1. ToolsAt(t)' /\ place \in Places /\ place \notin {"idle", "load", "aborted"}
    BY <1>0, <1>4, <1>5 DEF ToolsAt
  <2> QED
    BY <1>1, <1>2, <1>5, <2>1, ToolsGo
<1>6. ASSUME NEW place \in {"start", "starting"}, NEW rest, Goto(t, place, rest),
             pc[t] \in {"start", "starting"}, UNCHANGED <<roles, tools, target>>
      PROVE  ToolsInv'
  <2>1. ToolsAt(t) => ToolsAt(t)'
    BY <1>0, <1>4, <1>6 DEF ToolsAt, roles, tools
  <2> QED
    BY <1>0, <1>1, <1>2, <1>6, <2>1, ToolsGo
<1>7. CASE SkipStop(t) \/ StopSensor(t) \/ Joined(t) \/ (Halt /\ t = "main")
  BY <1>5, <1>7 DEF SkipStop, StopSensor, Joined, Halt, Step
<1>8. CASE Reset(t)
  <2>1. /\ Goto(t, "disable", DisabledBy[target[t]]) /\ disabled' = {} /\ target' = target
    BY <1>8 DEF Reset, AllEnabled, Step
  <2>2. ToolsAt(t)'
    BY <1>4, <2>1 DEF ToolsAt
  <2> QED
    BY <1>0, <1>1, <1>2, <2>1, <2>2, ToolsGo
<1>9. CASE Disable(t)
  <2>1. /\ Goto(t, "disable", Tail(todo[t])) /\ disabled' = disabled \cup {Head(todo[t])}
        /\ target' = target /\ todo[t] \in Seq(Tools) /\ todo[t] # <<>> /\ pc[t] = "disable"
    BY <1>0, <1>9 DEF Disable, Step, Placed
  <2>2. Range(todo[t]) = {Head(todo[t])} \cup Range(Tail(todo[t]))
    BY <2>1, HeadAndTail
  <2>3. ToolsAt(t) => ToolsAt(t)'
    BY <1>4, <2>1, <2>2 DEF ToolsAt
  <2> QED
    BY <1>0, <1>1, <1>2, <2>1, <2>3, ToolsGo
<1>10. CASE FreeText(t)
  <2>1. /\ Goto(t, "build", <<>>) /\ UNCHANGED <<disabled, target>> /\ pc[t] = "disable" /\ todo[t] = <<>>
    BY <1>10 DEF FreeText, Step
  <2>2. ToolsAt(t) => ToolsAt(t)'
    BY <1>4, <2>1, RangeOfEmpty DEF ToolsAt
  <2> QED
    BY <1>0, <1>1, <1>2, <2>1, <2>2, ToolsGo
<1>11. CASE BuildText(t)
  <2> DEFINE new == [tools |-> Tools \ disabled, frees |-> 0]
  <2>1. /\ Goto(t, "activate", <<>>) /\ UNCHANGED <<disabled, target>> /\ pc[t] = "build"
        /\ heap' = Append(heap, new) /\ text' = Len(heap) + 1
    BY <1>11 DEF BuildText, Step, NewText
  <2>2. heap'[text'] = new
    <3>1. new \in Texts
      BY DEF Texts
    <3> QED
      BY <1>0, <2>1, <3>1, AppendProperties
  <2>3. ToolsAt(t) => ToolsAt(t)'
    BY <1>4, <2>1, <2>2 DEF ToolsAt
  <2> QED
    BY <1>0, <1>1, <1>2, <2>1, <2>3, ToolsGo
<1>12. CASE Activate(t)
  <2>1. /\ Goto(t, "start", SensorsOf[target[t]]) /\ UNCHANGED <<tools, target>> /\ pc[t] = "activate"
        /\ active' = target[t]
    BY <1>12 DEF Activate, Step
  <2>2. ToolsAt(t) => ToolsAt(t)'
    BY <1>4, <2>1 DEF ToolsAt, tools
  <2> QED
    BY <1>0, <1>1, <1>2, <2>1, <2>2, ToolsGo
<1>13. CASE SkipStart(t) \/ StartSensor(t) \/ StartFails(t) \/ Started(t)
  BY <1>6, <1>13 DEF SkipStart, StartSensor, StartFails, Started, Step
<1>14. CASE Finish(t)
  <2>1. /\ Goto(t, "idle", <<>>) /\ UNCHANGED <<known, active, tools, target>> /\ pc[t] = "start"
        /\ saved' = target[t]
    BY <1>14 DEF Finish, Step
  <2>2. ToolsAt(t)' /\ target[t] \in known
    BY <1>0, <1>4, <2>1 DEF ToolsAt, Placed
  <2>3. ToolsAt(t) => Applied'
    BY <2>1, <2>2 DEF ToolsAt, Applied, tools
  <2> QED
    BY <1>0, <1>1, <1>2, <2>1, <2>2, <2>3, ToolsGo
<1> QED
  BY <1>7, <1>8, <1>9, <1>10, <1>11, <1>12, <1>13, <1>14 DEF Switch

(* A switch begins: if the others are outside, then it is alone. *)
LEMMA ToolsEnter ==
  ASSUME TypesInv, NEW t \in Threads, NEW r, NEW list, Enter(t, r, list)
  PROVE  ToolsInv'
<1> SUFFICES ASSUME ~mixed' PROVE OneBusy' /\ (\A u \in Threads : ToolsAt(u)') /\ AtRest'
  BY DEF ToolsInv
<1>1. pc'[t] = "stop" /\ \A u \in Threads \ {t} : pc'[u] \in Outside
  BY DEF Enter, Overlaps, Goto, TypesInv, TypeOK
<1>2. OneBusy' /\ AtRest'
  BY <1>1 DEF OneBusy, AtRest, Busy, Outside
<1>3. ASSUME NEW u \in Threads PROVE ToolsAt(u)'
  <2>1. pc'[u] \in {"stop", "load", "idle", "halted", "aborted"}
    BY <1>1 DEF Outside
  <2> QED
    BY <2>1 DEF ToolsAt
<1> QED
  BY <1>2, <1>3

LEMMA ToolsStep ==
  ASSUME TypesInv, TextInv, ToolsInv, [Next]_vars
  PROVE  ToolsInv'
<1>0. /\ pc \in [Threads -> Places] /\ known \subseteq Named /\ "main" \in Threads /\ NoRole \notin Named
  BY RoleAssumption DEF TypesInv, TypeOK, Threads
<1>1. CASE LoadRole
  <2>1. known \subseteq known' /\ UNCHANGED <<active, saved, tools, pc, todo, target, mixed>>
    BY <1>1 DEF LoadRole, control, past
  <2>2. /\ OneBusy => OneBusy'
        /\ AtRest => AtRest'
        /\ \A t \in Threads : ToolsAt(t) => ToolsAt(t)'
    BY <2>1 DEF OneBusy, AtRest, ToolsAt, Busy, Applied, tools
  <2> QED
    BY <2>1, <2>2 DEF ToolsInv
<1>2. CASE EndLoad
  <2>1. CASE Step("main", "idle", <<>>) /\ UNCHANGED <<roles, tools, sensors, agent>> /\ SavedOrDefault = active
    <3>1. /\ UNCHANGED <<known, active, saved, tools, target, mixed>> /\ pc["main"] = "load"
          /\ active # NoRole
      BY <1>0, <1>2, <2>1 DEF EndLoad, Step, past, roles, SavedOrDefault
    <3>2. /\ pc'["main"] = "idle"
          /\ \A u \in Threads \ {"main"} : pc'[u] = pc[u] /\ todo'[u] = todo[u]
      BY <1>0, <2>1 DEF Step, Goto, TypesInv, TypeOK
    <3>3. \A u \in Threads : Busy(u)' = Busy(u)
      BY <3>1, <3>2 DEF Busy, Outside
    <3>4. \A u \in Threads : ToolsAt(u) => ToolsAt(u)'
      BY <3>1, <3>2 DEF ToolsAt, tools
    <3>5. (OneBusy => OneBusy') /\ (AtRest => AtRest')
      BY <3>1, <3>3 DEF OneBusy, AtRest, Applied, tools
    <3> QED
      BY <3>1, <3>4, <3>5 DEF ToolsInv
  <2> QED
    BY <1>0, <1>2, <2>1, ToolsEnter DEF EndLoad
<1>3. CASE StopAll \/ \E t \in Threads : Begin(t)
  BY <1>0, <1>3, ToolsEnter DEF StopAll, Begin
<1>4. CASE Halt \/ \E t \in Threads : Switch(t)
  BY <1>0, <1>4, ToolsSwitch
<1>5. ASSUME NEW t \in Threads, Aborts(t) PROVE ToolsInv'
  <2>1. \A u \in Threads : pc'[u] = "aborted"
    BY <1>5 DEF Aborts
  <2> QED
    BY <1>0, <2>1 DEF ToolsInv, OneBusy, ToolsAt, AtRest, Busy, Outside
<1>6. CASE (\E s \in Sensors : Obey(s) \/ DeviceFails(s)) \/ BeginTurn \/ EndTurn \/ Signal \/ UNCHANGED vars
  <2>1. UNCHANGED <<roles, tools, control, mixed>>
    BY <1>6 DEF Obey, DeviceFails, BeginTurn, EndTurn, Signal, vars, past
  <2> QED
    BY <2>1 DEF ToolsInv, OneBusy, ToolsAt, AtRest, Busy, Applied, roles, tools, control
<1> QED
  BY <1>1, <1>2, <1>3, <1>4, <1>5, <1>6 DEF Next, Main
-----------------------------------------------------------------------------
(* What a switch has done so far to the sensors, if none has ever overlapped. *)
OnlyRunning(S) == \A s \in Sensors : running[s] => s \in S
Acting(t) == Busy(t) \/ (t = "main" /\ pc[t] = "halted")
SensorsAt(t) ==
  /\ pc[t] \in {"stop", "join"} => OnlyRunning(Range(todo[t]))
  /\ pc[t] = "join" => joining[t] = handle[Head(todo[t])]
  /\ pc[t] \in {"disable", "build", "activate"} => OnlyRunning({})
  /\ pc[t] \in {"start", "starting"} =>
       /\ OnlyRunning(Range(SensorsOf[target[t]]))
       /\ Range(todo[t]) \subseteq Range(SensorsOf[target[t]])
  /\ pc[t] = "starting" => ~running[Head(todo[t])]
SensorsHalted == pc["main"] = "halted" => OnlyRunning({})
SensorsAtRest ==
  (\A t \in Threads : ~Acting(t)) =>
    (\A t \in Threads : pc[t] = "aborted") \/ OnlyRunning(Range(StopFirst))
OneActing == \A t, u \in Threads : Acting(t) /\ Acting(u) => t = u
OneThread == \A s \in Sensors : alive[s] \subseteq {handle[s]} /\ (alive[s] # {} => running[s])
SensorsInv ==
  ~crossed =>
    /\ ~mixed /\ OneActing /\ (\A t \in Threads : SensorsAt(t))
    /\ SensorsHalted /\ SensorsAtRest /\ OneThread

LEMMA SensorsGo ==
  ASSUME TypesInv, SensorsInv, UNCHANGED <<mixed, crossed>>, NEW t \in Threads, Busy(t),
         NEW place \in Places, NEW rest, Goto(t, place, rest),
         ~crossed /\ SensorsAt(t) /\ OneThread => SensorsAt(t)' /\ OneThread',
         place = "idle" /\ ~crossed /\ SensorsAt(t) => OnlyRunning(Range(StopFirst))',
         place = "halted" => t = "main" /\ (SensorsAt(t) => OnlyRunning({})'), place \notin {"load", "aborted"}
  PROVE  SensorsInv'
<1> SUFFICES ASSUME ~crossed
             PROVE  /\ ~mixed' /\ OneActing' /\ (\A u \in Threads : SensorsAt(u)')
                    /\ SensorsHalted' /\ SensorsAtRest' /\ OneThread'
  BY DEF SensorsInv
<1>1. /\ pc \in [Threads -> Places] /\ ~mixed /\ OneActing /\ SensorsAt(t) /\ OneThread /\ SensorsHalted
      /\ "main" \in Threads
  BY DEF TypesInv, TypeOK, SensorsInv, Threads
<1>2. pc'[t] = place /\ \A u \in Threads \ {t} : pc'[u] = pc[u] /\ ~Acting(u)
  BY <1>1 DEF Goto, OneActing, Acting
<1>3. OneActing'
  BY <1>2 DEF OneActing, Acting, Busy
<1>4. ASSUME NEW u \in Threads \ {t} PROVE SensorsAt(u)'
  <2>1. pc'[u] \in {"load", "idle", "halted", "aborted"}
    BY <1>2 DEF Acting, Busy, Outside
  <2> QED
    BY <2>1 DEF SensorsAt
<1>5. SensorsHalted'
  <2>1. CASE t = "main"
    <3>1. CASE place = "halted"
      BY <1>1, <3>1 DEF SensorsHalted
    <3>2. CASE place # "halted"
      BY <1>2, <2>1, <3>2 DEF SensorsHalted
    <3> QED
      BY <3>1, <3>2
  <2>2. CASE t # "main"
    BY <1>1, <1>2, <2>2 DEF SensorsHalted, Acting
  <2> QED
    BY <2>1, <2>2
<1>6. SensorsAtRest'
  <2>1. CASE place = "idle"
    BY <1>1, <2>1 DEF SensorsAtRest
  <2>2. CASE place = "halted"
    BY <1>2, <2>2 DEF SensorsAtRest, Acting
  <2>3. CASE place \notin {"idle", "halted"}
    BY <1>2, <2>3 DEF SensorsAtRest, Acting, Busy, Outside
  <2> QED
    BY <2>1, <2>2, <2>3
<1> QED
  BY <1>1, <1>3, <1>4, <1>5, <1>6

LEMMA SensorsSwitch ==
  ASSUME TypesInv, ToolsInv, SensorsInv, NEW t \in Threads, Switch(t) \/ (Halt /\ t = "main")
  PROVE  SensorsInv'
<1>0. /\ Placed(t) /\ known \subseteq Named /\ crossed \in BOOLEAN /\ active \in known \cup {NoRole}
      /\ \A p \in {"stop", "join", "disable", "build", "activate", "start", "starting", "idle", "halted"} :
           p \in Places
      /\ running \in [Sensors -> BOOLEAN] /\ handle \in [Sensors -> Nat]
      /\ alive \in [Sensors -> SUBSET Nat] /\ joining \in [Threads -> Nat]
      /\ \A r \in Named : SensorsOf[r] \in Seq(Sensors) /\ DisabledBy[r] \in Seq(Tools)
  BY RoleAssumption DEF TypesInv, TypeOK, Places
<1>1. Busy(t)
  BY DEF Switch, SkipStop, StopSensor, Joined, Reset, Disable, FreeText, BuildText, Activate, SkipStart,
     StartSensor, StartFails, Started, Finish, Halt, Busy, Outside
<1>2. UNCHANGED <<mixed, crossed>>
  BY DEF Switch, SkipStop, StopSensor, Joined, Reset, Disable, FreeText, BuildText, Activate, SkipStart,
     StartSensor, StartFails, Started, Finish, Halt, Step, past
<1>3. /\ pc \in [Threads -> Places] /\ todo \in [Threads -> Seq(Sensors) \cup Seq(Tools)]
  BY DEF TypesInv, TypeOK
<1>4. ASSUME NEW place, NEW rest, Goto(t, place, rest)
      PROVE  pc'[t] = place /\ todo'[t] = rest
  BY <1>3, <1>4 DEF Goto
<1>5. todo[t] # <<>> /\ todo[t] \in Seq(Sensors) =>
        /\ Head(todo[t]) \in Sensors
        /\ Range(todo[t]) = {Head(todo[t])} \cup Range(Tail(todo[t]))
  BY HeadAndTail
<1>6. CASE SkipStop(t)
  <2>1. /\ Goto(t, "stop", Tail(todo[t])) /\ UNCHANGED <<running, handle, alive>> /\ pc[t] = "stop"
        /\ todo[t] # <<>> /\ ~running[Head(todo[t])] /\ todo[t] \in Seq(Sensors)
    BY <1>0, <1>6 DEF SkipStop, Step, sensors, Placed
  <2>2. SensorsAt(t) => SensorsAt(t)'
    BY <1>4, <1>5, <2>1 DEF SensorsAt, OnlyRunning
  <2>3. OneThread => OneThread'
    BY <2>1 DEF OneThread
  <2> QED
    BY <1>0, <1>1, <1>2, <2>1, <2>2, <2>3, SensorsGo
<1>7. CASE StopSensor(t)
  <2>1. /\ Goto(t, "join", todo[t]) /\ UNCHANGED <<running, handle, alive>> /\ pc[t] = "stop"
        /\ joining' = [joining EXCEPT ![t] = handle[Head(todo[t])]]
    BY <1>7 DEF StopSensor
  <2>2. SensorsAt(t) => SensorsAt(t)'
    BY <1>0, <1>4, <2>1 DEF SensorsAt, OnlyRunning
  <2>3. OneThread => OneThread'
    BY <2>1 DEF OneThread
  <2> QED
    BY <1>0, <1>1, <1>2, <2>1, <2>2, <2>3, SensorsGo
<1>8. CASE Joined(t)
  <2> DEFINE s == Head(todo[t])
  <2>1. /\ Goto(t, "stop", Tail(todo[t])) /\ UNCHANGED <<handle, alive>> /\ pc[t] = "join"
        /\ running' = [running EXCEPT ![s] = FALSE] /\ joining[t] \notin alive[s]
        /\ todo[t] # <<>> /\ todo[t] \in Seq(Sensors)
    BY <1>0, <1>8 DEF Joined, Placed
  <2>2. SensorsAt(t) => SensorsAt(t)'
    BY <1>0, <1>4, <1>5, <2>1 DEF SensorsAt, OnlyRunning
  <2>3. SensorsAt(t) /\ OneThread => OneThread'
    <3> SUFFICES ASSUME SensorsAt(t), OneThread PROVE OneThread'
      OBVIOUS
    <3>1. alive[s] = {}
      BY <1>5, <2>1 DEF SensorsAt, OneThread
    <3> QED
      BY <1>0, <2>1, <3>1 DEF OneThread
  <2> QED
    BY <1>0, <1>1, <1>2, <2>1, <2>2, <2>3, SensorsGo
<1>9. CASE Halt /\ t = "main"
  <2>1. /\ Goto(t, "halted", <<>>) /\ UNCHANGED <<running, handle, alive>> /\ pc[t] = "stop"
        /\ todo[t] = <<>>
    BY <1>9 DEF Halt, Step, sensors
  <2>2. SensorsAt(t)' /\ (SensorsAt(t) => OnlyRunning({})')
    BY <1>4, <2>1, RangeOfEmpty DEF SensorsAt, OnlyRunning
  <2>3. OneThread => OneThread'
    BY <2>1 DEF OneThread
  <2> QED
    BY <1>0, <1>1, <1>2, <1>9, <2>1, <2>2, <2>3, SensorsGo
<1>10. ASSUME NEW place \in {"disable", "build", "activate"}, NEW rest, Goto(t, place, rest),
              pc[t] \in {"disable", "build"} \/ (pc[t] = "stop" /\ todo[t] = <<>>), UNCHANGED sensors
       PROVE  SensorsInv'
  <2>1. SensorsAt(t) => SensorsAt(t)'
    BY <1>4, <1>10, RangeOfEmpty DEF SensorsAt, OnlyRunning, sensors
  <2>2. OneThread => OneThread'
    BY <1>10 DEF OneThread, sensors
  <2>3. place \in Places /\ place \notin {"idle", "halted", "load", "aborted"}
    BY <1>0
  <2> QED
    BY <1>1, <1>2, <1>10, <2>1, <2>2, <2>3, SensorsGo
<1>11. CASE Reset(t) \/ Disable(t) \/ FreeText(t) \/ BuildText(t)
  BY <1>10, <1>11 DEF Reset, Disable, FreeText, BuildText, Step
<1>12. CASE Activate(t)
  <2>1. /\ Goto(t, "start", SensorsOf[target[t]]) /\ UNCHANGED <<sensors, target>> /\ pc[t] = "activate"
    BY <1>12 DEF Activate, Step
  <2>2. SensorsAt(t) => SensorsAt(t)'
    BY <1>4, <2>1 DEF SensorsAt, OnlyRunning, sensors
  <2>3. OneThread => OneThread'
    BY <2>1 DEF OneThread, sensors
  <2> QED
    BY <1>0, <1>1, <1>2, <2>1, <2>2, <2>3, SensorsGo
<1>13. CASE SkipStart(t) \/ StartFails(t)
  <2>1. /\ Goto(t, "start", Tail(todo[t])) /\ UNCHANGED <<sensors, target>> /\ pc[t] \in {"start", "starting"}
        /\ todo[t] # <<>> /\ todo[t] \in Seq(Sensors)
    BY <1>0, <1>13 DEF SkipStart, StartFails, Step, Placed
  <2>2. SensorsAt(t) => SensorsAt(t)'
    BY <1>4, <1>5, <2>1 DEF SensorsAt, OnlyRunning, sensors
  <2>3. OneThread => OneThread'
    BY <2>1 DEF OneThread, sensors
  <2> QED
    BY <1>0, <1>1, <1>2, <2>1, <2>2, <2>3, SensorsGo
<1>14. CASE StartSensor(t)
  <2>1. /\ Goto(t, "starting", todo[t]) /\ UNCHANGED <<sensors, target>> /\ pc[t] = "start"
        /\ ~running[Head(todo[t])]
    BY <1>14 DEF StartSensor, Step
  <2>2. SensorsAt(t) => SensorsAt(t)'
    BY <1>4, <2>1 DEF SensorsAt, OnlyRunning, sensors
  <2>3. OneThread => OneThread'
    BY <2>1 DEF OneThread, sensors
  <2> QED
    BY <1>0, <1>1, <1>2, <2>1, <2>2, <2>3, SensorsGo
<1>15. CASE Started(t)
  <2> DEFINE s == Head(todo[t])
  <2>1. /\ Goto(t, "start", Tail(todo[t])) /\ target' = target /\ pc[t] = "starting"
        /\ todo[t] # <<>> /\ todo[t] \in Seq(Sensors)
        /\ handle' = [handle EXCEPT ![s] = @ + 1] /\ running' = [running EXCEPT ![s] = TRUE]
        /\ alive' = [alive EXCEPT ![s] = @ \cup {handle'[s]}]
    BY <1>0, <1>15 DEF Started, Step, Placed, Marked
  <2>2. s \in Sensors
    BY <1>5, <2>1
  <2> HIDE DEF s
  <2>3. SensorsAt(t) => SensorsAt(t)'
    <3> SUFFICES ASSUME SensorsAt(t) PROVE SensorsAt(t)'
      OBVIOUS
    <3>1. s \in Range(todo[t]) /\ Range(Tail(todo[t])) \subseteq Range(todo[t])
      BY <1>5, <2>1 DEF s
    <3>2. \A x \in Sensors : running'[x] => running[x] \/ x = s
      BY <1>0, <2>1
    <3> QED
      BY <1>4, <2>1, <3>1, <3>2 DEF SensorsAt, OnlyRunning
  <2>4. SensorsAt(t) /\ OneThread => OneThread'
    <3> SUFFICES ASSUME SensorsAt(t), OneThread PROVE OneThread'
      OBVIOUS
    <3>1. alive[s] = {}
      BY <2>1, <2>2 DEF SensorsAt, OneThread, s
    <3>2. alive'[s] = {handle'[s]} /\ running'[s]
      BY <1>0, <2>1, <2>2, <3>1
    <3>3. \A x \in Sensors \ {s} : alive'[x] = alive[x] /\ handle'[x] = handle[x] /\ running'[x] = running[x]
      BY <1>0, <2>1, <2>2
    <3> QED
      BY <3>2, <3>3 DEF OneThread
  <2> QED
    BY <1>0, <1>1, <1>2, <2>1, <2>3, <2>4, SensorsGo
<1>16. CASE Finish(t)
  <2>1. /\ Goto(t, "idle", <<>>) /\ UNCHANGED <<known, active, sensors, target>> /\ pc[t] = "start"
    BY <1>16 DEF Finish, Step
  <2>2. SensorsAt(t)'
    BY <1>4, <2>1 DEF SensorsAt
  <2>3. OneThread => OneThread'
    BY <2>1 DEF OneThread, sensors
  <2>4. ~crossed /\ SensorsAt(t) => OnlyRunning(Range(StopFirst))'
    <3> SUFFICES ASSUME ~crossed, SensorsAt(t) PROVE OnlyRunning(Range(StopFirst))'
      OBVIOUS
    <3>1. active = target[t] /\ target[t] \in known /\ NoRole \notin Named
      BY <1>0, <2>1, RoleAssumption DEF SensorsInv, ToolsInv, ToolsAt, Placed
    <3>2. StopFirst' = SensorsOf[target[t]]
      BY <1>0, <2>1, <3>1 DEF StopFirst
    <3> QED
      BY <2>1, <3>2 DEF SensorsAt, OnlyRunning, sensors
  <2> QED
    BY <1>0, <1>1, <1>2, <2>1, <2>2, <2>3, <2>4, SensorsGo
<1> QED
  BY <1>6, <1>7, <1>8, <1>9, <1>11, <1>12, <1>13, <1>14, <1>15, <1>16 DEF Switch

(* The first of the sensors to stop are those of the role in force; main's last
   switch stops them all.                                                      *)
LEMMA SensorsEnter ==
  ASSUME TypesInv, SensorsInv, NEW t \in Threads, NEW r, NEW list, Enter(t, r, list),
         pc[t] \in {"idle", "load"}, list = StopFirst \/ OnlyRunning(Range(list))
  PROVE  SensorsInv'
<1> SUFFICES ASSUME ~crossed'
             PROVE  /\ ~mixed' /\ OneActing' /\ (\A u \in Threads : SensorsAt(u)')
                    /\ SensorsHalted' /\ SensorsAtRest' /\ OneThread'
  BY DEF SensorsInv
<1>1. ~crossed /\ ~mixed' /\ pc["main"] # "halted" /\ OneThread /\ SensorsAtRest /\ "main" \in Threads
      /\ UNCHANGED <<roles, sensors>>
  BY DEF Enter, SensorsInv, Threads
<1>2. /\ pc'[t] = "stop" /\ todo'[t] = list
      /\ \A u \in Threads \ {t} : pc'[u] = pc[u] /\ pc[u] \in Outside
  BY <1>1 DEF Enter, Overlaps, Goto, TypesInv, TypeOK
<1>4. OnlyRunning(Range(list))
  BY <1>1, <1>2 DEF SensorsAtRest, Acting, Busy, Outside
<1>3. SensorsAt(t)' /\ OneThread'
  BY <1>1, <1>2, <1>4 DEF SensorsAt, OnlyRunning, OneThread, sensors
<1>5. ASSUME NEW u \in Threads \ {t} PROVE SensorsAt(u)'
  <2>1. pc'[u] \in {"load", "idle", "halted", "aborted"}
    BY <1>2 DEF Outside
  <2> QED
    BY <2>1 DEF SensorsAt
<1>6. OneActing' /\ SensorsAtRest' /\ SensorsHalted'
  BY <1>1, <1>2 DEF OneActing, SensorsAtRest, SensorsHalted, Acting, Busy, Outside
<1> QED
  BY <1>1, <1>3, <1>5, <1>6

LEMMA SensorsStep ==
  ASSUME TypesInv, ToolsInv, SensorsInv, [Next]_vars
  PROVE  SensorsInv'
<1>0. /\ pc \in [Threads -> Places] /\ "main" \in Threads /\ alive \in [Sensors -> SUBSET Nat]
      /\ active \in known \cup {NoRole}
  BY DEF TypesInv, TypeOK, Threads
<1>1. CASE LoadRole
  <2>1. known \subseteq known' /\ UNCHANGED <<active, sensors, pc, todo, joining, target, mixed, crossed>>
    BY <1>1 DEF LoadRole, control, past
  <2>2. \A t \in Threads : Acting(t)' = Acting(t) /\ (SensorsAt(t) => SensorsAt(t)')
    BY <2>1 DEF SensorsAt, Acting, Busy, OnlyRunning, sensors
  <2>3. (SensorsHalted => SensorsHalted') /\ (SensorsAtRest => SensorsAtRest') /\ (OneThread => OneThread')
          /\ (OneActing => OneActing')
    BY <2>1, <2>2 DEF SensorsHalted, SensorsAtRest, OneThread, OneActing, OnlyRunning, StopFirst, sensors
  <2> QED
    BY <2>1, <2>2, <2>3 DEF SensorsInv
<1>2. CASE EndLoad
  <2>1. CASE Step("main", "idle", <<>>) /\ UNCHANGED <<roles, tools, sensors, agent>>
    <3>1. UNCHANGED <<active, sensors, target, joining, mixed, crossed>> /\ pc["main"] = "load"
      BY <1>2, <2>1 DEF EndLoad, Step, past, roles
    <3>2. /\ pc'["main"] = "idle"
          /\ \A u \in Threads \ {"main"} : pc'[u] = pc[u] /\ todo'[u] = todo[u]
      BY <1>0, <2>1 DEF Step, Goto, TypesInv, TypeOK
    <3>3. \A u \in Threads : Acting(u)' = Acting(u)
      BY <3>1, <3>2 DEF Acting, Busy, Outside
    <3>4. \A u \in Threads : SensorsAt(u) => SensorsAt(u)'
      BY <3>1, <3>2 DEF SensorsAt, OnlyRunning, sensors
    <3>5. SensorsAtRest => SensorsAtRest'
      BY <1>0, <3>1, <3>3 DEF SensorsAtRest, OnlyRunning, StopFirst, sensors
    <3>6. (OneActing => OneActing') /\ SensorsHalted' /\ (OneThread => OneThread')
      BY <3>1, <3>2, <3>3 DEF OneActing, SensorsHalted, OneThread, sensors
    <3> QED
      BY <3>1, <3>4, <3>5, <3>6 DEF SensorsInv
  <2> QED
    BY <1>0, <1>2, <2>1, SensorsEnter DEF EndLoad
<1>3. CASE StopAll
  <2>1. OnlyRunning(Range(SensorTable))
    BY DEF OnlyRunning, Sensors
  <2> QED
    BY <1>0, <1>3, <2>1, SensorsEnter DEF StopAll
<1>4. ASSUME NEW t \in Threads, Begin(t) PROVE SensorsInv'
  BY <1>4, SensorsEnter DEF Begin
<1>5. CASE Halt \/ \E t \in Threads : Switch(t)
  BY <1>0, <1>5, SensorsSwitch
<1>6. ASSUME NEW t \in Threads, Aborts(t) PROVE SensorsInv'
  <2>1. /\ \A u \in Threads : pc'[u] = "aborted"
        /\ \A s \in Sensors : alive'[s] = {}
        /\ UNCHANGED <<mixed, crossed>>
    BY <1>6 DEF Aborts, past
  <2>2. OneActing' /\ SensorsHalted' /\ SensorsAtRest' /\ OneThread' /\ \A u \in Threads : SensorsAt(u)'
    BY <1>0, <2>1 DEF OneActing, SensorsHalted, SensorsAtRest, OneThread, SensorsAt, Acting, Busy, Outside
  <2> QED
    BY <2>1, <2>2 DEF SensorsInv
<1>7. CASE (\E s \in Sensors : Obey(s) \/ DeviceFails(s)) \/ BeginTurn \/ EndTurn \/ Signal \/ UNCHANGED vars
  <2>1. UNCHANGED <<roles, control, running, handle, mixed, crossed>>
    BY <1>7 DEF Obey, DeviceFails, BeginTurn, EndTurn, Signal, vars, sensors, past
  <2>2. \A s \in Sensors : alive'[s] \subseteq alive[s]
    BY <1>0, <1>7 DEF Obey, DeviceFails, BeginTurn, EndTurn, Signal, vars, sensors
  <2>3. OneThread => OneThread'
    BY <2>1, <2>2 DEF OneThread
  <2>4. /\ \A t \in Threads : Acting(t)' = Acting(t) /\ (SensorsAt(t) => SensorsAt(t)')
        /\ (SensorsHalted => SensorsHalted') /\ (SensorsAtRest => SensorsAtRest') /\ (OneActing => OneActing')
    BY <2>1 DEF Acting, Busy, SensorsAt, SensorsHalted, SensorsAtRest, OneActing, OnlyRunning, StopFirst,
       roles, control
  <2> QED
    BY <2>1, <2>3, <2>4 DEF SensorsInv
<1> QED
  BY <1>1, <1>2, <1>3, <1>4, <1>5, <1>6, <1>7 DEF Next, Main

IInv == TypesInv /\ TextInv /\ ToolsInv /\ SensorsInv

LEMMA InvInit == Init => IInv
<1> SUFFICES ASSUME Init PROVE IInv
  OBVIOUS
<1>1. TypesInv /\ TextInv
  BY TypesInit DEF Init, TextInv
<1> USE DEF Init
<1>2. \A t \in Threads : pc[t] \in {"load", "idle"} /\ ~Busy(t) /\ ~Acting(t)
  BY DEF Busy, Acting, Outside
<1>3. ToolsInv
  BY <1>2 DEF ToolsInv, OneBusy, ToolsAt, AtRest, Threads
<1>4. SensorsInv
  BY <1>2 DEF SensorsInv, OneActing, SensorsAt, SensorsHalted, SensorsAtRest, OneThread, OnlyRunning, Threads
<1> QED
  BY <1>1, <1>3, <1>4 DEF IInv

LEMMA InvSuffices == IInv => RoleInForce
<1> SUFFICES ASSUME IInv PROVE RoleInForce
  OBVIOUS
<1>0. /\ "main" \in Threads /\ NoRole \notin Named /\ alive \in [Sensors -> SUBSET Nat]
      /\ mixed \in BOOLEAN /\ crossed \in BOOLEAN /\ active \in known \cup {NoRole} /\ known \subseteq Named
  BY RoleAssumption DEF IInv, TypesInv, TypeOK, Threads
<1>1. ASSUME Quiet, ~mixed PROVE Applied
  <2>1. \A t \in Threads : pc[t] = "idle" /\ ~Busy(t)
    BY <1>1 DEF Quiet, Busy, Outside
  <2> QED
    BY <1>0, <1>1, <2>1 DEF IInv, ToolsInv, AtRest
<1>2. ASSUME NEW s \in Sensors, ~crossed
      PROVE  /\ Cardinality(alive[s]) <= 1
             /\ Quiet /\ alive[s] # {} => s \in Range(SensorsOf[active])
             /\ pc["main"] = "halted" => alive[s] = {}
  <2>1. alive[s] \subseteq {handle[s]} /\ (alive[s] # {} => running[s]) /\ SensorsHalted /\ SensorsAtRest
          /\ ~mixed
    BY <1>2 DEF IInv, SensorsInv, OneThread
  <2>2. Cardinality(alive[s]) <= 1
    <3>1. IsFiniteSet({handle[s]}) /\ Cardinality({handle[s]}) = 1
      BY FS_Singleton
    <3> QED
      BY <2>1, <3>1, FS_Subset
  <2>3. ASSUME Quiet, alive[s] # {} PROVE s \in Range(SensorsOf[active])
    <3>1. OnlyRunning(Range(StopFirst))
      BY <1>0, <2>1, <2>3 DEF SensorsAtRest, Quiet, Acting, Busy, Outside
    <3>2. active # NoRole
      BY <1>0, <1>1, <2>1, <2>3 DEF Applied
    <3> QED
      BY <2>1, <2>3, <3>1, <3>2 DEF OnlyRunning, StopFirst
  <2>4. pc["main"] = "halted" => alive[s] = {}
    BY <2>1 DEF SensorsHalted, OnlyRunning
  <2> QED
    BY <2>2, <2>3, <2>4
<1> QED
  BY <1>1, <1>2 DEF RoleInForce, RoleApplied, SensorsFollowRole, Applied

(* Whatever the role files say and whichever thread switches: after a switch that
   runs alone the tools, the text and the saved name are those of the role in
   force, whatever overlapping switches have left before it; and the sensors are,
   as long as none has overlapped.                                               *)
THEOREM RolesInForce == Spec => []RoleInForce
<1>1. IInv /\ [Next]_vars => IInv'
  BY TypesStep, TextStep, ToolsStep, SensorsStep DEF IInv
<1> QED
  BY <1>1, InvInit, InvSuffices, PTL DEF Spec
=============================================================================

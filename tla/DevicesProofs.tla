---------------------------- MODULE DevicesProofs ----------------------------
(***************************************************************************)
(* The microphone, the shell tool and the camera stream, for every value   *)
(* of their constants.                                                     *)
(*                                                                         *)
(* The microphone: MicShared is not inductive by itself, since a start of  *)
(* the sensor (voice_start) would lose a handle that the thread before     *)
(* still had.  None has, because the sensor manager takes the sensor as    *)
(* stopped only when there is no thread (RunningIsThread).                 *)
(*                                                                         *)
(* The shell: Leftovers speaks of the moment of the return alone; the      *)
(* induction carries it back to the place where the shell was waited for   *)
(* or killed (Settled).                                                    *)
(*                                                                         *)
(* The threads of the stream: `running` says where the capture thread of   *)
(* the latest start is, and the manager has set `stopping` and waited for  *)
(* both threads before it lets that start be over, unless the capture      *)
(* thread had failed.  Its clients: whoever is listed while no callback is *)
(* registered is the one whose request the server's thread is still at.    *)
(***************************************************************************)
EXTENDS MCDevices, FiniteSetTheorems, TLAPS

MicFlagTypes ==
  voiceStopping \in BOOLEAN /\ paused \in BOOLEAN /\ voiceRunning \in BOOLEAN /\ cap \in BOOLEAN
  /\ shutdown \in BOOLEAN
MicPlaceTypes ==
  /\ thread \in Voice!Places /\ mic \in {"free", "voice", "tool"}
  /\ tool \in {"idle", "open", "record", "resume"}
RunningIsThread == voiceRunning <=> thread # "none"
MicInv == MicFlagTypes /\ MicPlaceTypes /\ RunningIsThread /\ MicShared

LEMMA MicInit == Voice!Init => MicInv
  BY DEF Voice!Init, MicInv, MicFlagTypes, MicPlaceTypes, Voice!Places, RunningIsThread, MicShared, Voice!MicShared

(* voice_start, voice_stop and the join. *)
LEMMA MicManager == MicInv /\ Voice!Manager => MicInv'
<1> SUFFICES ASSUME MicInv, Voice!Manager PROVE MicInv'
  OBVIOUS
<1> USE DEF MicInv, MicFlagTypes, MicPlaceTypes, Voice!Places, RunningIsThread, MicShared, Voice!MicShared, Voice!flags, Voice!device,
            Voice!times, Voice!world
<1>1. CASE Voice!Start
  BY <1>1 DEF Voice!Start
<1>2. CASE Voice!Stop
  BY <1>2 DEF Voice!Stop
<1>3. CASE Voice!Joined
  BY <1>3 DEF Voice!Joined
<1> QED
  BY <1>1, <1>2, <1>3 DEF Voice!Manager

(* The voice thread: its handle and the owner of the device change together. *)
LEMMA MicListening == MicInv /\ Voice!Listening => MicInv'
<1> SUFFICES ASSUME MicInv, Voice!Listening PROVE MicInv'
  OBVIOUS
<1> USE DEF MicInv, MicFlagTypes, MicPlaceTypes, Voice!Places, RunningIsThread, MicShared, Voice!MicShared, Voice!flags, Voice!device,
            Voice!times, Voice!world
<1>1. CASE Voice!Open
  BY <1>1 DEF Voice!Open, Voice!Opening
<1>2. CASE Voice!Refused
  BY <1>2 DEF Voice!Refused, Voice!Opening
<1>3. CASE Voice!LoopEnds
  BY <1>3 DEF Voice!LoopEnds
<1>4. CASE Voice!Pause
  BY <1>4 DEF Voice!Pause, Voice!Close
<1>5. CASE Voice!GoOn
  BY <1>5 DEF Voice!GoOn
<1>6. CASE Voice!PauseEnds
  BY <1>6 DEF Voice!PauseEnds, Voice!Told
<1>7. CASE Voice!Leave
  BY <1>7 DEF Voice!Leave, Voice!Close
<1>8. CASE Voice!Read
  BY <1>8 DEF Voice!Read
<1>9. CASE Voice!Wake
  BY <1>9 DEF Voice!Wake
<1>10. CASE Voice!Push
  BY <1>10 DEF Voice!Push
<1>11. CASE Voice!Pushed
  BY <1>11 DEF Voice!Pushed
<1> QED
  BY <1>1, <1>2, <1>3, <1>4, <1>5, <1>6, <1>7, <1>8, <1>9, <1>10, <1>11 DEF Voice!Listening

(* record_audio: it takes only a free device, and gives it back. *)
LEMMA MicRecording == MicInv /\ (Voice!Ask \/ Voice!Recording) => MicInv'
<1> SUFFICES ASSUME MicInv, Voice!Ask \/ Voice!Recording PROVE MicInv'
  OBVIOUS
<1> USE DEF MicInv, MicFlagTypes, MicPlaceTypes, Voice!Places, RunningIsThread, MicShared, Voice!MicShared, Voice!flags, Voice!device,
            Voice!times, Voice!world
<1>1. CASE Voice!Ask
  BY <1>1 DEF Voice!Ask
<1>2. CASE Voice!ToolOpen
  BY <1>2 DEF Voice!ToolOpen
<1>3. CASE Voice!ToolRefused
  BY <1>3 DEF Voice!ToolRefused
<1>4. CASE Voice!Recorded
  BY <1>4 DEF Voice!Recorded
<1>5. CASE Voice!Resume
  BY <1>5 DEF Voice!Resume
<1> QED
  BY <1>1, <1>2, <1>3, <1>4, <1>5 DEF Voice!Recording

LEMMA MicStep == MicInv /\ [Voice!Next]_(Voice!vars) => MicInv'
<1> SUFFICES ASSUME MicInv, [Voice!Next]_(Voice!vars) PROVE MicInv'
  OBVIOUS
<1>1. CASE Voice!Manager
  BY <1>1, MicManager
<1>2. CASE Voice!Listening
  BY <1>2, MicListening
<1>3. CASE Voice!Ask \/ Voice!Recording
  BY <1>3, MicRecording
<1>4. CASE Voice!Tick
  BY <1>4 DEF Voice!Tick, MicInv, MicFlagTypes, MicPlaceTypes, RunningIsThread, MicShared, Voice!MicShared, Voice!flags, Voice!device
<1>5. CASE Voice!Shutdown
  BY <1>5 DEF Voice!Shutdown, MicInv, MicFlagTypes, MicPlaceTypes, RunningIsThread, MicShared, Voice!MicShared, Voice!flags, Voice!device
<1>6. CASE UNCHANGED Voice!vars
  BY <1>6 DEF Voice!vars, MicInv, MicFlagTypes, MicPlaceTypes, RunningIsThread, MicShared, Voice!MicShared, Voice!flags, Voice!device,
              Voice!times, Voice!world
<1> QED
  BY <1>1, <1>2, <1>3, <1>4, <1>5, <1>6 DEF Voice!Next

(* The voice thread and record_audio never share the microphone, never leak it,
   and no pause outlives its recording, however starts, stops, pauses and
   refusals of the device come between one another.                            *)
THEOREM MicrophoneShared == Voice!Spec => []MicShared
<1>1. Voice!Init => MicInv
  BY MicInit
<1>2. MicInv /\ [Voice!Next]_(Voice!vars) => MicInv'
  BY MicStep
<1>3. MicInv => MicShared
  BY DEF MicInv
<1> QED
  BY <1>1, <1>2, <1>3, PTL DEF Voice!Spec

(* The clocks of the two throttles: the wake word noted last is less than an
   interval newer than the slot taken last, for it took that one or was dropped
   because of it.                                                             *)
MicTimes ==
  /\ clock \in 1..MaxTime /\ now \in 0..clock
  /\ lastWake \in 0..now /\ lastPush \in 0..clock
  /\ voiceStarts \in 0..VoiceStarts /\ overtaken \in BOOLEAN
WokenOnce ==
  /\ lastWake - lastPush < Interval
  /\ thread = "pushed" => now - lastPush < Interval
MicClocked == MicTimes /\ WokenOnce

LEMMA MicClockInit == Voice!Init => MicClocked
<1>1. /\ MaxTime \in Nat /\ MaxTime >= 1 /\ VoiceStarts \in Nat
      /\ Interval \in Nat /\ Interval >= 1
  BY DevicesAssumption
<1>2. Voice!Init => MicTimes
  <2>1. Voice!Init => clock \in 1..MaxTime /\ now \in 0..clock /\ lastWake \in 0..now
                        /\ lastPush \in 0..clock /\ voiceStarts \in 0..VoiceStarts
    BY <1>1 DEF Voice!Init
  <2>2. Voice!Init => overtaken \in BOOLEAN
    BY DEF Voice!Init
  <2> QED
    BY <2>1, <2>2 DEF MicTimes
<1>3. Voice!Init => WokenOnce
  BY <1>1 DEF Voice!Init, WokenOnce
<1> QED
  BY <1>2, <1>3 DEF MicClocked

LEMMA MicClockStep ==
  ASSUME MicInv, MicClocked, [Voice!Next]_(Voice!vars)
  PROVE  MicClocked'
<1> USE DEF MicClocked, MicTimes, WokenOnce, MicInv, MicFlagTypes, MicPlaceTypes, Voice!Places
<1>1. /\ MaxTime \in Nat /\ VoiceStarts \in Nat /\ Interval \in Nat /\ Interval >= 1
  BY DevicesAssumption
<1>2. /\ clock \in Nat /\ now \in Nat /\ lastWake \in Nat /\ lastPush \in Nat
      /\ clock <= MaxTime /\ now <= clock /\ lastWake <= now /\ lastPush <= clock
  BY <1>1
<1>3. CASE Voice!Push
  <2>1. CASE Voice!Throttled
    BY <1>1, <1>2, <1>3, <2>1 DEF Voice!Push, Voice!Throttled, Voice!flags, Voice!device, Voice!world
  <2>2. CASE ~Voice!Throttled
    BY <1>1, <1>2, <1>3, <2>2 DEF Voice!Push, Voice!flags, Voice!device, Voice!world
  <2> QED
    BY <2>1, <2>2
<1>4. CASE Voice!Pushed
  BY <1>1, <1>2, <1>4 DEF Voice!Pushed, Voice!flags, Voice!device, Voice!world
<1>5. CASE Voice!Read
  BY <1>1, <1>2, <1>5 DEF Voice!Read, Voice!flags, Voice!device, Voice!world
<1>6. CASE Voice!Tick
  BY <1>1, <1>2, <1>6 DEF Voice!Tick, Voice!flags, Voice!device, Voice!times
<1>7. CASE Voice!Start
  BY <1>1, <1>2, <1>7 DEF Voice!Start, Voice!device, Voice!times
<1>8. CASE UNCHANGED Voice!vars
  BY <1>8 DEF Voice!vars, Voice!flags, Voice!device, Voice!times, Voice!world
<1>9. ASSUME \/ Voice!Stop \/ Voice!Joined \/ Voice!Open \/ Voice!Refused \/ Voice!LoopEnds
             \/ Voice!Pause \/ Voice!GoOn \/ Voice!PauseEnds \/ Voice!Leave \/ Voice!Wake
             \/ Voice!Ask \/ Voice!Recording \/ Voice!Shutdown
      PROVE  MicClocked'
  <2>1. UNCHANGED <<clock, now, lastWake, lastPush, voiceStarts>> /\ overtaken' \in BOOLEAN
    BY <1>9 DEF Voice!Stop, Voice!Joined, Voice!Open, Voice!Refused, Voice!LoopEnds, Voice!Pause,
         Voice!GoOn, Voice!PauseEnds, Voice!Leave, Voice!Wake, Voice!Ask, Voice!Recording,
         Voice!ToolOpen, Voice!ToolRefused, Voice!Recorded, Voice!Resume, Voice!Shutdown,
         Voice!times, Voice!world
  <2>2. thread' # "pushed" \/ thread' = thread
    BY <1>9 DEF Voice!Stop, Voice!Joined, Voice!Open, Voice!Refused, Voice!LoopEnds, Voice!Pause,
         Voice!GoOn, Voice!PauseEnds, Voice!Leave, Voice!Wake, Voice!Ask, Voice!Recording,
         Voice!ToolOpen, Voice!ToolRefused, Voice!Recorded, Voice!Resume, Voice!Shutdown
  <2> QED
    BY <2>1, <2>2
<1> QED
  BY <1>3, <1>4, <1>5, <1>6, <1>7, <1>8, <1>9
     DEF Voice!Next, Voice!Manager, Voice!Listening

(* A wake word that either throttle drops is less than two intervals, but for a
   second, after a slot was taken: the limit of sensor_voice.c:164 and that of
   the sensor manager do not add up to a longer silence.                        *)
THEOREM UserIsHeard == Voice!Spec => Heard
<1> DEFINE Step ==
      /\ thread = "wake" /\ thread' = "loop" => Voice!Silenced(now)
      /\ thread = "push" /\ thread' = "pushed" /\ lastPush' # clock => Voice!Silenced(clock)
<1>1. Voice!Init => MicInv /\ MicClocked
  BY MicInit, MicClockInit
<1>2. MicInv /\ MicClocked /\ [Voice!Next]_(Voice!vars) => MicInv' /\ MicClocked'
  BY MicStep, MicClockStep
<1>3. MicInv /\ MicClocked /\ [Voice!Next]_(Voice!vars) => [Step]_(Voice!vars)
  <2> SUFFICES ASSUME MicInv, MicClocked, Voice!Next PROVE Step
    OBVIOUS
  <2>1. /\ Interval \in Nat /\ Interval >= 1
        /\ clock \in Nat /\ now \in Nat /\ lastWake \in Nat /\ lastPush \in Nat
        /\ now <= clock /\ lastWake - lastPush < Interval
    BY DevicesAssumption DEF MicClocked, MicTimes, WokenOnce
  <2>2. thread = "wake" /\ thread' = "loop" => Voice!Wake
    BY DEF Voice!Next, Voice!Manager, Voice!Listening, Voice!Recording, Voice!Start, Voice!Stop,
         Voice!Joined, Voice!Open, Voice!Refused, Voice!Opening, Voice!LoopEnds, Voice!Pause,
         Voice!GoOn, Voice!PauseEnds, Voice!Leave, Voice!Read, Voice!Push, Voice!Pushed,
         Voice!Ask, Voice!ToolOpen, Voice!ToolRefused, Voice!Recorded, Voice!Resume,
         Voice!Tick, Voice!Shutdown
  <2>3. thread = "push" /\ thread' = "pushed" => Voice!Push
    BY DEF Voice!Next, Voice!Manager, Voice!Listening, Voice!Recording, Voice!Start, Voice!Stop,
         Voice!Joined, Voice!Open, Voice!Refused, Voice!Opening, Voice!LoopEnds, Voice!Pause,
         Voice!GoOn, Voice!PauseEnds, Voice!Leave, Voice!Read, Voice!Wake, Voice!Pushed,
         Voice!Ask, Voice!ToolOpen, Voice!ToolRefused, Voice!Recorded, Voice!Resume,
         Voice!Tick, Voice!Shutdown
  <2>4. thread = "wake" /\ thread' = "loop" => Voice!Silenced(now)
    <3> SUFFICES ASSUME thread = "wake", thread' = "loop" PROVE Voice!Silenced(now)
      OBVIOUS
    <3>1. ~(now - lastWake >= Interval)
      BY <2>2 DEF Voice!Wake
    <3> QED
      BY <2>1, <3>1 DEF Voice!Silenced
  <2>5. thread = "push" /\ thread' = "pushed" /\ lastPush' # clock => Voice!Silenced(clock)
    <3> SUFFICES ASSUME thread = "push", thread' = "pushed", lastPush' # clock
                 PROVE  Voice!Silenced(clock)
      OBVIOUS
    <3>1. clock - lastPush < Interval
      BY <2>3 DEF Voice!Push, Voice!Throttled
    <3> QED
      BY <2>1, <3>1 DEF Voice!Silenced
  <2> QED
    BY <2>4, <2>5
<1>4. Voice!Spec => [][Step]_(Voice!vars)
  BY <1>1, <1>2, <1>3, PTL DEF Voice!Spec
<1> QED
  BY <1>4 DEF Heard, Voice!Heard
-----------------------------------------------------------------------------
NobodyRuns == \A p \in Shell!Processes : ~Shell!Runs(p)
ProcessTypes ==
  /\ life \in [Shell!Processes -> {"none", "runs", "zombie", "gone"}]
  /\ writes \subseteq Shell!Processes
Settled ==
  /\ place \in {"drain", "asked", "forced"} => life["shell"] = "gone"
  /\ place \in {"kill", "forced"} => NobodyRuns
ShellInv == ProcessTypes /\ Settled /\ Leftovers

LEMMA ShellInit == Shell!Init => ShellInv
  BY DEF Shell!Init, ShellInv, ProcessTypes, Settled, NobodyRuns, Leftovers, Shell!Leftovers, Shell!Processes, Shell!Runs

(* What a process does, it does only while it runs and the call lasts. *)
LEMMA ShellSystem == ShellInv /\ Shell!System => ShellInv'
<1> SUFFICES ASSUME ShellInv, Shell!System PROVE ShellInv'
  OBVIOUS
<1> USE DEF ShellInv, ProcessTypes, Settled, NobodyRuns, Leftovers, Shell!Leftovers, Shell!Processes, Shell!Runs
<1>1. CASE Shell!Fork
  BY <1>1 DEF Shell!Fork
<1>2. ASSUME NEW p \in Shell!Processes, Shell!Write(p) PROVE ShellInv'
  BY <1>2 DEF Shell!Write
<1>3. ASSUME NEW p \in Shell!Processes, Shell!CloseOutput(p) PROVE ShellInv'
  BY <1>3 DEF Shell!CloseOutput
<1>4. ASSUME NEW p \in Shell!Processes, Shell!Exit(p) PROVE ShellInv'
  BY <1>4 DEF Shell!Exit, Shell!Ended
<1> QED
  BY <1>1, <1>2, <1>3, <1>4 DEF Shell!System

(* The steps of the caller that only look. *)
LEMMA ShellReading ==
  ShellInv /\ (Shell!Time \/ Shell!ReadSome \/ Shell!ReadNothing \/ Shell!ReadEnd \/ Shell!WaitSleeps \/ Shell!Drain) => ShellInv'
<1> SUFFICES ASSUME ShellInv, Shell!Time \/ Shell!ReadSome \/ Shell!ReadNothing \/ Shell!ReadEnd \/ Shell!WaitSleeps \/ Shell!Drain
             PROVE ShellInv'
  OBVIOUS
<1> USE DEF ShellInv, ProcessTypes, Settled, NobodyRuns, Leftovers, Shell!Leftovers, Shell!Processes, Shell!Runs
<1>1. CASE Shell!Time
  BY <1>1 DEF Shell!Time, Shell!child
<1>2. CASE Shell!ReadSome
  BY <1>2 DEF Shell!ReadSome
<1>3. CASE Shell!ReadNothing
  BY <1>3 DEF Shell!ReadNothing, Shell!child
<1>4. CASE Shell!ReadEnd
  BY <1>4 DEF Shell!ReadEnd, Shell!Return, Shell!child
<1>5. CASE Shell!WaitSleeps
  BY <1>5 DEF Shell!WaitSleeps, Shell!child
<1>6. CASE Shell!Drain
  BY <1>6 DEF Shell!Drain, Shell!Return
<1> QED
  BY <1>1, <1>2, <1>3, <1>4, <1>5, <1>6

(* The steps that wait for the shell or end it. *)
LEMMA ShellEnding ==
  ShellInv /\ (Shell!WaitReaps \/ Shell!Term \/ Shell!GraceReaps \/ Shell!Kill \/ Shell!KillReaps \/ Shell!Late) => ShellInv'
<1> SUFFICES ASSUME ShellInv, Shell!WaitReaps \/ Shell!Term \/ Shell!GraceReaps \/ Shell!Kill \/ Shell!KillReaps \/ Shell!Late
             PROVE ShellInv'
  OBVIOUS
<1> USE DEF ShellInv, ProcessTypes, Settled, NobodyRuns, Leftovers, Shell!Leftovers, Shell!Processes, Shell!Runs
<1>1. CASE Shell!WaitReaps
  BY <1>1 DEF Shell!WaitReaps, Shell!Reap
<1>2. CASE Shell!Term
  BY <1>2 DEF Shell!Term, Shell!Signal, Shell!Ended
<1>3. CASE Shell!GraceReaps
  BY <1>3 DEF Shell!GraceReaps, Shell!Reap
<1>4. CASE Shell!Kill
  BY <1>4 DEF Shell!Kill, Shell!Signal, Shell!Ended
<1>5. CASE Shell!KillReaps
  BY <1>5 DEF Shell!KillReaps, Shell!Reap
<1>6. CASE Shell!Late
  BY <1>6 DEF Shell!Late, Shell!Return, Shell!child
<1> QED
  BY <1>1, <1>2, <1>3, <1>4, <1>5, <1>6

LEMMA ShellStep == ShellInv /\ [Shell!Next]_(Shell!vars) => ShellInv'
<1> SUFFICES ASSUME ShellInv, [Shell!Next]_(Shell!vars) PROVE ShellInv'
  OBVIOUS
<1>1. CASE Shell!Call
  BY <1>1 DEF Shell!Call, ShellInv, ProcessTypes, Settled, NobodyRuns, Leftovers, Shell!Leftovers, Shell!Processes, Shell!Runs
<1>2. CASE Shell!Caller
  BY <1>2, ShellReading, ShellEnding DEF Shell!Caller
<1>3. CASE Shell!System
  BY <1>3, ShellSystem
<1>4. CASE Shell!Tick
  BY <1>4 DEF Shell!Tick, Shell!child, ShellInv, ProcessTypes, Settled, NobodyRuns, Leftovers, Shell!Leftovers, Shell!Runs
<1>5. CASE UNCHANGED Shell!vars
  BY <1>5 DEF Shell!vars, Shell!child, ShellInv, ProcessTypes, Settled, NobodyRuns, Leftovers, Shell!Leftovers, Shell!Runs
<1> QED
  BY <1>1, <1>2, <1>3, <1>4, <1>5 DEF Shell!Next

(* A call that returns a status or a time-out has waited for its shell, one that
   had to kill leaves nothing running, and only one whose output ended first
   leaves its shell to itself: whatever the processes do and in whatever order.  *)
THEOREM LeftoversCorrect == Shell!Spec => []Leftovers
<1>1. Shell!Init => ShellInv
  BY ShellInit
<1>2. ShellInv /\ [Shell!Next]_(Shell!vars) => ShellInv'
  BY ShellStep
<1>3. ShellInv => Leftovers
  BY DEF ShellInv
<1> QED
  BY <1>1, <1>2, <1>3, PTL DEF Shell!Spec

ShellCounts ==
  /\ place \in {"idle", "time", "read", "wait", "drain", "term", "grace", "kill",
                "asked", "forced"}
  /\ elapsed \in 0..(Timeout + Grace) /\ total \in 0..MaxOutput /\ pipe \in 0..PipeSize
  /\ stubborn \subseteq Shell!Processes
  /\ ending \in {"none", "end", "status", "asked", "forced"} /\ calls \in 0..MaxCalls

LEMMA ShellCountInit == Shell!Init => ShellCounts
  BY DevicesAssumption DEF Shell!Init, ShellCounts

LEMMA ShellCountStep ==
  ASSUME ShellCounts, [Shell!Next]_(Shell!vars)
  PROVE  ShellCounts'
<1> USE DEF ShellCounts
<1>1. /\ Timeout \in Nat /\ Grace \in Nat /\ MaxOutput \in Nat /\ PipeSize \in Nat
      /\ MaxCalls \in Nat
  BY DevicesAssumption
<1>2. CASE Shell!Call
  BY <1>1, <1>2 DEF Shell!Call
<1>3. CASE Shell!System
  BY <1>1, <1>3 DEF Shell!System, Shell!Fork, Shell!Write, Shell!CloseOutput, Shell!Exit
<1>4. CASE Shell!Tick
  BY <1>1, <1>4 DEF Shell!Tick, Shell!child
<1>5. CASE Shell!ReadSome
  BY <1>1, <1>5 DEF Shell!ReadSome
<1>6. CASE Shell!Drain
  BY <1>1, <1>6 DEF Shell!Drain, Shell!Return
<1>7. CASE Shell!Time \/ Shell!ReadNothing \/ Shell!ReadEnd \/ Shell!WaitSleeps \/ Shell!Late
  BY <1>1, <1>7 DEF Shell!Time, Shell!ReadNothing, Shell!ReadEnd, Shell!WaitSleeps, Shell!Late,
                    Shell!Return, Shell!child
<1>8. CASE Shell!WaitReaps \/ Shell!GraceReaps \/ Shell!KillReaps \/ Shell!Term \/ Shell!Kill
  BY <1>1, <1>8 DEF Shell!WaitReaps, Shell!GraceReaps, Shell!KillReaps, Shell!Reap, Shell!Term,
                    Shell!Kill, Shell!Signal
<1>9. CASE UNCHANGED Shell!vars
  BY <1>9 DEF Shell!vars, Shell!child
<1> QED
  BY <1>2, <1>3, <1>4, <1>5, <1>6, <1>7, <1>8, <1>9 DEF Shell!Next, Shell!Caller
-----------------------------------------------------------------------------
FlagTypes ==
  /\ running \in BOOLEAN /\ stopping \in BOOLEAN /\ ready \in BOOLEAN /\ started \in BOOLEAN
  /\ hurried \in BOOLEAN
PlaceTypes ==
  /\ capture \in [Nth -> {"none", "setup", "loop", "frame", "ended"}]
  /\ ai \in [Nth -> {"none", "wait", "setup", "loop", "ended"}]
  /\ manager \in {"idle", "clear", "create", "createAI", "abort", "joinAI", "joinCapture",
                  "stopped"}
  /\ starts \in 0..MaxStarts /\ failed \subseteq Nth

Over(n) == Ended(capture[n]) /\ (n \notin failed => Ended(ai[n]))

(* Before a start there is no thread of it; after the next one no more. *)
PastAndFuture ==
  \A n \in Nth : /\ n > starts => capture[n] = "none" /\ ai[n] = "none"
                 /\ n < starts => Over(n)
(* The latest start, seen from where the manager is. *)
Beginning == {"clear", "create"}
Stopping == {"joinAI", "joinCapture", "stopped"}
Latest ==
  /\ manager # "idle" \/ started \/ running \/ ready => starts # 0
  /\ manager \in Beginning => running /\ capture[starts] = "none"
  /\ manager \in Beginning \cup {"createAI", "abort"} => ai[starts] = "none" /\ ~started
  /\ manager \in Stopping => started
  /\ manager \in {"joinCapture", "stopped"} => Ended(ai[starts])
  /\ manager = "stopped" => Ended(capture[starts])
  /\ manager = "idle" /\ ~started /\ starts # 0 => Over(starts)
(* What the flags say of it. *)
Flags ==
  /\ starts # 0 /\ manager \notin Beginning => (running <=> ~Ended(capture[starts]))
  /\ started \/ manager \in Beginning \cup {"createAI"} => (stopping <=> manager \in Stopping)
  /\ starts # 0 /\ capture[starts] = "ended" /\ ~stopping => starts \in failed
  /\ starts # 0 /\ capture[starts] = "none" =>
       manager \in Beginning \/ (manager = "idle" /\ ~started)
  /\ ready => capture[starts] \in {"loop", "frame", "ended"}
OneSetup ==
  failed = {} /\ ~hurried /\ starts # 0 =>
    ~(capture[starts] = "setup" /\ ai[starts] = "setup")
ThreadInv == FlagTypes /\ PlaceTypes /\ PastAndFuture /\ Latest /\ Flags /\ OneSetup

ThreadVars == <<hal, threads, sensor, failed, hurried>>

LEMMA ThreadInit == MaxStarts \in Nat /\ Init => ThreadInv
<1> SUFFICES ASSUME MaxStarts \in Nat, Init PROVE ThreadInv
  OBVIOUS
<1>0. FlagTypes
  BY DEF Init, FlagTypes
<1>1. PlaceTypes
  BY DEF Init, PlaceTypes
<1>2. PastAndFuture
  BY DEF Init, PastAndFuture, Over, Ended, Nth
<1>3. Latest /\ Flags /\ OneSetup
  BY DEF Init, Latest, Flags, OneSetup, Beginning, Stopping
<1> QED
  BY <1>0, <1>1, <1>2, <1>3 DEF ThreadInv

(* The manager's start and stop. *)
LEMMA ManagerThreads == MaxStarts \in Nat /\ ThreadInv /\ Manager => ThreadInv'
<1> SUFFICES ASSUME MaxStarts \in Nat, ThreadInv, Manager PROVE ThreadInv'
  OBVIOUS
<1> USE DEF ThreadInv, FlagTypes, PlaceTypes, PastAndFuture, Latest, Flags, OneSetup, Over, Ended, Nth,
            Beginning, Stopping, hal, threads, sensor, history, Clear
<1>1. CASE Start
  <2>1. FlagTypes'
    BY <1>1 DEF Start
  <2>6. PlaceTypes'
    BY <1>1 DEF Start
  <2>2. PastAndFuture'
    BY <1>1 DEF Start
  <2>3. Latest'
    BY <1>1 DEF Start
  <2>4. Flags'
    BY <1>1 DEF Start
  <2>5. OneSetup'
    BY <1>1 DEF Start
  <2> QED
    BY <2>1, <2>2, <2>3, <2>4, <2>5, <2>6
<1>2. CASE StartClears
  BY <1>2 DEF StartClears
<1>3. CASE StartCapture
  <2>1. CASE capture' = [capture EXCEPT ![starts] = "setup"] /\ manager' = "createAI"
             /\ UNCHANGED running
    <3>1. capture'[starts] = "setup" /\ \A n \in Nth \ {starts} : capture'[n] = capture[n]
      BY <2>1, <1>3 DEF StartCapture
    <3>2. FlagTypes' /\ PlaceTypes'
      BY <2>1, <1>3 DEF StartCapture
    <3>3. PastAndFuture' /\ OneSetup'
      BY <2>1, <3>1, <1>3 DEF StartCapture
    <3>4. Latest' /\ Flags'
      BY <2>1, <3>1, <1>3 DEF StartCapture
    <3> QED
      BY <3>2, <3>3, <3>4
  <2>2. CASE running' = FALSE /\ manager' = "idle" /\ UNCHANGED capture
    BY <2>2, <1>3 DEF StartCapture
  <2> QED
    BY <2>1, <2>2, <1>3 DEF StartCapture
<1>4. CASE StartAI
  <2>1. FlagTypes'
    BY <1>4 DEF StartAI
  <2>6. PlaceTypes'
    BY <1>4 DEF StartAI
  <2>2. PastAndFuture'
    BY <1>4 DEF StartAI
  <2>3. Latest'
    BY <1>4 DEF StartAI
  <2>4. Flags'
    BY <1>4 DEF StartAI
  <2>5. OneSetup'
    BY <1>4 DEF StartAI
  <2> QED
    BY <2>1, <2>2, <2>3, <2>4, <2>5, <2>6
<1>5. CASE StartAborts
  BY <1>5 DEF StartAborts
<1>6. CASE Stop
  BY <1>6 DEF Stop
<1>7. CASE StopJoins
  BY <1>7 DEF StopJoins
<1>8. CASE StopClears
  BY <1>8 DEF StopClears
<1> QED
  BY <1>1, <1>2, <1>3, <1>4, <1>5, <1>6, <1>7, <1>8 DEF Manager

(* The capture threads: only that of the latest start still takes a step. *)
LEMMA CaptureThreads ==
  ASSUME MaxStarts \in Nat, ThreadInv, NEW n \in Nth, Capture(n)
  PROVE  ThreadInv'
<1> USE DEF ThreadInv, FlagTypes, PlaceTypes, PastAndFuture, Latest, Flags, OneSetup, Over, Ended, Nth,
            Beginning, Stopping, hal, threads, sensor, history, CaptureGoes
<1>1. CASE CaptureOpens(n)
  <2>0. n = starts
    BY <1>1 DEF CaptureOpens
  <2>1. FlagTypes'
    BY <2>0, <1>1 DEF CaptureOpens
  <2>6. PlaceTypes'
    BY <2>0, <1>1 DEF CaptureOpens
  <2>2. PastAndFuture'
    BY <2>0, <1>1 DEF CaptureOpens
  <2>3. Latest'
    BY <2>0, <1>1 DEF CaptureOpens
  <2>4. Flags'
    BY <2>0, <1>1 DEF CaptureOpens
  <2>5. OneSetup'
    BY <2>0, <1>1 DEF CaptureOpens
  <2> QED
    BY <2>1, <2>2, <2>3, <2>4, <2>5, <2>6
<1>2. CASE Frame(n) \/ Call(n)
  <2>0. n = starts /\ capture[n] \in {"loop", "frame"}
    BY <1>2 DEF Frame, Call
  <2>1. /\ capture' = [capture EXCEPT ![n] = "frame"] \/ capture' = [capture EXCEPT ![n] = "loop"]
        /\ UNCHANGED <<running, stopping, ready, started, manager, starts, ai, failed, hurried>>
    BY <1>2 DEF Frame, Call
  <2>2. FlagTypes' /\ PlaceTypes'
    BY <2>1
  <2>3. PastAndFuture' /\ OneSetup'
    BY <2>0, <2>1
  <2>4. Latest' /\ Flags'
    BY <2>0, <2>1
  <2> QED
    BY <2>2, <2>3, <2>4
<1>3. CASE CaptureEnds(n)
  <2>0. n = starts
    BY <1>3 DEF CaptureEnds
  <2>1. FlagTypes'
    BY <2>0, <1>3 DEF CaptureEnds
  <2>6. PlaceTypes'
    BY <2>0, <1>3 DEF CaptureEnds
  <2>2. PastAndFuture'
    BY <2>0, <1>3 DEF CaptureEnds
  <2>3. Latest'
    BY <2>0, <1>3 DEF CaptureEnds
  <2>4. Flags'
    BY <2>0, <1>3 DEF CaptureEnds
  <2>5. OneSetup'
    BY <2>0, <1>3 DEF CaptureEnds
  <2> QED
    BY <2>1, <2>2, <2>3, <2>4, <2>5, <2>6
<1> QED
  BY <1>1, <1>2, <1>3 DEF Capture

(* The AI threads: that of the latest start, and strays of a failed one. *)
LEMMA AIThreads ==
  ASSUME MaxStarts \in Nat, ThreadInv, NEW n \in Nth, AI(n)
  PROVE  ThreadInv'
<1> USE DEF ThreadInv, FlagTypes, PlaceTypes, PastAndFuture, Latest, Flags, OneSetup, Over, Ended, Nth,
            Beginning, Stopping, hal, threads, sensor, history, AIGoes
<1>1. CASE AIWaits(n)
  BY <1>1 DEF AIWaits
<1>2. CASE AIOpens(n)
  BY <1>2 DEF AIOpens
<1>3. CASE AIEnds(n)
  BY <1>3 DEF AIEnds
<1> QED
  BY <1>1, <1>2, <1>3 DEF AI

(* The server's thread and a send touch nothing of the threads. *)
LEMMA ServerLeavesThreads == Send \/ Server \/ UNCHANGED vars => UNCHANGED ThreadVars
<1> USE DEF ThreadVars, hal, threads, sensor, history
<1>1. Send => UNCHANGED ThreadVars
  BY DEF Send
<1>2. Request \/ Add \/ Count \/ Register => UNCHANGED ThreadVars
  BY DEF Request, Add, Count, Register
<1>3. \A c \in Conns : Hangup(c) \/ Close(c) => UNCHANGED ThreadVars
  BY DEF Hangup, Close
<1>4. UNCHANGED vars => UNCHANGED ThreadVars
  BY DEF vars
<1> QED
  BY <1>1, <1>2, <1>3, <1>4 DEF Server

LEMMA ThreadStep == MaxStarts \in Nat /\ ThreadInv /\ [Next]_vars => ThreadInv'
<1> SUFFICES ASSUME MaxStarts \in Nat, ThreadInv, [Next]_vars PROVE ThreadInv'
  OBVIOUS
<1>1. CASE Manager
  BY <1>1, ManagerThreads
<1>2. ASSUME NEW n \in Nth, Capture(n) \/ AI(n) PROVE ThreadInv'
  BY <1>2, CaptureThreads, AIThreads
<1>3. CASE Send \/ Server \/ UNCHANGED vars
  BY <1>3, ServerLeavesThreads
     DEF ThreadVars, hal, threads, sensor, ThreadInv, FlagTypes, PlaceTypes, PastAndFuture, Latest, Flags,
         OneSetup, Over, Ended, Beginning, Stopping
<1> QED
  BY <1>1, <1>2, <1>3 DEF Next

LEMMA ThreadsSuffice == MaxStarts \in Nat /\ ThreadInv => StreamThreads
<1> SUFFICES ASSUME MaxStarts \in Nat, ThreadInv PROVE StreamThreads
  OBVIOUS
<1> USE DEF ThreadInv, FlagTypes, PlaceTypes, PastAndFuture, Latest, Over, Ended, Nth
<1>1. ASSUME NEW n \in Nth, n < starts \/ (manager = "idle" /\ ~started) PROVE Over(n)
  BY <1>1
<1>2. ASSUME failed = {}, ~hurried, NEW n \in Nth, NEW m \in Nth,
             capture[n] = "setup", ai[m] = "setup"
      PROVE  FALSE
  <2>1. n = starts /\ m = starts
    BY <1>2
  <2> QED
    BY <1>2, <2>1 DEF OneSetup
<1> QED
  BY <1>1, <1>2 DEF StreamThreads

(* No thread of a stream outlives its stop, but for the AI thread of a start
   whose camera failed: hal_camera_stream_stop joins both while running is set.*)
THEOREM ThreadsJoined ==
  ASSUME MaxStarts \in Nat
  PROVE  Spec => []StreamThreads
<1>1. Init => ThreadInv
  BY ThreadInit
<1>2. ThreadInv /\ [Next]_vars => ThreadInv'
  BY ThreadStep
<1>3. ThreadInv => StreamThreads
  BY ThreadsSuffice
<1> QED
  BY <1>1, <1>2, <1>3, PTL DEF Spec
-----------------------------------------------------------------------------
ClientTypes ==
  /\ cbs \in 0..MaxCbs /\ calling \in 0..MaxCbs
  /\ list \subseteq Conns
  /\ conn \in [Conns -> {"none", "open", "closing"}]
  /\ server \in {"idle", "add", "count", "register"}
(* Who is listed has a connection; the one being added is not listed yet. *)
Listed ==
  /\ \A c \in list : conn[c] # "none"
  /\ server = "add" => client \in Conns /\ client \notin list /\ conn[client] = "open"
  /\ (server = "count" /\ Alone) \/ server = "register" =>
       list # {} /\ \A c \in list : conn[c] = "open"
(* A callback is registered, or the server's thread is about to. *)
Registered ==
  ~deserted =>
    /\ list # {} /\ server \in {"idle", "add"} => cbs > 0
    /\ server = "count" /\ list # {} /\ ~Alone => cbs > 0
(* It is registered once: for the first client, with none before. *)
Once ==
  ~left => /\ cbs <= 1
           /\ list = {} \/ server = "register" \/ (server = "count" /\ Alone) => cbs = 0
ClientInv == ClientTypes /\ Listed /\ Registered /\ Once

ClientVars == <<cbs, calling, list, conn, server, client, left, deserted>>
ClientAssumptions ==
  IsFiniteSet(Conns) /\ MaxClients \in Nat /\ MaxClients >= 2 /\ MaxCbs \in Nat \ {0}

LEMMA ClientInit == ClientAssumptions /\ Init => ClientInv
<1> SUFFICES ASSUME ClientAssumptions, Init PROVE ClientInv
  OBVIOUS
<1>1. ClientTypes
  BY DEF ClientAssumptions, Init, ClientTypes
<1>2. Listed /\ Registered /\ Once
  BY DEF Init, Listed, Registered, Once
<1> QED
  BY <1>1, <1>2 DEF ClientInv

(* Adding to a list of fewer than MaxClients >= 2: one is left alone only if
   nobody was listed before.                                                  *)
LEMMA AddedAlone ==
  ASSUME ClientAssumptions, ClientInv, Add
  PROVE  /\ list # {} => ~Alone'
         /\ list = {} => Alone' /\ list' = {client}
<1>1. IsFiniteSet(list) /\ client \notin list
  BY FS_Subset DEF ClientAssumptions, ClientInv, ClientTypes, Listed, Add
<1>2. Cardinality(list) \in Nat /\ (Cardinality(list) = 0 <=> list = {})
  BY <1>1, FS_CardinalityType, FS_EmptySet
<1>3. Cardinality(list \cup {client}) = Cardinality(list) + 1
  BY <1>1, FS_AddElement
<1> QED
  BY <1>2, <1>3 DEF ClientAssumptions, Add, Alone

(* The server's thread. *)
LEMMA ServerClients == ClientAssumptions /\ ClientInv /\ Server => ClientInv'
<1> SUFFICES ASSUME ClientAssumptions, ClientInv, Server PROVE ClientInv'
  OBVIOUS
<1> USE DEF ClientInv, ClientTypes, Listed, Registered, Once, history
<1>1. CASE Request
  BY <1>1 DEF Request, Alone
<1>2. CASE Add
  <2>1. ClientTypes' /\ server' = "count" /\ UNCHANGED <<cbs, conn, left, deserted>>
    BY <1>2 DEF Add
  <2>2. list' \subseteq list \cup {client} /\ (list = {} => Alone' /\ list' = {client})
          /\ (list # {} => ~Alone')
    BY <1>2, AddedAlone DEF Add
  <2>3. Listed' /\ Registered' /\ Once'
    BY <1>2, <2>1, <2>2 DEF Add
  <2> QED
    BY <2>1, <2>3
<1>3. CASE Count
  BY <1>3 DEF Count, Alone
<1>4. CASE Register
  BY <1>4 DEF Register, Alone, ClientAssumptions
<1>5. ASSUME NEW c \in Conns, Hangup(c) PROVE ClientInv'
  BY <1>5 DEF Hangup
<1>6. ASSUME NEW c \in Conns, Close(c) PROVE ClientInv'
  BY <1>6 DEF Close
<1> QED
  BY <1>1, <1>2, <1>3, <1>4, <1>5, <1>6 DEF Server

(* A send in the capture thread, which drops those that are closing. *)
LEMMA SendClients == ClientAssumptions /\ ClientInv /\ Send => ClientInv'
<1> SUFFICES ASSUME ClientAssumptions, ClientInv, Send PROVE ClientInv'
  OBVIOUS
<1> USE DEF ClientInv, ClientTypes, Listed, Registered, Once
<1>1. list' \subseteq list /\ \A c \in list' : conn[c] = "open"
  BY DEF Send
<1>2. Alone' => list' # {}
  BY FS_EmptySet DEF Alone
<1>3. server = "count" /\ Alone => list' = list
  BY DEF Send
<1>4. ~left' => list' = list
  BY DEF Send
<1>5. server = "register" => list' = list
  BY DEF Send
<1>6. ClientTypes'
  BY <1>1 DEF Send, ClientAssumptions
<1>7. Listed'
  BY <1>1, <1>2, <1>5 DEF Send
<1>8. Registered'
  BY <1>1, <1>3 DEF Send, Alone
<1>9. Once'
  BY <1>1, <1>4 DEF Send, Alone
<1> QED
  BY <1>6, <1>7, <1>8, <1>9

(* The manager clears; the threads only begin to call. *)
LEMMA ManagerClients == ClientAssumptions /\ ClientInv /\ Manager => ClientInv'
<1> SUFFICES ASSUME ClientAssumptions, ClientInv, Manager PROVE ClientInv'
  OBVIOUS
<1>1. ASSUME StartClears \/ StopClears PROVE ClientInv'
  <2>1. cbs' = 0 /\ UNCHANGED <<calling, list, conn, server, client>>
    BY <1>1 DEF StartClears, StopClears, Clear, gateway
  <2>2. ~deserted' => list' = {} /\ server' = "idle"
    BY <1>1, <2>1 DEF StartClears, StopClears, Clear
  <2>3. ClientTypes' /\ Listed'
    BY <2>1 DEF ClientInv, ClientTypes, Listed, Alone, ClientAssumptions
  <2>4. Registered' /\ Once'
    BY <2>1, <2>2 DEF Registered, Once
  <2> QED
    BY <2>3, <2>4 DEF ClientInv
<1>2. Start \/ StartCapture \/ StartAI \/ StartAborts \/ Stop \/ StopJoins
        => UNCHANGED ClientVars
  BY DEF Start, StartCapture, StartAI, StartAborts, Stop, StopJoins, ClientVars, gateway, history
<1>3. UNCHANGED ClientVars => ClientInv'
  BY DEF ClientVars, ClientInv, ClientTypes, Listed, Registered, Once, Alone
<1> QED
  BY <1>1, <1>2, <1>3 DEF Manager

LEMMA ThreadClients ==
  ASSUME ClientAssumptions, ClientInv, NEW n \in Nth, Capture(n) \/ AI(n)
  PROVE  ClientInv'
<1> USE DEF ClientInv, ClientTypes, Listed, Registered, Once, Alone, gateway, history
<1>1. CASE Frame(n) \/ Call(n)
  <2>1. UNCHANGED <<cbs, list, conn, server, client, left, deserted>> /\ calling' \in {0, calling, cbs}
    BY <1>1 DEF Frame, Call
  <2>2. 0 \in 0..MaxCbs
    BY DEF ClientAssumptions
  <2> QED
    BY <2>1, <2>2
<1>2. CASE CaptureOpens(n) \/ CaptureEnds(n) \/ AI(n)
  BY <1>2 DEF CaptureOpens, CaptureEnds, AI, AIWaits, AIOpens, AIEnds
<1> QED
  BY <1>1, <1>2 DEF Capture

LEMMA ClientStep == ClientAssumptions /\ ClientInv /\ [Next]_vars => ClientInv'
<1> SUFFICES ASSUME ClientAssumptions, ClientInv, [Next]_vars PROVE ClientInv'
  OBVIOUS
<1>1. ASSUME NEW n \in Nth, Capture(n) \/ AI(n) PROVE ClientInv'
  BY <1>1, ThreadClients
<1>2. CASE UNCHANGED vars
  BY <1>2 DEF vars, gateway, history, ClientInv, ClientTypes, Listed, Registered, Once, Alone
<1> QED
  BY <1>1, <1>2, ManagerClients, SendClients, ServerClients DEF Next

(* Nothing is sent on a freed connection, and unless a start or a stop has
   cleared the callbacks on them, listed clients get the frames: the server's
   thread registers for the first one alone and counts the list without a lock,
   which does no harm because only the capture thread makes it shorter.        *)
THEOREM ClientsServed ==
  ASSUME ClientAssumptions
  PROVE  Spec => []FramesReachClients
<1>1. Init => ClientInv
  BY ClientInit
<1>2. ClientInv /\ [Next]_vars => ClientInv'
  BY ClientStep
<1>3. ClientInv => FramesReachClients
  BY DEF ClientInv, Listed, Registered, Once, FramesReachClients, Watching
<1> QED
  BY <1>1, <1>2, <1>3, PTL DEF Spec
-----------------------------------------------------------------------------
ClientCounts ==
  /\ Cardinality(list) <= MaxClients
  /\ client \in Conns \cup {NoConn} /\ requests \in 0..MaxRequests
  /\ left \in BOOLEAN /\ deserted \in BOOLEAN

LEMMA ClientCountInit == Init => ClientCounts
<1>1. MaxClients \in Nat /\ MaxRequests \in Nat /\ Cardinality({}) = 0
  BY DevicesAssumption, FS_EmptySet
<1>2. Init => Cardinality(list) <= MaxClients /\ requests \in 0..MaxRequests
  BY <1>1 DEF Init
<1>3. Init => client \in Conns \cup {NoConn} /\ left \in BOOLEAN /\ deserted \in BOOLEAN
  BY DEF Init
<1> QED
  BY <1>2, <1>3 DEF ClientCounts

LEMMA ClientCountStep ==
  ASSUME ClientInv, ClientCounts, [Next]_vars
  PROVE  ClientCounts'
<1> USE DEF ClientCounts
<1>1. /\ MaxClients \in Nat /\ MaxRequests \in Nat /\ requests \in Nat
      /\ requests <= MaxRequests
  BY DevicesAssumption
<1>2. IsFiniteSet(list) /\ Cardinality(list) \in Nat
  BY DevicesAssumption, FS_Subset, FS_CardinalityType DEF ClientInv, ClientTypes
<1>3. list' \subseteq list => Cardinality(list') <= MaxClients
  <2> SUFFICES ASSUME list' \subseteq list PROVE Cardinality(list') <= MaxClients
    OBVIOUS
  <2>1. Cardinality(list') <= Cardinality(list) /\ IsFiniteSet(list')
    BY <1>2, FS_Subset
  <2>2. Cardinality(list') \in Nat
    BY <2>1, FS_CardinalityType
  <2> QED
    BY <1>1, <1>2, <2>1, <2>2
<1>4. CASE Add
  <2>1. CASE Cardinality(list) < MaxClients
    <3>1. Cardinality(list \cup {client}) <= Cardinality(list) + 1
      <4>1. Cardinality(list \cup {client}) \in {Cardinality(list), Cardinality(list) + 1}
        BY <1>2, FS_AddElement
      <4> QED
        BY <1>2, <4>1
    <3>2. list' = list \cup {client}
      BY <1>4, <2>1 DEF Add
    <3>3. IsFiniteSet(list') /\ Cardinality(list') \in Nat
      BY <1>2, <3>2, FS_AddElement, FS_CardinalityType
    <3>4. Cardinality(list') <= MaxClients
      BY <1>1, <1>2, <2>1, <3>1, <3>2, <3>3
    <3> QED
      BY <1>4, <3>4 DEF Add, history
  <2>2. CASE ~(Cardinality(list) < MaxClients)
    BY <1>4, <2>2 DEF Add, history
  <2> QED
    BY <2>1, <2>2
<1>5. CASE Request
  BY <1>1, <1>5 DEF Request, history
<1>6. ASSUME \/ Count \/ Register \/ Send \/ Manager
             \/ (\E c \in Conns : Hangup(c) \/ Close(c))
             \/ (\E n \in Nth : Capture(n) \/ AI(n)) \/ UNCHANGED vars
      PROVE  ClientCounts'
  <2>1. list' \subseteq list /\ UNCHANGED requests /\ client' \in {client, NoConn}
    BY <1>6 DEF Count, Register, Send, Manager, Start, StartClears, StartCapture, StartAI,
         StartAborts, Stop, StopJoins, StopClears, Hangup, Close, Capture, CaptureOpens, Frame,
         Call, CaptureEnds, AI, AIWaits, AIOpens, AIEnds, vars, gateway
  <2>2. left' \in BOOLEAN /\ deserted' \in BOOLEAN
    BY <1>6 DEF Count, Register, Send, Manager, Start, StartClears, StartCapture, StartAI,
         StartAborts, Stop, StopJoins, StopClears, Clear, Hangup, Close, Capture, CaptureOpens,
         Frame, Call, CaptureEnds, AI, AIWaits, AIOpens, AIEnds, vars, history
  <2> QED
    BY <1>3, <2>1, <2>2
<1> QED
  BY <1>4, <1>5, <1>6 DEF Next, Server
-----------------------------------------------------------------------------
(* Every variable of the three parts has its type; of note are the bounds: a
   command's output and time (tool_shell.c), the clients of the stream and its
   callbacks (ws_server.c, hal_camera.c), and the order of the throttles' times.*)
THEOREM TypesCorrect == DevicesSpec => []DevicesTypeOK
<1> DEFINE DeviceVars == <<device, voice, shell, vars>>
           Inv == /\ MicInv /\ MicClocked
                  /\ ShellInv /\ ShellCounts
                  /\ ThreadInv /\ ClientInv /\ ClientCounts
<1>1. ClientAssumptions /\ MaxStarts \in Nat
  BY DevicesAssumption DEF ClientAssumptions
<1>2. DevicesInit => Inv
  BY <1>1, MicInit, MicClockInit, ShellInit, ShellCountInit, ThreadInit, ClientInit,
     ClientCountInit DEF DevicesInit
<1>3. [DevicesNext]_DeviceVars =>
        [Voice!Next]_(Voice!vars) /\ [Shell!Next]_(Shell!vars) /\ [Next]_vars
  <2>1. UNCHANGED voice => UNCHANGED Voice!vars
    BY DEF voice, Voice!vars, Voice!flags, Voice!device, Voice!times, Voice!world
  <2>2. UNCHANGED shell => UNCHANGED Shell!vars
    BY DEF shell, Shell!vars, Shell!child
  <2> QED
    BY <2>1, <2>2 DEF DevicesNext
<1>4. Inv /\ [DevicesNext]_DeviceVars => Inv'
  <2> SUFFICES ASSUME Inv, [DevicesNext]_DeviceVars PROVE Inv'
    OBVIOUS
  <2>1. MicInv' /\ MicClocked'
    BY <1>3, MicStep, MicClockStep
  <2>2. ShellInv' /\ ShellCounts'
    BY <1>3, ShellStep, ShellCountStep
  <2>3. ThreadInv' /\ ClientInv' /\ ClientCounts'
    BY <1>1, <1>3, ThreadStep, ClientStep, ClientCountStep
  <2> QED
    BY <2>1, <2>2, <2>3
<1>5. Inv => DevicesTypeOK
  <2> SUFFICES ASSUME Inv PROVE DevicesTypeOK
    OBVIOUS
  <2>1. Voice!TypeOK
    BY DEF MicInv, MicFlagTypes, MicPlaceTypes, MicClocked, MicTimes, Voice!TypeOK
  <2>2. Shell!TypeOK
    BY DEF ShellInv, ProcessTypes, ShellCounts, Shell!TypeOK
  <2>3. TypeOK
    BY DEF ThreadInv, FlagTypes, PlaceTypes, ClientInv, ClientTypes, ClientCounts, TypeOK
  <2> QED
    BY <2>1, <2>2, <2>3 DEF DevicesTypeOK
<1> QED
  BY <1>2, <1>4, <1>5, PTL DEF DevicesSpec
=============================================================================

------------------------------ MODULE VoiceMic ------------------------------
(***************************************************************************)
(* The microphone between two threads, and the wake word's two throttles.  *)
(* sensors/sensor_voice.c listens in a thread of its own; the record_audio *)
(* tool (tools/tool_audio.c), in the agent thread, sets a volatile flag to *)
(* have it release the device and opens the device at once, without        *)
(* waiting.  The device (ALSA "default", hal/hal_audio.c) has one capturer *)
(* at a time: while it is busy, an open fails or waits.                    *)
(*                                                                         *)
(* A wake word passes the sensor's own limit of one in Interval, measured  *)
(* by the clock read before the push, then the limit of the sensor manager,*)
(* with a clock of its own and a slot taken before the push.               *)
(***************************************************************************)
EXTENDS Naturals

CONSTANTS
  Interval,    (* the 30 s of sensor_voice.c:164, and EVENT_MIN_INTERVAL    *)
  MaxTime,     (* bound on the clock                                        *)
  MaxStarts    (* bound on the starts of the sensor                         *)

VARIABLES
  thread,      (* where voice_thread is; "none" without                     *)
  stopping, paused,     (* the flags of voice_ctx_t                         *)
  running,     (* s_running of the sensor manager                           *)
  cap,         (* the thread's cap is not NULL                              *)
  mic,         (* who has the capture device open                           *)
  tool,        (* where tool_record_audio_execute is                        *)
  clock,       (* time(NULL), from 1                                        *)
  now,         (* voice_thread's local                                      *)
  lastWake,    (* its static last_wake                                      *)
  lastPush,    (* last_push of the slot "wake_word", 0 before there is one  *)
  shutdown,    (* kc_is_shutting_down()                                     *)
  starts,
  overtaken    (* history: the pause asked for was withdrawn by voice_start *)

flags == <<stopping, paused, running>>
device == <<cap, mic>>
times == <<now, lastWake, lastPush>>
world == <<clock, shutdown, starts>>
vars == <<thread, flags, device, tool, times, world, overtaken>>

Init ==
  /\ thread = "none" /\ stopping = FALSE /\ paused = FALSE /\ running = FALSE
  /\ cap = FALSE /\ mic = "free" /\ tool = "idle"
  /\ clock = 1 /\ now = 0 /\ lastWake = 0 /\ lastPush = 0
  /\ shutdown = FALSE /\ starts = 0 /\ overtaken = FALSE

Told == stopping \/ shutdown

Tick == /\ clock < MaxTime
        /\ clock' = clock + 1
        /\ UNCHANGED <<thread, flags, device, tool, times, shutdown, starts, overtaken>>
Shutdown == /\ ~shutdown
            /\ shutdown' = TRUE
            /\ UNCHANGED <<thread, flags, device, tool, times, clock, starts, overtaken>>
-----------------------------------------------------------------------------
(* voice_start, from a role switch: both flags are cleared, whatever a
   recording has asked for; then the thread is created, or not.             *)
Start ==
  /\ ~running /\ starts < MaxStarts
  /\ stopping' = FALSE /\ paused' = FALSE
  /\ overtaken' = (overtaken \/ tool # "idle")
  /\ running' \in BOOLEAN
  /\ thread' = IF running' THEN "opening" ELSE "none"
  /\ starts' = starts + 1
  /\ UNCHANGED <<device, tool, times, clock, shutdown>>

(* voice_stop: the flag, and the join. *)
Stop ==
  /\ running /\ ~stopping
  /\ stopping' = TRUE
  /\ UNCHANGED <<thread, paused, running, device, tool, times, world, overtaken>>
Joined ==
  /\ thread = "ended" /\ running /\ stopping
  /\ thread' = "none" /\ running' = FALSE
  /\ UNCHANGED <<stopping, paused, device, tool, times, world, overtaken>>
-----------------------------------------------------------------------------
(* voice_thread opens the device, at first and after a pause.  Refused, it
   ends for good, and the sensor manager still has it as running.           *)
Opening == thread \in {"opening", "reopening"}
Open ==
  /\ Opening /\ mic = "free"
  /\ mic' = "voice" /\ cap' = TRUE
  /\ thread' = IF thread = "opening" THEN "loop" ELSE "read"
  /\ UNCHANGED <<flags, tool, times, world, overtaken>>
Refused ==
  /\ Opening
  /\ thread' = IF thread = "opening" THEN "ended" ELSE "leave"
  /\ UNCHANGED <<flags, device, tool, times, world, overtaken>>

(* Closing releases the device; a NULL handle is left alone. *)
Close == mic' = (IF cap THEN "free" ELSE mic) /\ cap' = FALSE

LoopEnds ==
  /\ thread = "loop" /\ Told
  /\ thread' = "leave"
  /\ UNCHANGED <<flags, device, tool, times, world, overtaken>>
Pause ==
  /\ thread = "loop" /\ ~Told /\ paused
  /\ Close
  /\ thread' = "pause"
  /\ UNCHANGED <<flags, tool, times, world, overtaken>>
GoOn ==
  /\ thread = "loop" /\ ~Told /\ ~paused
  /\ thread' = "read"
  /\ UNCHANGED <<flags, device, tool, times, world, overtaken>>
PauseEnds ==
  /\ thread = "pause" /\ (~paused \/ Told)
  /\ thread' = IF Told THEN "leave" ELSE "reopening"
  /\ UNCHANGED <<flags, device, tool, times, world, overtaken>>
Leave ==
  /\ thread = "leave"
  /\ Close
  /\ thread' = "ended"
  /\ UNCHANGED <<flags, tool, times, world, overtaken>>

(* 300 ms of sound: a read error, too little of it, or no wake word; or one. *)
Read ==
  /\ thread = "read"
  /\ \/ thread' = "loop" /\ UNCHANGED now
     \/ thread' = "wake" /\ now' = clock
  /\ UNCHANGED <<flags, device, tool, lastWake, lastPush, world, overtaken>>
WakeAlwaysNoted ==                       (* mutant *)
  /\ thread = "wake"
  /\ lastWake' = now
  /\ thread' = IF now - lastWake >= Interval THEN "push" ELSE "loop"
  /\ UNCHANGED <<flags, device, tool, now, lastPush, world, overtaken>>
Wake ==
  /\ thread = "wake"
  /\ thread' = IF now - lastWake >= Interval THEN "push" ELSE "loop"
  /\ UNCHANGED <<flags, device, tool, times, world, overtaken>>

(* throttle_check and the push, which may fail: the slot is taken all the same. *)
Throttled == lastPush # 0 /\ clock - lastPush < Interval
Push ==
  /\ thread = "push"
  /\ lastPush' = IF Throttled THEN lastPush ELSE clock
  /\ thread' = "pushed"
  /\ UNCHANGED <<flags, device, tool, now, lastWake, world, overtaken>>
Pushed ==
  /\ thread = "pushed"
  /\ lastWake' = now
  /\ thread' = "loop"
  /\ UNCHANGED <<flags, device, tool, now, lastPush, world, overtaken>>
-----------------------------------------------------------------------------
(* tool_record_audio_execute: ask for the pause and open the device, at once
   or when it is released; or be refused, by a busy or a failing device.     *)
Ask ==
  /\ tool = "idle"
  /\ paused' = TRUE
  /\ tool' = "open" /\ overtaken' = FALSE
  /\ UNCHANGED <<thread, stopping, running, device, times, world>>
ToolOpen ==
  /\ tool = "open" /\ mic = "free"
  /\ mic' = "tool" /\ tool' = "record"
  /\ UNCHANGED <<thread, flags, cap, times, world, overtaken>>
ToolRefused ==
  /\ tool = "open"
  /\ tool' = "resume"
  /\ UNCHANGED <<thread, flags, device, times, world, overtaken>>
(* The recording ends, or fails for want of memory; the device is closed. *)
Recorded ==
  /\ tool = "record"
  /\ mic' = "free" /\ tool' = "resume"
  /\ UNCHANGED <<thread, flags, cap, times, world, overtaken>>

ResumeIfRecorded ==                      (* mutant *)
  /\ tool = "resume"
  /\ paused' \in {paused, FALSE}
  /\ tool' = "idle"
  /\ UNCHANGED <<thread, stopping, running, device, times, world, overtaken>>
(* voice_wake_resume, on every path out of the tool. *)
Resume ==
  /\ tool = "resume"
  /\ paused' = FALSE
  /\ tool' = "idle"
  /\ UNCHANGED <<thread, stopping, running, device, times, world, overtaken>>

Manager == Start \/ Stop \/ Joined
Listening == Open \/ Refused \/ LoopEnds \/ Pause \/ GoOn \/ PauseEnds \/ Leave
               \/ Read \/ Wake \/ Push \/ Pushed
Recording == ToolOpen \/ ToolRefused \/ Recorded \/ Resume
Next == Manager \/ Listening \/ Ask \/ Recording \/ Tick \/ Shutdown

(* Each thread runs.  No device is promised: an open that finds it free will
   be tried, a refusal need not come.                                        *)
Fairness ==
  /\ WF_vars(Joined) /\ WF_vars(Open)
  /\ WF_vars(LoopEnds \/ Pause \/ GoOn \/ PauseEnds \/ Leave \/ Read \/ Wake \/ Push \/ Pushed)
  /\ WF_vars(ToolOpen) /\ WF_vars(Recorded \/ Resume)
Spec == Init /\ [][Next]_vars /\ Fairness
-----------------------------------------------------------------------------
Places == {"none", "opening", "reopening", "loop", "pause", "leave", "ended", "read", "wake",
           "push", "pushed"}
TypeOK ==
  /\ thread \in Places
  /\ stopping \in BOOLEAN /\ paused \in BOOLEAN /\ running \in BOOLEAN
  /\ cap \in BOOLEAN /\ mic \in {"free", "voice", "tool"}
  /\ tool \in {"idle", "open", "record", "resume"}
  /\ clock \in 1..MaxTime /\ now \in 0..clock
  /\ lastWake \in 0..now /\ lastPush \in 0..clock
  /\ shutdown \in BOOLEAN /\ starts \in 0..MaxStarts /\ overtaken \in BOOLEAN

(* The two users of the microphone never share it and never leak it, whatever
   the order of pause, start, stop and recording: the voice thread has its
   handle exactly while it owns the device, reads only with it, keeps nothing
   once ended; the tool owns it only to record; and a pause outlives no
   recording, or the sensor would stay deaf.                                  *)
MicShared ==
  /\ cap <=> mic = "voice"
  /\ thread \in {"loop", "read", "wake", "push", "pushed"} => cap
  /\ thread \in {"none", "ended", "opening", "reopening", "pause"} => ~cap
  /\ mic = "tool" <=> tool = "record"
  /\ paused => tool # "idle"

(* The two throttles, by different clocks, and the slot taken for a push that
   fails, together silence a wake word for less than two intervals from the
   last slot taken: the user who says it again is heard.                      *)
Silenced(t) == t - lastPush < 2 * Interval - 1
Heard ==
  [][/\ thread = "wake" /\ thread' = "loop" => Silenced(now)
     /\ thread = "push" /\ thread' = "pushed" /\ lastPush' # clock => Silenced(clock)]_vars

(* A recording comes to an end, unless a start of the sensor has withdrawn its
   pause and the voice thread has the device for good; the voice thread comes
   back from a pause, unless the next recording is quicker; a stop of it ends
   unless it waits for the device.                                             *)
MicReturns ==
  /\ tool = "open" ~> (tool = "idle" \/ overtaken)
  /\ []<>(thread # "pause" \/ tool = "open")
  /\ stopping ~> thread \in {"none", "opening", "reopening"}
=============================================================================

----------------------------- MODULE MCDevices -----------------------------
(***************************************************************************)
(* Three parts of the program that share no state with one another, checked*)
(* in one run: the microphone (VoiceMic), the shell tool (ShellExec) and   *)
(* the camera stream (CameraStream).  A behaviour is one of the part       *)
(* `device`; the others stay in their initial states.  CameraStream is     *)
(* extended, the other two are instantiated.                               *)
(***************************************************************************)
EXTENDS CameraStream

CONSTANTS
  Interval, MaxTime, VoiceStarts,
  MaxOutput, PipeSize, Timeout, Grace, MaxCalls

ASSUME DevicesAssumption ==
  /\ {Interval, MaxTime, MaxOutput, PipeSize, Timeout, Grace} \subseteq Nat \ {0}
  /\ MaxClients \in Nat /\ MaxClients >= 2 /\ MaxCbs \in Nat \ {0}
  /\ {VoiceStarts, MaxCalls, MaxStarts, MaxRequests} \subseteq Nat
  /\ IsFiniteSet(Conns)
  /\ NoConn \notin Conns

VARIABLES
  device,
  thread, voiceStopping, paused, voiceRunning, cap, mic, tool, clock, now, lastWake, lastPush,
  shutdown, voiceStarts, overtaken,
  place, elapsed, total, life, writes, stubborn, pipe, ending, calls

Voice == INSTANCE VoiceMic WITH MaxStarts <- VoiceStarts,
  stopping <- voiceStopping, running <- voiceRunning, starts <- voiceStarts
Shell == INSTANCE ShellExec

voice == <<thread, voiceStopping, paused, voiceRunning, cap, mic, tool, clock, now, lastWake,
           lastPush, shutdown, voiceStarts, overtaken>>
shell == <<place, elapsed, total, life, writes, stubborn, pipe, ending, calls>>

DevicesInit ==
  /\ device \in {"microphone", "shell", "stream"}
  /\ Voice!Init /\ Shell!Init /\ Init

DevicesNext ==
  /\ UNCHANGED device
  /\ \/ device = "microphone" /\ Voice!Next /\ UNCHANGED <<shell, vars>>
     \/ device = "shell" /\ Shell!Next /\ UNCHANGED <<voice, vars>>
     \/ device = "stream" /\ Next /\ UNCHANGED <<voice, shell>>

DevicesSpec ==
  DevicesInit /\ [][DevicesNext]_<<device, voice, shell, vars>>
    /\ Voice!Fairness /\ Shell!Fairness /\ Fairness
-----------------------------------------------------------------------------
(* The type invariants of the three modules. *)
DevicesTypeOK == Voice!TypeOK /\ Shell!TypeOK /\ TypeOK

(* The properties of the same names, stated in VoiceMic and ShellExec. *)
MicShared == Voice!MicShared
Heard == Voice!Heard
Leftovers == Shell!Leftovers

(* None of the three waits for ever: not a recording or the voice thread for the
   microphone, nor the agent thread for a command, nor a role switch for the
   threads of the stream.                                                     *)
DevicesGoOn == Voice!MicReturns /\ Shell!CommandReturns /\ StreamSwitches
=============================================================================

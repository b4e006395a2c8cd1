---------------------------- MODULE CameraStream ----------------------------
(***************************************************************************)
(* hal/hal_camera_stream.cpp with the MJPEG clients of gateway/ws_server.c:*)
(* the threads of a stream, their start and stop by the sensor manager     *)
(* (sensors/sensor_stream.c), and the frame callback that the server's     *)
(* thread registers for the first of its clients and the capture thread    *)
(* calls.  The start takes no lock and clears the callbacks of others.     *)
(*                                                                         *)
(* A frame is not told from another; the camera fails to open or delivers. *)
(* One start comes after the other: role switches do not overlap here.     *)
(***************************************************************************)
EXTENDS Naturals, FiniteSets

CONSTANTS
  Conns,       (* connections of the HTTP server                            *)
  NoConn,
  MaxClients,  (* MAX_STREAM_CLIENTS                                        *)
  MaxCbs,      (* MAX_FRAME_CBS                                             *)
  MaxStarts,   (* bound on the starts of the stream                         *)
  MaxRequests  (* bound on the requests of /stream                          *)

VARIABLES
  running, stopping, ready,  (* of s_stream; ready is stream_ready          *)
  cbs,         (* s_stream.cb_count; every callback is stream_frame_cb      *)
  capture, ai, (* where the threads of each start are; "none" before        *)
  calling,     (* the callbacks the capture thread has yet to call          *)
  manager,     (* where the sensor manager's thread is in start or stop     *)
  started,     (* s_running of the sensor manager                           *)
  starts,
  list,        (* s_stream_conns                                            *)
  conn,        (* of each connection: "none", "open" or "closing"           *)
  server, client,  (* where the server's thread is, and with whom           *)
  requests,
  left,        (* history: a client left since the callbacks were cleared   *)
  deserted,    (* history: a start or stop cleared the callbacks on clients *)
  failed,      (* history: the starts whose capture thread gave up          *)
  hurried      (* history: an AI thread did not wait for the camera         *)

hal == <<running, stopping, ready>>
threads == <<capture, ai>>
sensor == <<manager, started, starts>>
gateway == <<list, conn, server, client, requests>>
history == <<left, deserted, failed, hurried>>
vars == <<hal, cbs, threads, calling, sensor, gateway, history>>

Nth == 1..MaxStarts

Init ==
  /\ running = FALSE /\ stopping = FALSE /\ ready = FALSE /\ cbs = 0
  /\ capture = [n \in Nth |-> "none"] /\ ai = [n \in Nth |-> "none"] /\ calling = 0
  /\ manager = "idle" /\ started = FALSE /\ starts = 0
  /\ list = {} /\ conn = [c \in Conns |-> "none"]
  /\ server = "idle" /\ client = NoConn /\ requests = 0
  /\ left = FALSE /\ deserted = FALSE /\ failed = {} /\ hurried = FALSE

Ended(thread) == thread \in {"none", "ended"}
(* Clearing the callbacks, while clients are there or on their way. *)
Clear ==
  /\ cbs' = 0 /\ left' = FALSE
  /\ deserted' = (list # {} \/ server # "idle")
-----------------------------------------------------------------------------
(* hal_camera_stream_start, from sensor_mgr_start_by_name.  A stream still
   running is left alone: in this order of calls there is none.              *)
Start ==
  /\ manager = "idle" /\ ~started /\ starts < MaxStarts
  /\ IF running
     THEN started' = TRUE /\ UNCHANGED <<hal, manager, starts>>
     ELSE /\ running' = TRUE /\ stopping' = FALSE /\ ready' = FALSE
          /\ starts' = starts + 1 /\ manager' = "clear"
          /\ UNCHANGED started
  /\ UNCHANGED <<cbs, threads, calling, gateway, history>>
StartClears ==
  /\ manager = "clear"
  /\ Clear
  /\ manager' = "create"
  /\ UNCHANGED <<hal, threads, calling, started, starts, gateway, failed, hurried>>
StartCapture ==
  /\ manager = "create"
  /\ \/ /\ capture' = [capture EXCEPT ![starts] = "setup"]
        /\ manager' = "createAI" /\ UNCHANGED running
     \/ running' = FALSE /\ manager' = "idle" /\ UNCHANGED capture
  /\ UNCHANGED <<stopping, ready, cbs, ai, calling, started, starts, gateway, history>>
StartAI ==
  /\ manager = "createAI"
  /\ \/ /\ ai' = [ai EXCEPT ![starts] = "wait"]
        /\ manager' = "idle" /\ started' = TRUE /\ UNCHANGED stopping
     \/ /\ stopping' = TRUE
        /\ manager' = "abort" /\ UNCHANGED <<ai, started>>
  /\ UNCHANGED <<running, ready, cbs, capture, calling, starts, gateway, history>>
StartAborts ==
  /\ manager = "abort" /\ capture[starts] = "ended"
  /\ running' = FALSE
  /\ manager' = "idle"
  /\ UNCHANGED <<stopping, ready, cbs, threads, calling, started, starts, gateway, history>>

(* hal_camera_stream_stop: nothing at all once running is clear. *)
StopJoinsCaptureOnly ==                  (* mutant *)
  /\ manager = "idle" /\ started
  /\ IF running
     THEN stopping' = TRUE /\ manager' = "joinCapture" /\ UNCHANGED started
     ELSE started' = FALSE /\ UNCHANGED <<stopping, manager>>
  /\ UNCHANGED <<running, ready, cbs, threads, calling, starts, gateway, history>>
Stop ==
  /\ manager = "idle" /\ started
  /\ IF running
     THEN stopping' = TRUE /\ manager' = "joinAI" /\ UNCHANGED started
     ELSE started' = FALSE /\ UNCHANGED <<stopping, manager>>
  /\ UNCHANGED <<running, ready, cbs, threads, calling, starts, gateway, history>>
StopJoins ==
  /\ \/ manager = "joinAI" /\ ai[starts] = "ended" /\ manager' = "joinCapture"
     \/ manager = "joinCapture" /\ capture[starts] = "ended" /\ manager' = "stopped"
  /\ UNCHANGED <<hal, cbs, threads, calling, started, starts, gateway, history>>
(* The clearing under cb_mutex, when the capture thread calls nobody. *)
StopClears ==
  /\ manager = "stopped" /\ calling = 0
  /\ Clear
  /\ manager' = "idle" /\ started' = FALSE
  /\ UNCHANGED <<hal, threads, calling, starts, gateway, failed, hurried>>
-----------------------------------------------------------------------------
CaptureGoes(n, place) == capture' = [capture EXCEPT ![n] = place]

(* stream_thread_func: it opens the camera, or clears running and gives up. *)
CaptureOpens(n) ==
  /\ capture[n] = "setup"
  /\ \/ CaptureGoes(n, "loop") /\ ready' = TRUE /\ UNCHANGED <<running, failed>>
     \/ /\ CaptureGoes(n, "ended") /\ running' = FALSE /\ failed' = failed \cup {n}
        /\ UNCHANGED ready
  /\ UNCHANGED <<stopping, cbs, ai, calling, sensor, gateway, left, deserted, hurried>>
(* The next frame; unless it cannot be encoded, invoke_callbacks takes cb_mutex:
   the callbacks are those of that moment.                                   *)
Frame(n) ==
  /\ capture[n] = "loop" /\ calling = 0 /\ ~stopping
  /\ CaptureGoes(n, "frame")
  /\ UNCHANGED <<hal, cbs, ai, calling, sensor, gateway, history>>
Call(n) ==
  /\ capture[n] = "frame"
  /\ CaptureGoes(n, "loop")
  /\ calling' \in {0, cbs}
  /\ UNCHANGED <<hal, cbs, ai, sensor, gateway, history>>
CaptureEnds(n) ==
  /\ capture[n] = "loop" /\ stopping /\ calling = 0
  /\ CaptureGoes(n, "ended") /\ running' = FALSE
  /\ UNCHANGED <<stopping, ready, cbs, ai, calling, sensor, gateway, history>>

(* stream_frame_cb, under s_stream_mutex: it drops who is closing and sends
   to the others.                                                            *)
Send ==
  /\ calling > 0
  /\ calling' = calling - 1
  /\ list' = {c \in list : conn[c] = "open"}
  /\ left' = (left \/ list' # list)
  /\ UNCHANGED <<hal, cbs, threads, sensor, conn, server, client, requests, deserted, failed,
                 hurried>>

(* ai_thread_func waits until the camera is ready, or until the stop, or for
   5 s; then it opens its own stream of it, or fails.                        *)
AIGoes(n, place) == ai' = [ai EXCEPT ![n] = place]
AIWaits(n) ==
  /\ ai[n] = "wait"
  /\ AIGoes(n, IF stopping THEN "ended" ELSE "setup")
  /\ hurried' = (hurried \/ ~(ready \/ stopping))
  /\ UNCHANGED <<hal, cbs, capture, calling, sensor, gateway, left, deserted, failed>>
AIOpens(n) ==
  /\ ai[n] = "setup"
  /\ \E place \in {"loop", "ended"} : AIGoes(n, place)
  /\ UNCHANGED <<hal, cbs, capture, calling, sensor, gateway, history>>
AIEnds(n) ==
  /\ ai[n] = "loop" /\ stopping
  /\ AIGoes(n, "ended")
  /\ UNCHANGED <<hal, cbs, capture, calling, sensor, gateway, history>>
-----------------------------------------------------------------------------
(* handle_stream_request: refused unless running; a client beyond MaxClients
   gets the header and is not listed.                                        *)
Request ==
  /\ server = "idle" /\ requests < MaxRequests /\ running
  /\ \E c \in Conns :
       /\ conn[c] = "none"
       /\ conn' = [conn EXCEPT ![c] = "open"]
       /\ client' = c
  /\ server' = "add" /\ requests' = requests + 1
  /\ UNCHANGED <<hal, cbs, threads, calling, sensor, list, history>>
Add ==
  /\ server = "add"
  /\ list' = IF Cardinality(list) < MaxClients THEN list \cup {client} ELSE list
  /\ server' = "count"
  /\ UNCHANGED <<hal, cbs, threads, calling, sensor, conn, client, requests, history>>
(* The count is read without the mutex. *)
Alone == Cardinality(list) = 1
Count ==
  /\ server = "count"
  /\ server' = IF Alone THEN "register" ELSE "idle"
  /\ client' = NoConn
  /\ UNCHANGED <<hal, cbs, threads, calling, sensor, list, conn, requests, history>>
(* hal_camera_stream_on_frame, when cb_mutex is free. *)
Register ==
  /\ server = "register" /\ calling = 0
  /\ cbs' = IF cbs < MaxCbs THEN cbs + 1 ELSE cbs
  /\ server' = "idle"
  /\ UNCHANGED <<hal, threads, calling, sensor, list, conn, client, requests, history>>

(* A client hangs up; the server closes its connection: MG_EV_CLOSE takes it
   off the list, and mongoose frees it.                                      *)
Hangup(c) ==
  /\ server = "idle" /\ conn[c] = "open"
  /\ conn' = [conn EXCEPT ![c] = "closing"]
  /\ UNCHANGED <<hal, cbs, threads, calling, sensor, list, server, client, requests, history>>
CloseKeepsListed(c) ==                   (* mutant *)
  /\ server = "idle" /\ conn[c] = "closing"
  /\ conn' = [conn EXCEPT ![c] = "none"]
  /\ UNCHANGED <<hal, cbs, threads, calling, sensor, list, server, client, requests, history>>
Close(c) ==
  /\ server = "idle" /\ conn[c] = "closing"
  /\ list' = list \ {c} /\ left' = (left \/ c \in list)
  /\ conn' = [conn EXCEPT ![c] = "none"]
  /\ UNCHANGED <<hal, cbs, threads, calling, sensor, server, client, requests, deserted, failed,
                 hurried>>

Manager == Start \/ StartClears \/ StartCapture \/ StartAI \/ StartAborts
             \/ Stop \/ StopJoins \/ StopClears
Capture(n) == CaptureOpens(n) \/ Frame(n) \/ Call(n) \/ CaptureEnds(n)
AI(n) == AIWaits(n) \/ AIOpens(n) \/ AIEnds(n)
Server == Request \/ Add \/ Count \/ Register \/ \E c \in Conns : Hangup(c) \/ Close(c)
Next == Manager \/ (\E n \in Nth : Capture(n) \/ AI(n)) \/ Send \/ Server

(* Every thread runs; nobody need ask for a start, a stop or a stream. *)
Fairness ==
  /\ WF_vars(StartClears \/ StartCapture \/ StartAI \/ StartAborts \/ StopJoins \/ StopClears)
  /\ WF_vars(Send) /\ WF_vars(Add \/ Count \/ Register)
  /\ \A n \in Nth : WF_vars(Capture(n)) /\ WF_vars(AI(n))
Spec == Init /\ [][Next]_vars /\ Fairness
-----------------------------------------------------------------------------
TypeOK ==
  /\ running \in BOOLEAN /\ stopping \in BOOLEAN /\ ready \in BOOLEAN /\ started \in BOOLEAN
  /\ left \in BOOLEAN /\ deserted \in BOOLEAN /\ hurried \in BOOLEAN
  /\ cbs \in 0..MaxCbs /\ calling \in 0..MaxCbs
  /\ capture \in [Nth -> {"none", "setup", "loop", "frame", "ended"}]
  /\ ai \in [Nth -> {"none", "wait", "setup", "loop", "ended"}]
  /\ manager \in {"idle", "clear", "create", "createAI", "abort", "joinAI", "joinCapture",
                  "stopped"}
  /\ starts \in 0..MaxStarts /\ requests \in 0..MaxRequests
  /\ list \subseteq Conns /\ Cardinality(list) <= MaxClients
  /\ conn \in [Conns -> {"none", "open", "closing"}]
  /\ server \in {"idle", "add", "count", "register"} /\ client \in Conns \cup {NoConn}
  /\ failed \subseteq Nth

(* No thread of a stream survives its stop, and none is there twice: except
   that a stream whose camera did not open leaves its AI thread to itself,
   because the stop sees running clear and joins nobody.  Nor do two threads
   set up the camera at once (which the ISP does not allow), unless one has
   waited its 5 s or is such a stray.                                         *)
StreamThreads ==
  /\ LET over(n) == n < starts \/ (manager = "idle" /\ ~started)
     IN \A n \in Nth : over(n) => Ended(capture[n]) /\ (n \notin failed => Ended(ai[n]))
  /\ failed = {} /\ ~hurried => \A n, m \in Nth : ~(capture[n] = "setup" /\ ai[m] = "setup")

(* The capture thread never sends to a connection that mongoose has freed,
   though it learns of the end of one from the list alone; and who is listed
   while the stream is on gets every frame, once as long as no other client
   has left: unless a start or a stop has cleared the callbacks with clients
   there, who then get nothing more.                                          *)
Streaming == \E n \in Nth : capture[n] \in {"loop", "frame"} /\ ~stopping
Watching == list # {} /\ server = "idle"
FramesReachClients ==
  /\ \A c \in list : conn[c] # "none"
  /\ Streaming /\ Watching /\ ~deserted => cbs > 0
  /\ ~left => cbs <= 1

(* A start and a stop of the stream end: no join waits for ever.              *)
StreamSwitches == []<>(manager = "idle")
=============================================================================

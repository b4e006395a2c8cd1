----------------------------- MODULE FaceSensor -----------------------------
(***************************************************************************)
(* sensors/sensor_face.c: who is present in front of the camera, frame by  *)
(* frame, and the registration of the owner's face, a handshake of three   *)
(* volatile flags between the agent thread (the register_face tool) and    *)
(* the sensor's thread; with the starts and stops of the sensor manager.   *)
(*                                                                         *)
(* A frame is the person of its largest face, or Nobody.  Recognition tells*)
(* people apart, or fails (RecognitionMayFail).  A frame the camera or the *)
(* detector loses changes nothing and is left out.                         *)
(***************************************************************************)
EXTENDS Naturals

CONSTANTS
  People, Nobody,
  AbsentFrames,        (* FACE_ABSENT_FRAMES                                *)
  RecogInterval,       (* FACE_RECOG_INTERVAL                               *)
  RecognitionMayFail,  (* whether run_recognition may return NULL           *)
  MaxStarts,           (* bound on the starts of the sensor                 *)
  MaxRequests          (* bound on the calls of register_face               *)

ASSUME FaceAssumption ==
  /\ Nobody \notin People
  /\ AbsentFrames \in Nat /\ RecogInterval \in Nat \ {0}
  /\ RecognitionMayFail \in BOOLEAN
  /\ MaxStarts \in Nat /\ MaxRequests \in Nat

VARIABLES
  thread,       (* where the sensor's thread is; "off" or "loading" without *)
  stopping,     (* ctx->stopping                                            *)
  model,        (* ctx->recog_model is not NULL                             *)
  owner, disk,  (* whose embedding is in memory, and in the file            *)
  req, done, ok,                     (* register_req, _done, _ok            *)
  frame,        (* the largest face of the frame in work                    *)
  present, absent, isOwner, verify,  (* the locals of face_thread           *)
  tool, result, (* where face_sensor_register is, and its last answer       *)
  starts, requests,
  steady,       (* history: frames on end with the owner in front           *)
  away,         (* history: frames on end with somebody else or nobody      *)
  stayed,       (* history: frames since person_detected                    *)
  stored,       (* history: a face was stored since the request began       *)
  raced         (* history: an answer was given up while it was on its way  *)

flags == <<req, done, ok>>
locals == <<present, absent, isOwner, verify>>
seen == <<steady, away, stayed>>
caller == <<tool, result, requests>>
manager == <<stopping, model, starts>>
vars == <<thread, manager, owner, disk, flags, frame, locals, caller, seen, stored, raced>>

Init ==
  /\ thread = "off" /\ stopping = FALSE /\ model = FALSE
  /\ owner = Nobody /\ disk \in People \cup {Nobody}
  /\ req = FALSE /\ done = FALSE /\ ok = FALSE
  /\ frame = Nobody
  /\ present = FALSE /\ absent = 0 /\ isOwner = FALSE /\ verify = 0
  /\ steady = 0 /\ away = 0 /\ stayed = 0
  /\ tool = "idle" /\ result = "none" /\ starts = 0 /\ requests = 0
  /\ stored = FALSE /\ raced = FALSE

AtMost(n, bound) == IF n < bound THEN n ELSE bound
-----------------------------------------------------------------------------
(* face_start loads the models; without the one for recognition the sensor
   only detects.  If a later part fails the pointer stays as it is by then.  *)
Load ==
  /\ thread = "off" /\ starts < MaxStarts
  /\ model' \in BOOLEAN
  /\ thread' \in {"loading", "off"}
  /\ starts' = starts + 1
  /\ UNCHANGED <<stopping, owner, disk, flags, frame, locals, caller, seen, stored, raced>>

(* ... then the owner from the file, clears the flags and starts the thread. *)
Start ==
  /\ thread = "loading"
  /\ owner' = disk
  /\ req' = FALSE /\ done' = FALSE /\ ok' = FALSE
  /\ stopping' = FALSE
  /\ thread' = "opening"
  /\ raced' = (raced \/ (tool \in {"wait", "giveup"} /\ done))
  /\ UNCHANGED <<model, starts, disk, frame, locals, caller, seen, stored>>

(* face_stop: the flag, and once the thread is joined everything is freed.  *)
Stop ==
  /\ thread \notin {"off", "loading"} /\ ~stopping
  /\ stopping' = TRUE
  /\ UNCHANGED <<thread, model, starts, owner, disk, flags, frame, locals, caller, seen, stored,
                 raced>>

Joined ==
  /\ thread = "ended" /\ stopping
  /\ thread' = "off" /\ model' = FALSE /\ owner' = Nobody
  /\ UNCHANGED <<stopping, starts, disk, flags, frame, locals, caller, seen, stored, raced>>
-----------------------------------------------------------------------------
(* face_thread opens the camera, or ends at once. *)
OpenCamera ==
  /\ thread = "opening"
  /\ thread' \in {"frame", "ended"}
  /\ present' = FALSE /\ absent' = 0 /\ isOwner' = FALSE /\ verify' = 0
  /\ steady' = 0 /\ away' = 0 /\ stayed' = 0
  /\ UNCHANGED <<manager, owner, disk, flags, frame, caller, stored, raced>>

LoopEnds ==
  /\ thread = "frame" /\ stopping
  /\ thread' = "ended"
  /\ UNCHANGED <<manager, owner, disk, flags, frame, locals, caller, seen, stored, raced>>

Capture ==
  /\ thread = "frame" /\ ~stopping
  /\ \E p \in People \cup {Nobody} :
       /\ frame' = p
       /\ thread' = IF req /\ p # Nobody THEN "register" ELSE "decide"
  /\ UNCHANGED <<manager, owner, disk, flags, locals, caller, seen, stored, raced>>

(* The registration: whoever is in front becomes the owner, and is saved; the
   file may not open, or take nothing of what is written, which goes unnoticed. *)
Store ==
  /\ thread = "register" /\ model
  /\ owner' = frame /\ disk' \in {frame, disk, Nobody} /\ stored' = TRUE
  /\ thread' = "stored"
  /\ UNCHANGED <<manager, flags, frame, locals, caller, seen, raced>>
StoreOk ==
  /\ thread = "stored"
  /\ ok' = TRUE /\ isOwner' = TRUE
  /\ thread' = "answer"
  /\ UNCHANGED <<manager, owner, disk, req, done, frame, present, absent, verify, caller, seen,
                 stored, raced>>
StoreFails ==
  /\ thread = "register" /\ (~model \/ RecognitionMayFail)
  /\ ok' = FALSE
  /\ thread' = "answer"
  /\ UNCHANGED <<manager, owner, disk, req, done, frame, locals, caller, seen, stored, raced>>

Lower ==
  /\ thread = "answer"
  /\ req' = FALSE
  /\ thread' = "lowered"
  /\ UNCHANGED <<manager, owner, disk, done, ok, frame, locals, caller, seen, stored, raced>>
Answer ==
  /\ thread = "lowered"
  /\ done' = TRUE
  /\ thread' = "decide"
  /\ UNCHANGED <<manager, owner, disk, req, ok, frame, locals, caller, seen, stored, raced>>
-----------------------------------------------------------------------------
(* The verification: at each frame while nobody is present, then only every
   RecogInterval frames.                                                     *)
MayVerify == frame # Nobody /\ owner # Nobody /\ model
VerifyDue == present /\ verify + 1 >= RecogInterval

NeedPeriodic == MayVerify /\ verify + 1 >= RecogInterval        (* mutant *)
Need == MayVerify /\ (~present \/ VerifyDue)

NextVerifyUnreset ==                                            (* mutant *)
  IF MayVerify /\ present THEN verify + 1 ELSE verify
NextVerify ==
  IF frame = Nobody \/ (MayVerify /\ VerifyDue) THEN 0
  ELSE IF MayVerify /\ present THEN verify + 1 ELSE verify

AnyFaceMatches == frame # Nobody                                (* mutant *)
FaceMatches == frame = owner

Recognised(failed) ==
  IF Need THEN FaceMatches /\ ~failed ELSE isOwner /\ frame # Nobody

KeptOnArrival == absent                                         (* mutant *)
AbsentOnArrival == 0

(* The presence after a frame in which the owner is (here) or is not seen. *)
Presence(here) ==
  \/ /\ here /\ ~present
     /\ present' = TRUE /\ absent' = AbsentOnArrival /\ isOwner' = here
  \/ /\ ~here /\ present
     /\ absent' = absent + 1
     /\ present' = IF absent + 1 > AbsentFrames THEN FALSE ELSE present
     /\ isOwner' = here
  \/ /\ here /\ present
     /\ absent' = 0 /\ isOwner' = here /\ UNCHANGED present
  \/ /\ ~here /\ ~present
     /\ isOwner' = here /\ UNCHANGED <<present, absent>>

Observe(failed) ==
  /\ steady' = IF frame = owner /\ owner # Nobody /\ ~failed
               THEN AtMost(steady + 1, AbsentFrames + 1) ELSE 0
  /\ away' = IF frame = owner /\ owner # Nobody THEN 0
             ELSE AtMost(away + 1, RecogInterval + AbsentFrames)
  /\ stayed' = IF present THEN AtMost(stayed + 1, AbsentFrames + 1) ELSE 0

Decide ==
  /\ thread = "decide"
  /\ \E failed \in BOOLEAN :
       /\ failed => Need /\ RecognitionMayFail
       /\ Presence(Recognised(failed))
       /\ Observe(failed)
  /\ verify' = NextVerify
  /\ thread' = "frame"
  /\ UNCHANGED <<manager, owner, disk, flags, frame, caller, stored, raced>>
-----------------------------------------------------------------------------
(* face_sensor_register in the agent thread: refuses without the model, else
   clears the answer, raises the request and polls for the answer.           *)
Refuse ==
  /\ tool = "idle" /\ requests < MaxRequests /\ ~model
  /\ result' = "failed" /\ requests' = requests + 1 /\ stored' = FALSE
  /\ UNCHANGED <<thread, manager, owner, disk, flags, frame, locals, tool, seen, raced>>

AskUncleared ==                                                 (* mutant *)
  /\ tool = "idle" /\ requests < MaxRequests /\ model
  /\ tool' = "clear" /\ result' = "none" /\ requests' = requests + 1 /\ stored' = FALSE
  /\ UNCHANGED <<thread, manager, owner, disk, flags, frame, locals, seen, raced>>
Ask ==
  /\ tool = "idle" /\ requests < MaxRequests /\ model
  /\ done' = FALSE
  /\ tool' = "clear" /\ result' = "none" /\ requests' = requests + 1 /\ stored' = FALSE
  /\ UNCHANGED <<thread, manager, owner, disk, req, ok, frame, locals, seen, raced>>
ClearOk ==
  /\ tool = "clear"
  /\ ok' = FALSE
  /\ tool' = "raise"
  /\ UNCHANGED <<thread, manager, owner, disk, req, done, frame, locals, result, requests, seen,
                 stored, raced>>
Raise ==
  /\ tool = "raise"
  /\ req' = TRUE
  /\ tool' = "wait"
  /\ UNCHANGED <<thread, manager, owner, disk, done, ok, frame, locals, result, requests, seen,
                 stored, raced>>

TakeAnswer ==
  /\ tool = "wait" /\ done
  /\ result' = IF ok THEN "registered" ELSE "failed"
  /\ tool' = "idle"
  /\ UNCHANGED <<thread, manager, owner, disk, flags, frame, locals, requests, seen, stored, raced>>

(* Ten seconds without an answer: it looks once more, and takes the request back. *)
GiveUp ==
  /\ tool = "wait" /\ ~done
  /\ tool' = "giveup"
  /\ UNCHANGED <<thread, manager, owner, disk, flags, frame, locals, result, requests, seen, stored,
                 raced>>
TimeOut ==
  /\ tool = "giveup"
  /\ req' = FALSE
  /\ result' = "timed out" /\ tool' = "idle"
  /\ raced' = (raced \/ done \/ thread \in {"register", "stored", "answer", "lowered"})
  /\ UNCHANGED <<thread, manager, owner, disk, done, ok, frame, locals, requests, seen, stored>>

Sensor ==
  \/ OpenCamera \/ LoopEnds \/ Capture \/ Store \/ StoreOk \/ StoreFails \/ Lower \/ Answer
  \/ Decide
Tool == Refuse \/ Ask \/ ClearOk \/ Raise \/ TakeAnswer \/ GiveUp \/ TimeOut
Manager == Load \/ Start \/ Stop \/ Joined

Next == Sensor \/ Tool \/ Manager
Spec == Init /\ [][Next]_vars
-----------------------------------------------------------------------------
Threads == {"off", "loading", "opening", "frame", "register", "stored", "answer", "lowered",
            "decide", "ended"}
FlagTypes ==
  /\ stopping \in BOOLEAN /\ model \in BOOLEAN
  /\ req \in BOOLEAN /\ done \in BOOLEAN /\ ok \in BOOLEAN
  /\ present \in BOOLEAN /\ isOwner \in BOOLEAN
  /\ stored \in BOOLEAN /\ raced \in BOOLEAN
PlaceTypes ==
  /\ thread \in Threads
  /\ owner \in People \cup {Nobody} /\ disk \in People \cup {Nobody}
  /\ frame \in People \cup {Nobody}
  /\ tool \in {"idle", "clear", "raise", "wait", "giveup"}
  /\ result \in {"none", "registered", "failed", "timed out"}
CountTypes ==
  /\ absent \in 0..(AbsentFrames + 1) /\ verify \in 0..(RecogInterval - 1)
  /\ starts \in 0..MaxStarts /\ requests \in 0..MaxRequests
  /\ steady \in 0..(AbsentFrames + 1) /\ away \in 0..(RecogInterval + AbsentFrames)
  /\ stayed \in 0..(AbsentFrames + 1)
TypeOK == FlagTypes /\ PlaceTypes /\ CountTypes

(* An owner in front of the camera and recognised is present after
   AbsentFrames + 1 frames at the latest, whatever went before and whoever is
   registered meanwhile.                                                     *)
SteadyIsPresent ==
  (thread = "frame" /\ model /\ steady > AbsentFrames) => present

(* An owner who is gone, or whose place somebody else has taken, is no longer
   present after RecogInterval + AbsentFrames frames.                        *)
AwayIsNoticed ==
  (thread = "frame" /\ away >= RecogInterval + AbsentFrames) => ~present

(* So user_present follows the owner, in both directions, with a bounded delay. *)
PresenceFollows == SteadyIsPresent /\ AwayIsNoticed

(* Strangers are ignored: person_detected only at a frame whose largest face
   is the owner's.                                                           *)
OwnerArrives == [][present' /\ ~present => frame = owner /\ owner # Nobody]_vars

(* After person_detected there are more than AbsentFrames frames before
   person_left, however often one follows the other.                         *)
NoFlapping == [][thread = "decide" /\ present /\ ~present' => stayed' > AbsentFrames]_vars

(* Unless an answer was on its way when the tool gave up, or the sensor was
   restarted over it, the answer is right: the owner's face was replaced during
   the request if and only if the tool says so, and no request stays raised for
   whoever comes next.                                                       *)
RegisterAnswers ==
  ~raced /\ tool = "idle" => (stored <=> result = "registered") /\ ~req

(* "person_left: the owner left (3 seconds of debounce)" (sensor_face.h:15):
   only after so many frames on end without the owner.                       *)
Debounced == [][thread = "decide" /\ present /\ ~present' => away' > AbsentFrames]_vars
=============================================================================

-------------------------- MODULE FaceSensorProofs --------------------------
(***************************************************************************)
(* The presence states of FaceSensor for all values of AbsentFrames and    *)
(* RecogInterval and any set of people, under any registrations and        *)
(* restarts.                                                               *)
(***************************************************************************)
EXTENDS FaceSensor, TLAPS

InFrame == thread \in {"frame", "register", "stored", "answer", "lowered", "decide"}

(* Whoever is taken for the owner, or present, has been registered; and the
   face that is registered is the one in the frame.                          *)
OwnerKnown ==
  /\ InFrame /\ (present \/ isOwner) => model /\ owner # Nobody
  /\ thread = "register" => frame # Nobody
  /\ thread = "stored" => model /\ owner # Nobody /\ frame = owner

(* While the owner is present but in doubt, each frame counts as absent: more
   of them than frames with the owner back, and no more than since arrival.  *)
DoubtCounted ==
  InFrame =>
    /\ present => absent <= AbsentFrames /\ absent <= stayed
    /\ present /\ ~isOwner => steady < absent
    /\ model /\ ~present => steady <= AbsentFrames

(* Frames of somebody else are counted up to the next verification, and as
   absent from then on; a registration makes the face in the frame the owner. *)
StrangerCounted ==
  InFrame =>
    /\ present /\ isOwner => \/ away <= verify
                             \/ thread \in {"answer", "lowered", "decide"} /\ frame = owner
    /\ present /\ ~isOwner => away < RecogInterval + absent

IInv == TypeOK /\ OwnerKnown /\ DoubtCounted /\ StrangerCounted
-----------------------------------------------------------------------------
(* A step that leaves the frame in work, and all that is known of it, alone. *)
StillFace == UNCHANGED <<thread, model, owner, frame, locals, seen>>

LEMMA InitHolds == Init => IInv
  <1> SUFFICES ASSUME Init PROVE IInv
    OBVIOUS
  <1>1. FlagTypes
    BY Zenon DEF Init, FlagTypes
  <1>2. PlaceTypes
    BY DEF Init, PlaceTypes, Threads
  <1>3. CountTypes
    BY FaceAssumption DEF Init, CountTypes
  <1>4. ~InFrame /\ thread = "off"
    BY DEF Init, InFrame
  <1> QED
    BY <1>1, <1>2, <1>3, <1>4 DEF IInv, TypeOK, OwnerKnown, DoubtCounted, StrangerCounted

(* The types under every step but Decide. *)
LEMMA FlagStep == ASSUME FlagTypes, Next, ~Decide PROVE FlagTypes'
  <1>1. CASE Refuse
    BY <1>1, Zenon DEF Refuse, FlagTypes, manager, flags, locals
  <1>2. CASE Ask
    BY <1>2, Zenon DEF Ask, FlagTypes, manager, locals
  <1>3. CASE ClearOk
    BY <1>3, Zenon DEF ClearOk, FlagTypes, manager, locals
  <1>4. CASE Raise
    BY <1>4, Zenon DEF Raise, FlagTypes, manager, locals
  <1>5. CASE TakeAnswer
    BY <1>5, Zenon DEF TakeAnswer, FlagTypes, manager, flags, locals
  <1>6. CASE TimeOut
    BY <1>6, Zenon DEF TimeOut, FlagTypes, manager, locals
  <1>19. CASE GiveUp
    BY <1>19, Zenon DEF GiveUp, FlagTypes, manager, flags, locals
  <1>7. CASE Load
    BY <1>7, Zenon DEF Load, FlagTypes, flags, locals
  <1>8. CASE Start
    BY <1>8, Zenon DEF Start, FlagTypes, locals
  <1>9. CASE Stop
    BY <1>9, Zenon DEF Stop, FlagTypes, flags, locals
  <1>10. CASE Joined
    BY <1>10, Zenon DEF Joined, FlagTypes, flags, locals
  <1>11. CASE OpenCamera
    BY <1>11, Zenon DEF OpenCamera, FlagTypes, manager, flags
  <1>12. CASE LoopEnds
    BY <1>12, Zenon DEF LoopEnds, FlagTypes, manager, flags, locals
  <1>13. CASE Capture
    BY <1>13, Zenon DEF Capture, FlagTypes, manager, flags, locals
  <1>14. CASE Store
    BY <1>14, Zenon DEF Store, FlagTypes, manager, flags, locals
  <1>15. CASE StoreOk
    BY <1>15, Zenon DEF StoreOk, FlagTypes, manager
  <1>16. CASE StoreFails
    BY <1>16, Zenon DEF StoreFails, FlagTypes, manager, locals
  <1>17. CASE Lower
    BY <1>17, Zenon DEF Lower, FlagTypes, manager, locals
  <1>18. CASE Answer
    BY <1>18, Zenon DEF Answer, FlagTypes, manager, locals
  <1> QED
    BY <1>1, <1>2, <1>3, <1>4, <1>5, <1>6, <1>7, <1>8, <1>9,
       <1>10, <1>11, <1>12, <1>13, <1>14, <1>15, <1>16, <1>17, <1>18, <1>19
       DEF Next, Sensor, Tool, Manager

LEMMA PlaceStep == ASSUME PlaceTypes, Next, ~Decide PROVE PlaceTypes'
  <1> USE DEF PlaceTypes, Threads, caller
  <1>1. CASE Tool
    BY <1>1 DEF Tool, Refuse, Ask, ClearOk, Raise, TakeAnswer, GiveUp, TimeOut
  <1>2. CASE Manager
    BY <1>2 DEF Manager, Load, Start, Stop, Joined
  <1>3. CASE OpenCamera \/ LoopEnds \/ Capture
    BY <1>3 DEF OpenCamera, LoopEnds, Capture
  <1>4. CASE Store \/ StoreOk \/ StoreFails \/ Lower \/ Answer
    BY <1>4 DEF Store, StoreOk, StoreFails, Lower, Answer
  <1> QED
    BY <1>1, <1>2, <1>3, <1>4 DEF Next, Sensor

LEMMA CountStep == ASSUME CountTypes, Next, ~Decide PROVE CountTypes'
  <1> USE FaceAssumption DEF CountTypes, manager, locals, seen, caller
  <1>1. CASE Refuse
    BY <1>1 DEF Refuse
  <1>2. CASE Ask
    BY <1>2 DEF Ask
  <1>3. CASE ClearOk
    BY <1>3 DEF ClearOk
  <1>4. CASE Raise
    BY <1>4 DEF Raise
  <1>5. CASE TakeAnswer
    BY <1>5 DEF TakeAnswer
  <1>6. CASE TimeOut \/ GiveUp
    BY <1>6 DEF TimeOut, GiveUp
  <1>7. CASE Manager
    BY <1>7 DEF Manager, Load, Start, Stop, Joined
  <1>8. CASE OpenCamera \/ LoopEnds \/ Capture
    BY <1>8 DEF OpenCamera, LoopEnds, Capture
  <1>9. CASE Store \/ StoreOk \/ StoreFails \/ Lower \/ Answer
    BY <1>9 DEF Store, StoreOk, StoreFails, Lower, Answer
  <1> QED
    BY <1>1, <1>2, <1>3, <1>4, <1>5, <1>6, <1>7, <1>8, <1>9 DEF Next, Sensor, Tool

LEMMA TypeStep == ASSUME TypeOK, Next, ~Decide PROVE TypeOK'
  BY FlagStep, PlaceStep, CountStep DEF TypeOK

(* The tool's steps, and Stop, leave alone what the frame is about. *)
LEMMA StillStep ==
  ASSUME OwnerKnown, DoubtCounted, StrangerCounted, StillFace
  PROVE  (OwnerKnown /\ DoubtCounted /\ StrangerCounted)'
  BY DEF StillFace, locals, seen, OwnerKnown, DoubtCounted, StrangerCounted, InFrame

(* Outside a frame there is nothing to keep; a frame starts out with nobody. *)
LEMMA ManagerStep ==
  ASSUME OwnerKnown, DoubtCounted, StrangerCounted, Manager
  PROVE  (OwnerKnown /\ DoubtCounted /\ StrangerCounted)'
  <1>1. CASE Stop
    BY <1>1, StillStep DEF Stop, StillFace
  <1>2. CASE Load \/ Start \/ Joined
    BY <1>2 DEF Load, Start, Joined, OwnerKnown, DoubtCounted, StrangerCounted, InFrame
  <1> QED
    BY <1>1, <1>2 DEF Manager

LEMMA OpenStep ==
  ASSUME OpenCamera \/ LoopEnds
  PROVE  (OwnerKnown /\ DoubtCounted /\ StrangerCounted)'
  BY FaceAssumption DEF OpenCamera, LoopEnds, OwnerKnown, DoubtCounted, StrangerCounted, InFrame

(* A frame is taken, and a face perhaps registered, before it is decided. *)
LEMMA RegisterStep ==
  ASSUME OwnerKnown, DoubtCounted, StrangerCounted,
         Capture \/ Store \/ StoreOk \/ StoreFails \/ Lower \/ Answer
  PROVE  (OwnerKnown /\ DoubtCounted /\ StrangerCounted)'
  <1> USE DEF OwnerKnown, DoubtCounted, StrangerCounted, InFrame, manager, locals, seen
  <1>1. CASE Capture
    BY <1>1 DEF Capture
  <1>2. CASE Store
    BY <1>2 DEF Store
  <1>3. CASE StoreOk
    BY <1>3 DEF StoreOk
  <1>4. CASE StoreFails \/ Lower \/ Answer
    BY <1>4 DEF StoreFails, Lower, Answer
  <1> QED
    BY <1>1, <1>2, <1>3, <1>4
-----------------------------------------------------------------------------
(* What one frame decides, with the outcome of its verification.             *)
Decided(failed) ==
  /\ thread = "decide" /\ thread' = "frame"
  /\ failed => Need
  /\ Presence(Recognised(failed))
  /\ Observe(failed)
  /\ verify' = NextVerify
  /\ UNCHANGED <<manager, owner, frame>>

(* Only the owner's face turns an absence into a presence: a face that was not
   verified is that of somebody registered and present.                      *)
LEMMA HereIsKnown ==
  ASSUME OwnerKnown, NEW failed \in BOOLEAN, thread = "decide", Recognised(failed)
  PROVE  /\ model /\ owner # Nobody /\ frame # Nobody
         /\ Need => frame = owner /\ ~failed
         /\ ~present => frame = owner
  BY DEF OwnerKnown, InFrame, Recognised, Need, MayVerify, FaceMatches

LEMMA DecidePresence ==
  ASSUME TypeOK, OwnerKnown, DoubtCounted, NEW failed \in BOOLEAN, Decided(failed)
  PROVE  OwnerKnown' /\ DoubtCounted'
  <1> DEFINE here == Recognised(failed)
  <1> USE FaceAssumption
  <1>1. InFrame /\ thread' = "frame"
    BY DEF Decided, InFrame
  <1>2. here => model /\ owner # Nobody /\ (~present => frame = owner)
    BY HereIsKnown DEF Decided
  <1>3. UNCHANGED <<model, owner>>
    BY DEF Decided, manager
  <1>4. isOwner' <=> here
    BY DEF Decided, Presence
  <1>5. OwnerKnown'
    <2>1. present' => present \/ here
      BY DEF Decided, Presence
    <2> QED
      BY <1>1, <1>2, <1>3, <1>4, <2>1 DEF OwnerKnown
  <1>6. DoubtCounted'
    <2>1. /\ present => absent <= AbsentFrames /\ absent <= stayed
          /\ present /\ ~isOwner => steady < absent
      BY <1>1 DEF DoubtCounted
    <2>2. /\ absent \in Nat /\ stayed \in 0..(AbsentFrames + 1) /\ steady \in 0..(AbsentFrames + 1)
          /\ present \in BOOLEAN /\ model \in BOOLEAN
      BY DEF TypeOK, FlagTypes, CountTypes
    <2>3. /\ steady' = 0 \/ (steady' <= steady + 1 /\ frame = owner /\ owner # Nobody /\ ~failed)
          /\ steady' \in Nat
          /\ stayed' = IF present THEN AtMost(stayed + 1, AbsentFrames + 1) ELSE 0
      BY <2>2 DEF Decided, Observe, AtMost
    <2>4. Need => (here <=> frame = owner /\ ~failed)
      BY DEF Recognised, FaceMatches
    <2>5. ~Need => (here <=> isOwner /\ frame # Nobody)
      BY DEF Recognised
    <2>6. CASE here
      <3>1. absent' = 0
        BY <2>6, Zenon DEF Decided, Presence, AbsentOnArrival
      <3>2. present => present'
        BY <2>6, Zenon DEF Decided, Presence
      <3>3. ~present => present'
        BY <2>6, Zenon DEF Decided, Presence
      <3> QED
        BY <3>1, <3>2, <3>3, <2>2, <2>3, <2>6, <1>4 DEF DoubtCounted, AtMost
    <2>7. CASE ~here /\ present
      <3>1. absent' = absent + 1 /\ (absent + 1 > AbsentFrames => ~present')
        BY <2>7, Zenon DEF Decided, Presence
      <3>4. absent + 1 > AbsentFrames \/ absent + 1 <= AbsentFrames
        BY <2>2
      <3>2. steady' = 0 \/ (~isOwner /\ steady' <= steady + 1)
        BY <2>3, <2>4, <2>5, <2>7
      <3> QED
        BY <3>1, <3>2, <3>4, <2>1, <2>2, <2>3, <2>7 DEF DoubtCounted, AtMost
    <2>8. CASE ~here /\ ~present
      <3>1. ~present'
        BY <2>8 DEF Decided, Presence
      <3>2. model => steady' = 0
        BY <2>3, <2>4, <2>8 DEF Need, MayVerify
      <3> QED
        BY <3>1, <3>2, <1>3 DEF DoubtCounted
    <2> QED
      BY <2>6, <2>7, <2>8
  <1> QED
    BY <1>5, <1>6

LEMMA DecideStranger ==
  ASSUME TypeOK, OwnerKnown, StrangerCounted, NEW failed \in BOOLEAN, Decided(failed)
  PROVE  StrangerCounted'
  <1> DEFINE here == Recognised(failed)
  <1> USE FaceAssumption
  <1>1. InFrame /\ thread = "decide" /\ thread' = "frame" /\ (isOwner' <=> here)
    BY DEF Decided, InFrame, Presence
  <1>2. /\ absent \in Nat /\ away \in Nat /\ verify \in 0..(RecogInterval - 1)
    BY DEF TypeOK, CountTypes
  <1>3. /\ present /\ isOwner => away <= verify \/ frame = owner
        /\ present /\ ~isOwner => away < RecogInterval + absent
        /\ present /\ isOwner => model /\ owner # Nobody
    BY <1>1 DEF StrangerCounted, OwnerKnown
  <1>4. /\ away' \in Nat /\ away' <= away + 1
        /\ frame = owner /\ owner # Nobody => away' = 0
    BY <1>2 DEF Decided, Observe, AtMost
  <1>5. verify' \in Nat
    BY <1>2 DEF Decided, NextVerify
  <1>6. CASE here /\ frame = owner
    <2>1. away' = 0
      BY <1>1, <1>4, <1>6, HereIsKnown DEF Decided
    <2> QED
      BY <2>1, <1>1, <1>5, <1>6 DEF StrangerCounted
  <1>7. CASE here /\ frame # owner
    <2>1. ~Need /\ present /\ model /\ owner # Nobody /\ frame # Nobody
      BY <1>1, <1>7, HereIsKnown
    <2>2. isOwner /\ MayVerify /\ ~VerifyDue
      BY <2>1, <1>7 DEF Recognised, Need, MayVerify
    <2>3. verify' = verify + 1
      BY <2>1, <2>2 DEF Decided, NextVerify
    <2> QED
      BY <2>1, <2>2, <2>3, <1>1, <1>2, <1>3, <1>4, <1>7 DEF StrangerCounted
  <1>8. CASE ~here /\ present
    <2>1. absent' = absent + 1
      BY <1>8 DEF Decided, Presence
    <2> QED
      BY <2>1, <1>1, <1>2, <1>3, <1>4, <1>8 DEF StrangerCounted
  <1>9. CASE ~here /\ ~present
    <2>1. ~present'
      BY <1>9 DEF Decided, Presence
    <2> QED
      BY <2>1 DEF StrangerCounted
  <1> QED
    BY <1>6, <1>7, <1>8, <1>9

LEMMA DecideTypes ==
  ASSUME TypeOK, DoubtCounted, Decide
  PROVE  TypeOK'
  <1> USE FaceAssumption
  <1>1. PlaceTypes'
    BY DEF TypeOK, PlaceTypes, Threads, Decide, caller
  <1>2. CountTypes'
    <2>1. present => absent <= AbsentFrames
      BY DEF DoubtCounted, InFrame, Decide
    <2>2. verify' \in 0..(RecogInterval - 1)
      BY DEF TypeOK, CountTypes, Decide, NextVerify, VerifyDue
    <2>3. absent' \in 0..(AbsentFrames + 1)
      <3>1. PICK failed \in BOOLEAN : Presence(Recognised(failed))
        BY Zenon DEF Decide
      <3>2. present => absent' = 0 \/ absent' = absent + 1
        BY <3>1, Zenon DEF Presence, AbsentOnArrival
      <3>3. ~present => absent' = 0 \/ absent' = absent
        BY <3>1, Zenon DEF Presence, AbsentOnArrival
      <3> QED
        BY <2>1, <3>2, <3>3 DEF TypeOK, CountTypes
    <2> QED
      BY <2>2, <2>3 DEF TypeOK, CountTypes, Decide, Observe, AtMost, manager, caller
  <1>3. FlagTypes'
    <2>1. UNCHANGED <<stopping, model, req, done, ok, stored, raced>>
      BY Zenon DEF Decide, manager, flags
    <2>2. PICK failed \in BOOLEAN : Presence(Recognised(failed))
      BY Zenon DEF Decide
    <2>3. isOwner' \in BOOLEAN
      <3>1. Recognised(failed) \in BOOLEAN
        BY Zenon DEF Recognised
      <3> QED
        BY <2>2, <3>1, Zenon DEF Presence
    <2>4. present' \in BOOLEAN
      BY <2>2, Zenon DEF Presence, TypeOK, FlagTypes
    <2> QED
      BY <2>1, <2>3, <2>4, Zenon DEF TypeOK, FlagTypes
  <1> QED
    BY <1>1, <1>2, <1>3 DEF TypeOK

LEMMA DecideIsDecided == ASSUME Decide PROVE \E failed \in BOOLEAN : Decided(failed)
  BY Zenon DEF Decide, Decided
-----------------------------------------------------------------------------
LEMMA InvariantStep == IInv /\ [Next]_vars => IInv'
  <1> SUFFICES ASSUME IInv, [Next]_vars PROVE IInv'
    OBVIOUS
  <1> USE DEF IInv
  <1>1. CASE Tool
    <2>1. StillFace /\ ~Decide
      BY <1>1 DEF Tool, Refuse, Ask, ClearOk, Raise, TakeAnswer, GiveUp, TimeOut, StillFace, manager,
         Decide, caller
    <2> QED
      BY <1>1, <2>1, StillStep, TypeStep DEF Next
  <1>2. CASE Manager
    <2>1. ~Decide
      BY <1>2 DEF Manager, Load, Start, Stop, Joined, Decide
    <2> QED
      BY <1>2, <2>1, ManagerStep, TypeStep DEF Next
  <1>3. CASE OpenCamera \/ LoopEnds
    <2>1. ~Decide
      BY <1>3 DEF OpenCamera, LoopEnds, Decide
    <2> QED
      BY <1>3, <2>1, OpenStep, TypeStep DEF Next, Sensor
  <1>4. CASE Capture \/ Store \/ StoreOk \/ StoreFails \/ Lower \/ Answer
    <2>1. ~Decide
      BY <1>4 DEF Capture, Store, StoreOk, StoreFails, Lower, Answer, Decide
    <2> QED
      BY <1>4, <2>1, RegisterStep, TypeStep DEF Next, Sensor
  <1>5. CASE Decide
    <2>1. PICK failed \in BOOLEAN : Decided(failed)
      BY <1>5, DecideIsDecided
    <2> QED
      BY <1>5, <2>1, DecidePresence, DecideStranger, DecideTypes
  <1>6. CASE UNCHANGED vars
    <2>1. StillFace /\ UNCHANGED vars
      BY <1>6, Zenon DEF vars, StillFace, manager
    <2>2. FlagTypes'
      BY <1>6, Zenon DEF vars, manager, flags, locals, TypeOK, FlagTypes
    <2>3. PlaceTypes' /\ CountTypes'
      BY <1>6 DEF vars, manager, locals, seen, caller, TypeOK, PlaceTypes, CountTypes
    <2> QED
      BY <2>1, <2>2, <2>3, StillStep DEF TypeOK
  <1> QED
    BY <1>1, <1>2, <1>3, <1>4, <1>5, <1>6 DEF Next, Sensor

(* The inductive invariant, for all people and counters. *)
THEOREM Invariant == Spec => []IInv
  BY InitHolds, InvariantStep, PTL DEF Spec

(* Every variable keeps its type: no counter of face_thread leaves its range. *)
THEOREM TypeCorrect == Spec => []TypeOK
  <1>1. IInv => TypeOK
    BY DEF IInv
  <1> QED
    BY <1>1, Invariant, PTL

(* An owner steadily in front of the camera is present after AbsentFrames + 1
   frames, whatever went before; one who is gone, or replaced by somebody else, is
   noticed to be after RecogInterval + AbsentFrames frames.                  *)
THEOREM PresenceCorrect == Spec => []PresenceFollows
  <1>1. IInv => SteadyIsPresent
    BY FaceAssumption DEF IInv, TypeOK, CountTypes, DoubtCounted, InFrame, SteadyIsPresent
  <1>2. IInv => AwayIsNoticed
    BY FaceAssumption DEF IInv, TypeOK, CountTypes, DoubtCounted, StrangerCounted, InFrame,
       AwayIsNoticed
  <1> QED
    BY <1>1, <1>2, Invariant, PTL DEF PresenceFollows

(* The presence changes when a frame is decided, or ends with the thread. *)
LEMMA PresenceMoves ==
  ASSUME Next, ~Decide
  PROVE  /\ present' => present
         /\ thread = "decide" => (present => present')
  <1>1. CASE Tool
    <2>1. UNCHANGED locals
      BY <1>1 DEF Tool, Refuse, Ask, ClearOk, Raise, TakeAnswer, GiveUp, TimeOut
    <2> QED
      BY <2>1 DEF locals
  <1>2. CASE Manager
    BY <1>2 DEF Manager, Load, Start, Stop, Joined, locals
  <1>3. CASE OpenCamera \/ LoopEnds \/ Capture
    BY <1>3 DEF OpenCamera, LoopEnds, Capture, locals
  <1>4. CASE Store \/ StoreOk \/ StoreFails \/ Lower \/ Answer
    BY <1>4 DEF Store, StoreOk, StoreFails, Lower, Answer, locals
  <1> QED
    BY <1>1, <1>2, <1>3, <1>4 DEF Next, Sensor

(* person_detected comes only at a frame whose largest face is the owner's. *)
THEOREM ArrivalCorrect == Spec => OwnerArrives
  <1>1. IInv /\ [Next]_vars => [present' /\ ~present => frame = owner /\ owner # Nobody]_vars
    <2> SUFFICES ASSUME IInv, Next, present', ~present PROVE frame = owner /\ owner # Nobody
      OBVIOUS
    <2>1. PICK failed \in BOOLEAN : Decided(failed)
      BY PresenceMoves, DecideIsDecided
    <2>2. thread = "decide" /\ Recognised(failed)
      BY <2>1, Zenon DEF Decided, Presence
    <2> QED
      BY <2>2, HereIsKnown DEF IInv
  <1> QED
    BY <1>1, Invariant, PTL DEF Spec, OwnerArrives

(* person_left comes more than AbsentFrames frames after person_detected. *)
THEOREM FlappingCorrect == Spec => NoFlapping
  <1>1. IInv /\ [Next]_vars
          => [thread = "decide" /\ present /\ ~present' => stayed' > AbsentFrames]_vars
    <2> SUFFICES ASSUME IInv, Next, thread = "decide", present, ~present'
                 PROVE  stayed' > AbsentFrames
      OBVIOUS
    <2>1. PICK failed \in BOOLEAN : Decided(failed)
      BY PresenceMoves, DecideIsDecided
    <2>2. absent + 1 > AbsentFrames
      BY <2>1, Zenon DEF Decided, Presence
    <2>3. stayed' = AtMost(stayed + 1, AbsentFrames + 1) /\ absent <= stayed
      BY <2>1 DEF Decided, Observe, IInv, DoubtCounted, InFrame
    <2> QED
      BY <2>2, <2>3, FaceAssumption DEF AtMost, IInv, TypeOK, CountTypes
  <1> QED
    BY <1>1, Invariant, PTL DEF Spec, NoFlapping
-----------------------------------------------------------------------------
(* The handshake of the three flags, as long as nothing raced.               *)
Waiting == tool \in {"wait", "giveup"}
Handshake ==
  ~raced =>
    /\ req => Waiting /\ ~done
    /\ thread \in {"register", "stored", "answer", "lowered"} => Waiting /\ ~done
    /\ thread = "stored" => stored
    /\ thread \in {"answer", "lowered"} => (ok <=> stored)
    /\ thread = "lowered" => ~req
    /\ tool \in {"clear", "raise"} => ~stored /\ ~done
    /\ Waiting /\ ~done /\ thread \notin {"stored", "answer", "lowered"} => ~stored
    /\ Waiting /\ done => (ok <=> stored)
    /\ tool = "idle" => (stored <=> result = "registered")

LEMMA HandshakeStep == Handshake /\ [Next]_vars => Handshake'
  <1> SUFFICES ASSUME Handshake, [Next]_vars PROVE Handshake'
    OBVIOUS
  <1> USE DEF Handshake, Waiting
  <1>1. CASE Refuse
    BY <1>1 DEF Refuse, flags
  <1>2. CASE Ask
    BY <1>2 DEF Ask
  <1>3. CASE ClearOk
    BY <1>3 DEF ClearOk
  <1>4. CASE Raise
    BY <1>4 DEF Raise
  <1>5. CASE TakeAnswer
    BY <1>5 DEF TakeAnswer, flags
  <1>6. CASE TimeOut
    BY <1>6 DEF TimeOut
  <1>21. CASE GiveUp
    BY <1>21 DEF GiveUp, flags
  <1>7. CASE Load
    BY <1>7 DEF Load, flags, caller
  <1>8. CASE Start
    BY <1>8 DEF Start, caller
  <1>9. CASE Stop
    BY <1>9 DEF Stop, flags, caller
  <1>10. CASE Joined
    BY <1>10 DEF Joined, flags, caller
  <1>11. CASE OpenCamera
    BY <1>11 DEF OpenCamera, flags, caller
  <1>12. CASE LoopEnds
    BY <1>12 DEF LoopEnds, flags, caller
  <1>13. CASE Capture
    BY <1>13 DEF Capture, flags, caller
  <1>14. CASE Store
    BY <1>14 DEF Store, flags, caller
  <1>15. CASE StoreOk
    BY <1>15 DEF StoreOk, caller
  <1>16. CASE StoreFails
    BY <1>16 DEF StoreFails, caller
  <1>17. CASE Lower
    BY <1>17 DEF Lower, caller
  <1>18. CASE Answer
    BY <1>18 DEF Answer, caller
  <1>19. CASE Decide
    BY <1>19 DEF Decide, flags, caller
  <1>20. CASE UNCHANGED vars
    BY <1>20 DEF vars, flags, caller
  <1> QED
    BY <1>1, <1>2, <1>3, <1>4, <1>5, <1>6, <1>7, <1>8, <1>9,
       <1>10, <1>11, <1>12, <1>13, <1>14, <1>15, <1>16, <1>17, <1>18, <1>19, <1>20,
       <1>21
       DEF Next, Sensor, Tool, Manager

(* Unless an answer and a time-out or a restart crossed, register_face tells
   the truth, and no request stays raised.                                   *)
THEOREM RegisterCorrect == Spec => []RegisterAnswers
  <1>1. Init => Handshake
    BY DEF Init, Handshake, Waiting
  <1>2. Handshake => RegisterAnswers
    BY DEF Handshake, Waiting, RegisterAnswers
  <1> QED
    BY <1>1, <1>2, HandshakeStep, PTL DEF Spec
=============================================================================

------------------------ MODULE SessionTrackerProofs ------------------------
(***************************************************************************)
(* Proofs about SessionTracker, for every set of ticks, clock readings and *)
(* laps, every configuration and any number of sessions.                   *)
(***************************************************************************)
EXTENDS SessionTracker, TLAPS

(* What the invariants rest on: each needs the ones before it. *)
IInv == TypeOK /\ OpenMeansRemembered /\ ConsumersInStep /\ LapIdTracksSim

(* Before the first frame nothing is open, remembered or shown. *)
LEMMA InitIInv == Init => IInv
<1> SUFFICES ASSUME Init PROVE IInv
  OBVIOUS
<1> USE DEF Init
<1>1. TypeOK
  <2>1. session_open \in BOOLEAN /\ replay_cut \in BOOLEAN
    OBVIOUS
  <2>2. session_id \in 0..MaxSessions
    BY TrackerAssumption
  <2> QED
    BY <2>1, <2>2 DEF TypeOK, SimState
<1>2. OpenMeansRemembered /\ ConsumersInStep /\ LapIdTracksSim
  BY DEF OpenMeansRemembered, ConsumersInStep, LapIdTracksSim
<1> QED
  BY <1>1, <1>2 DEF IInv

LEMMA FrameTypes ==
  ASSUME NEW f \in Frame
  PROVE  /\ f.tick \in Ticks /\ f.tick \in Int
         /\ f.time \in Times /\ f.time \in Int
         /\ f.lap \in Laps /\ f.lap \in Int
         /\ f.state \in SimState
<1>1. f.tick \in Ticks /\ f.time \in Times /\ f.lap \in Laps /\ f.state \in SimState
  BY DEF Frame
<1> QED
  BY <1>1, TrackerAssumption

LEMMA SampleTypes ==
  ASSUME NEW s \in Sample
  PROVE  s.tick \in Int /\ s.time \in Int /\ s.lap \in Int
<1>1. s.tick \in Ticks /\ s.time \in Times /\ s.lap \in Laps
  BY DEF Sample
<1> QED
  BY <1>1, TrackerAssumption

(* _remember leaves a sample of the frame. *)
LEMMA RememberFacts ==
  ASSUME NEW f \in Frame, Remember(f)
  PROVE  /\ last' \in Sample /\ last' # None
         /\ last'.tick = f.tick /\ last'.time = f.time /\ last'.lap = f.lap
         /\ last_state' = f.state /\ last_state' \in SimState
<1>1. last' \in Sample
  BY FrameTypes DEF Remember, Sample
<1>2. last' # None
  BY <1>1, TrackerAssumption
<1> QED
  BY <1>1, <1>2, FrameTypes DEF Remember

(* A tagged frame that is returned is what consumers saw last. *)
LEMMA ReturnFacts ==
  ASSUME NEW f \in Frame, NEW id \in Nat \ {0}, NEW lap \in Int,
         NEW events \in SUBSET Event, Return(f, id, lap, events)
  PROVE  /\ out' \in TaggedFrame /\ out' # None
         /\ out'.frame = f /\ out'.session_id = id /\ out'.lap_id = lap
         /\ out'.events = events
         /\ shown' \in Row /\ shown' # None
         /\ shown'.tick = f.tick /\ shown'.state = f.state
         /\ shown'.session_id = id /\ shown'.lap_id = lap
<1>1. out' \in TaggedFrame
  BY DEF Return, TaggedFrame
<1>2. shown' \in Row
  BY FrameTypes DEF Return, Row
<1>3. out' # None /\ shown' # None
  BY <1>1, <1>2, TrackerAssumption
<1> QED
  BY <1>1, <1>2, <1>3 DEF Return

(* Leaving the track, by a frame or by a disconnect. *)
LEMMA LeaveIInv ==
  ASSUME IInv, UNCHANGED <<config, session_id, lap_id, shown, replay_cut>>,
         out' = None, last_state' \in SimState,
         session_open' = FALSE, last' = None
  PROVE  IInv'
<1>1. TypeOK'
  BY DEF IInv, TypeOK
<1>2. OpenMeansRemembered' /\ ConsumersInStep' /\ LapIdTracksSim'
  BY DEF IInv, OpenMeansRemembered, ConsumersInStep, LapIdTracksSim
<1> QED
  BY <1>1, <1>2 DEF IInv

LEMMA DropReplayIInv ==
  ASSUME IInv, NEW f \in Frame, DropReplay(f), UNCHANGED config
  PROVE  IInv'
<1> USE DEF DropReplay, ReturnNone
<1>1. TypeOK'
  BY FrameTypes DEF IInv, TypeOK
<1>2. OpenMeansRemembered' /\ ConsumersInStep' /\ LapIdTracksSim'
  BY DEF IInv, OpenMeansRemembered, ConsumersInStep, LapIdTracksSim
<1> QED
  BY <1>1, <1>2 DEF IInv

(* A frame that is not a reset, of an open session: its lap is no lower    *)
(* than the lap remembered.                                                *)
LEMMA SameSession ==
  ASSUME IInv, NEW f \in Frame, ~IsReset(f)
  PROVE  /\ session_open /\ last # None /\ last \in Sample
         /\ last.lap \in Int /\ f.lap >= last.lap
         /\ shown # None /\ shown \in Row
         /\ shown.session_id = session_id /\ shown.lap_id = lap_id
         /\ session_id \in Nat \ {0}
         /\ replay_cut \/ ShowsLast
<1>1. session_open
  BY DEF IsReset
<1>2. last # None /\ last \in Sample
  BY <1>1 DEF IInv, OpenMeansRemembered, TypeOK
<1>3. last.lap \in Int /\ f.lap >= last.lap
  BY <1>2, SampleTypes, FrameTypes DEF IsReset
<1>4. /\ shown # None /\ shown \in Row
      /\ shown.session_id = session_id /\ shown.lap_id = lap_id
      /\ replay_cut \/ ShowsLast
  BY <1>1 DEF IInv, ConsumersInStep, TypeOK
<1>5. session_id \in Nat \ {0}
  BY <1>4 DEF Row
<1> QED
  BY <1>1, <1>2, <1>3, <1>4, <1>5

(* A frame of a pause that is not logged: the session stays, and so does   *)
(* the lap id, although the lap remembered may have advanced.              *)
LEMMA StayQuietIInv ==
  ASSUME IInv, NEW f \in Frame, StayQuiet(f), UNCHANGED config
  PROVE  IInv'
<1>1. ~IsReset(f) /\ f.state = "PAUSED" /\ ~config.log_paused
  BY DEF StayQuiet, IsQuiet
<1>2. /\ UNCHANGED <<config, session_id, lap_id, session_open>>
      /\ Remember(f)
  BY DEF StayQuiet
<1>3. OpenMeansRemembered'
  BY <1>1, <1>2, SameSession, RememberFacts DEF OpenMeansRemembered
<1>4. LapIdTracksSim'
  BY <1>1, <1>2, SameSession, RememberFacts, FrameTypes DEF IInv, TypeOK, LapIdTracksSim
<1>5. CASE Pauses(f)
  <2>1. Return(f, session_id, lap_id, {"paused"}) /\ replay_cut' = FALSE
    BY <1>5 DEF StayQuiet
  <2>2. {"paused"} \in SUBSET Event /\ lap_id \in Int
    BY DEF Event, IInv, TypeOK
  <2>3. /\ out' \in TaggedFrame /\ shown' \in Row /\ shown' # None
        /\ shown'.tick = f.tick /\ shown'.state = f.state
        /\ shown'.session_id = session_id /\ shown'.lap_id = lap_id
    BY <1>1, <2>1, <2>2, SameSession, ReturnFacts
  <2>4. TypeOK'
    BY <1>2, <2>1, <2>3, RememberFacts DEF IInv, TypeOK
  <2>5. ConsumersInStep'
    BY <1>2, <2>2, <2>3, RememberFacts DEF IInv, TypeOK, ConsumersInStep, ShowsLast
  <2> QED
    BY <1>3, <1>4, <2>4, <2>5 DEF IInv
<1>6. CASE ~Pauses(f)
  <2>1. out' = None /\ UNCHANGED <<shown, replay_cut>> /\ last_state = "PAUSED"
    BY <1>1, <1>6 DEF StayQuiet, ReturnNone, Pauses
  <2>2. TypeOK'
    BY <1>2, <2>1, RememberFacts DEF IInv, TypeOK
  <2>3. ConsumersInStep'
    BY <1>1, <1>2, <2>1, SameSession, RememberFacts DEF ConsumersInStep, ShowsLast
  <2> QED
    BY <1>3, <1>4, <2>2, <2>3 DEF IInv
<1> QED
  BY <1>5, <1>6

(* The session and the lap that process() tags a frame with. *)
LEMMA TagFacts ==
  ASSUME IInv, NEW f \in Frame
  PROVE  /\ NextSessionId(f) \in Nat \ {0} /\ NextSessionId(f) >= session_id
         /\ NextLapId(f) \in Int /\ NextLapId(f) <= f.lap
         /\ config.log_paused => NextLapId(f) = f.lap
         /\ EventsOf(f) \in SUBSET Event
<1>1. session_id \in Nat /\ lap_id \in Int /\ EventsOf(f) \in SUBSET Event
  BY TrackerAssumption DEF IInv, TypeOK, EventsOf
<1>2. CASE IsReset(f)
  BY <1>1, <1>2, FrameTypes DEF NextSessionId, NextLapId
<1>3. CASE ~IsReset(f)
  <2>1. /\ last # None /\ last.lap \in Int /\ f.lap \in Int /\ f.lap >= last.lap
        /\ session_id # 0
    BY <1>3, SameSession, FrameTypes
  <2>2. lap_id <= last.lap /\ (config.log_paused => lap_id = last.lap)
    BY <2>1 DEF IInv, LapIdTracksSim
  <2>3. NextLapId(f) = IF f.lap > last.lap THEN lap_id + (f.lap - last.lap) ELSE lap_id
    BY <1>3, <2>1 DEF NextLapId, CompletesLap
  <2>4. NextSessionId(f) = session_id
    BY <1>3 DEF NextSessionId
  <2> QED
    BY <1>1, <2>1, <2>2, <2>3, <2>4
<1> QED
  BY <1>2, <1>3

LEMMA EmitIInv ==
  ASSUME IInv, NEW f \in Frame, Emit(f), UNCHANGED config
  PROVE  IInv'
<1>1. /\ Remember(f)
      /\ Return(f, NextSessionId(f), NextLapId(f), EventsOf(f))
      /\ session_id' = NextSessionId(f) /\ session_id' <= MaxSessions
      /\ lap_id' = NextLapId(f)
      /\ session_open' = TRUE /\ replay_cut' = FALSE
      /\ UNCHANGED config
  BY DEF Emit
<1>2. /\ out' \in TaggedFrame /\ shown' \in Row /\ shown' # None
      /\ shown'.tick = f.tick /\ shown'.state = f.state
      /\ shown'.session_id = session_id' /\ shown'.lap_id = lap_id'
      /\ session_id' \in Nat /\ lap_id' \in Int
  BY <1>1, TagFacts, ReturnFacts
<1>3. session_id' \in 0..MaxSessions
  BY <1>1, <1>2, TrackerAssumption
<1>4. session_open' \in BOOLEAN /\ replay_cut' \in BOOLEAN
  BY <1>1
<1>5. TypeOK'
  BY <1>1, <1>2, <1>3, <1>4, RememberFacts DEF IInv, TypeOK
<1>6. OpenMeansRemembered'
  BY <1>1, RememberFacts DEF OpenMeansRemembered
<1>7. ConsumersInStep'
  BY <1>1, <1>2, RememberFacts DEF ConsumersInStep, ShowsLast
<1>8. LapIdTracksSim'
  BY <1>1, TagFacts, RememberFacts DEF LapIdTracksSim
<1> QED
  BY <1>5, <1>6, <1>7, <1>8 DEF IInv

LEMMA NextIInv == IInv /\ [Next]_vars => IInv'
<1> SUFFICES ASSUME IInv, [Next]_vars PROVE IInv'
  OBVIOUS
<1>1. CASE UNCHANGED vars
  <2> USE <1>1 DEF vars, memory
  <2>1. TypeOK'
    BY DEF IInv, TypeOK
  <2>2. OpenMeansRemembered' /\ ConsumersInStep' /\ LapIdTracksSim'
    BY DEF IInv, OpenMeansRemembered, ConsumersInStep, ShowsLast, LapIdTracksSim
  <2> QED
    BY <2>1, <2>2 DEF IInv
<1>2. CASE SimDisconnected
  BY <1>2, LeaveIInv DEF SimDisconnected, CloseSession, ReturnNone, SimState
<1>3. ASSUME NEW f \in Frame, Process(f) PROVE IInv'
  <2>1. CASE LeaveTrack(f)
    <3>1. session_open' = FALSE /\ last' = None
      BY <2>1 DEF LeaveTrack, CloseSession, IInv, TypeOK, OpenMeansRemembered
    <3>2. last_state' \in SimState
      BY <2>1, FrameTypes DEF LeaveTrack, CloseSession
    <3> QED
      BY <1>3, <2>1, <3>1, <3>2, LeaveIInv DEF LeaveTrack, Process, ReturnNone
  <2>2. CASE DropReplay(f)
    BY <1>3, <2>2, DropReplayIInv DEF Process
  <2>3. CASE DropDuplicate(f)
    <3> USE <1>3, <2>3 DEF Process, DropDuplicate, ReturnNone, memory
    <3>1. TypeOK'
      BY DEF IInv, TypeOK
    <3>2. OpenMeansRemembered' /\ ConsumersInStep' /\ LapIdTracksSim'
      BY DEF IInv, OpenMeansRemembered, ConsumersInStep, ShowsLast, LapIdTracksSim
    <3> QED
      BY <3>1, <3>2 DEF IInv
  <2>4. CASE StayQuiet(f)
    BY <1>3, <2>4, StayQuietIInv DEF Process
  <2>5. CASE Emit(f)
    BY <1>3, <2>5, EmitIInv DEF Process
  <2> QED
    BY <1>3, <2>1, <2>2, <2>3, <2>4, <2>5 DEF Process
<1> QED
  BY <1>1, <1>2, <1>3 DEF Next

(* The inductive invariant holds in every reachable state. *)
LEMMA Invariance == Spec => []IInv
<1> QED
  BY InitIInv, NextIInv, PTL DEF Spec

(* Every variable keeps its type: in particular no frame is tagged with    *)
(* the empty session id.                                                   *)
THEOREM TypeCorrect == Spec => []TypeOK
  BY Invariance, PTL DEF IInv

(* process() and sim_disconnected() remember a sample exactly while a      *)
(* session is open.                                                        *)
THEOREM RemembersWhileOpen == Spec => []OpenMeansRemembered
  BY Invariance, PTL DEF IInv

(* What consumers last saw is what process() would compare a frame with.   *)
THEOREM ConsumersStayInStep == Spec => []ConsumersInStep
  BY Invariance, PTL DEF IInv

(* The lap id of process() never runs ahead of the sim.                    *)
THEOREM LapIdNeverAhead == Spec => []LapIdTracksSim
  BY Invariance, PTL DEF IInv

-----------------------------------------------------------------------------
(***************************************************************************)
(* What a step may never do, and the refinement.                           *)
(***************************************************************************)

(* Only two of the ways process() returns pass a frame on. *)
LEMMA PassedOn ==
  ASSUME IInv, NEW f \in Frame, Process(f), out' # None
  PROVE  /\ ~IsDuplicate(f) /\ out' \in TaggedFrame /\ out'.frame = f
         /\ session_id' = out'.session_id /\ lap_id' = out'.lap_id
         /\ \/ /\ IsQuiet(f) /\ Pauses(f)
               /\ out'.events = {"paused"}
               /\ out'.session_id = session_id /\ out'.lap_id = lap_id
               /\ session_open' = session_open
            \/ /\ ~IsQuiet(f)
               /\ out'.events = EventsOf(f)
               /\ out'.session_id = NextSessionId(f) /\ out'.lap_id = NextLapId(f)
               /\ session_open' = TRUE
<1>1. StayQuiet(f) \/ Emit(f)
  BY DEF Process, LeaveTrack, DropReplay, DropDuplicate, ReturnNone
<1>2. CASE StayQuiet(f)
  <2>1. IsQuiet(f) /\ ~IsReset(f) /\ ~IsDuplicate(f)
    BY <1>2 DEF StayQuiet, IsQuiet
  <2>2. /\ Pauses(f) /\ Return(f, session_id, lap_id, {"paused"})
        /\ UNCHANGED <<session_id, lap_id, session_open>>
    BY <1>2 DEF StayQuiet, ReturnNone
  <2>3. {"paused"} \in SUBSET Event /\ lap_id \in Int
    BY DEF Event, IInv, TypeOK
  <2> QED
    BY <2>1, <2>2, <2>3, SameSession, ReturnFacts
<1>3. CASE Emit(f)
  <2>1. /\ ~IsQuiet(f) /\ ~IsDuplicate(f)
        /\ Return(f, NextSessionId(f), NextLapId(f), EventsOf(f))
        /\ session_id' = NextSessionId(f) /\ lap_id' = NextLapId(f)
        /\ session_open' = TRUE
    BY <1>3 DEF Emit
  <2> QED
    BY <2>1, TagFacts, ReturnFacts
<1> QED
  BY <1>1, <1>2, <1>3

(* A frame of the session of the one before it: the tracker remembers what *)
(* consumers saw, unless a replay frame was dropped.                       *)
LEMMA FurtherFrameFacts ==
  ASSUME IInv, NEW f \in Frame, Process(f), FurtherFrame
  PROVE  /\ ~IsReset(f) /\ last # None
         /\ replay_cut \/ ShowsLast
<1>1. out' # None /\ shown # None /\ out'.session_id = shown.session_id
  BY DEF FurtherFrame
<1>2. shown.session_id <= session_id /\ session_id \in Nat /\ shown.session_id \in Nat
  BY <1>1, TrackerAssumption DEF IInv, TypeOK, ConsumersInStep, Row
<1>3. ~IsReset(f)
  <2> SUFFICES ASSUME IsReset(f) PROVE FALSE
    OBVIOUS
  <2>1. ~IsQuiet(f) /\ NextSessionId(f) = session_id + 1
    BY DEF IsQuiet, NextSessionId
  <2>2. out'.session_id = session_id + 1
    BY <1>1, <2>1, PassedOn
  <2> QED
    BY <1>1, <1>2, <2>2
<1> QED
  BY <1>3, SameSession

(* process() never passes on the same tick in the same state twice running *)
(* in a session, unless it dropped a replay frame in between.              *)
THEOREM NoRowIsRepeated == Spec => NoRowTwice
<1> DEFINE Good ==
      FurtherFrame /\ ~replay_cut
        => <<out'.frame.tick, out'.frame.state>> # <<shown.tick, shown.state>>
<1>1. IInv /\ [Next]_vars => [Good]_vars
  <2> SUFFICES ASSUME IInv, Next, FurtherFrame, ~replay_cut
               PROVE  <<out'.frame.tick, out'.frame.state>> # <<shown.tick, shown.state>>
    OBVIOUS
  <2>1. PICK f \in Frame : Process(f)
    BY DEF Next, SimDisconnected, ReturnNone, FurtherFrame
  <2>2. /\ ~IsDuplicate(f) /\ out'.frame = f /\ (IsQuiet(f) => Pauses(f))
        /\ ~IsReset(f) /\ last # None /\ ShowsLast
    BY <2>1, PassedOn, FurtherFrameFacts DEF FurtherFrame
  <2> QED
    BY <2>2 DEF IsDuplicate, ShowsLast, IsQuiet, Pauses
<1> QED
  BY <1>1, Invariance, PTL DEF Spec, NoRowTwice

(* process() brackets a pause with "paused" and "resumed" and passes       *)
(* nothing on in between, unless it dropped a replay frame in between.     *)
THEOREM PausesAreBracketed == Spec => PauseBracketed
<1>1. IInv /\ [Next]_vars => [FurtherFrame /\ ~replay_cut => Bracketed]_vars
  <2> SUFFICES ASSUME IInv, Next, FurtherFrame, ~replay_cut PROVE Bracketed
    OBVIOUS
  <2>1. PICK f \in Frame : Process(f)
    BY DEF Next, SimDisconnected, ReturnNone, FurtherFrame
  <2>2. /\ out'.frame = f /\ ~IsReset(f) /\ shown.state = last_state
        /\ \/ IsQuiet(f) /\ Pauses(f) /\ out'.events = {"paused"}
           \/ ~IsQuiet(f) /\ out'.events = EventsOf(f)
    BY <2>1, PassedOn, FurtherFrameFacts DEF FurtherFrame, ShowsLast
  <2>3. "resumed" \in EventsOf(f) <=> Resumes(f)
    BY DEF EventsOf, Event
  <2> QED
    BY <2>2, <2>3 DEF Bracketed, IsQuiet, Pauses, Resumes
<1> QED
  BY <1>1, Invariance, PTL DEF Spec, PauseBracketed

(* process() surfaces the first frame of every pause. *)
THEOREM PausesAreAnnounced == Spec => PauseAnnounced
<1> DEFINE Good ==
      \A f \in Frame : Pauses(f) /\ Process(f) => out' # None /\ "paused" \in out'.events
<1>1. IInv /\ [Next]_vars => [Good]_vars
  <2> SUFFICES ASSUME IInv, NEW f \in Frame, Pauses(f), Process(f)
               PROVE  out' # None /\ "paused" \in out'.events
    OBVIOUS
  <2>1. StayQuiet(f) \/ Emit(f)
    BY DEF Process, LeaveTrack, OffTrack, DropReplay, IgnoredReplay, DropDuplicate,
           IsDuplicate, Pauses
  <2>2. out' # None
    <3>1. CASE StayQuiet(f)
      <4>1. Return(f, session_id, lap_id, {"paused"}) /\ ~IsReset(f)
        BY <3>1 DEF StayQuiet, IsQuiet
      <4>2. {"paused"} \in SUBSET Event /\ lap_id \in Int
        BY DEF Event, IInv, TypeOK
      <4> QED
        BY <4>1, <4>2, SameSession, ReturnFacts
    <3>2. CASE Emit(f)
      <4>1. Return(f, NextSessionId(f), NextLapId(f), EventsOf(f))
        BY <3>2 DEF Emit
      <4> QED
        BY <4>1, TagFacts, ReturnFacts
    <3> QED
      BY <2>1, <3>1, <3>2
  <2>3. "paused" \in EventsOf(f)
    BY DEF EventsOf, Event
  <2> QED
    BY <2>2, <2>3, PassedOn
<1> QED
  BY <1>1, Invariance, PTL DEF Spec, PauseAnnounced

(* The step of the feed that a step of the tracker is. *)
LEMMA FeedStep == IInv /\ IInv' /\ [Next]_vars => [Feed!FeedNext]_(Feed!feedVars)
<1> SUFFICES ASSUME IInv, IInv', [Next]_vars PROVE [Feed!FeedNext]_(Feed!feedVars)
  OBVIOUS
<1>1. CASE UNCHANGED vars
  BY <1>1 DEF vars, memory, Feed!feedVars
<1>2. CASE SimDisconnected
  BY <1>2 DEF SimDisconnected, CloseSession, ReturnNone, Feed!FeedNext, Feed!Withhold
<1>3. ASSUME NEW f \in Frame, Process(f), out' = None PROVE Feed!FeedNext
  <2>1. UNCHANGED <<session_id, lap_id>> /\ session_open' \in {session_open, FALSE}
    <3>1. CASE Emit(f)
      <4>1. Return(f, NextSessionId(f), NextLapId(f), EventsOf(f))
        BY <3>1 DEF Emit
      <4> QED
        BY <1>3, <4>1, TagFacts, ReturnFacts
    <3> QED
      BY <1>3, <3>1 DEF Process, LeaveTrack, CloseSession, DropReplay, DropDuplicate,
                        StayQuiet, memory
  <2> QED
    BY <1>3, <2>1 DEF Feed!FeedNext, Feed!Withhold
<1>4. ASSUME NEW f \in Frame, Process(f), out' # None PROVE Feed!FeedNext
  <2>1. /\ out' \in Feed!TaggedFrame
        /\ session_id' = out'.session_id /\ lap_id' = out'.lap_id
    <3>1. out' \in TaggedFrame
      BY <1>4, PassedOn
    <3>2. session_id' = out'.session_id /\ lap_id' = out'.lap_id
      BY <1>4, PassedOn
    <3> QED
      BY <3>1, <3>2 DEF Feed!TaggedFrame, TaggedFrame
  <2>2. session_open' = TRUE
    BY <1>4, PassedOn DEF IsQuiet, IsReset
  <2>3. CASE IsReset(f)
    <3>1. /\ out'.frame = f /\ out'.events = EventsOf(f)
          /\ out'.session_id = session_id + 1 /\ out'.lap_id = f.lap
      BY <1>4, <2>3, PassedOn DEF IsQuiet, NextSessionId, NextLapId
    <3>2. /\ "session_start" \in EventsOf(f)
          /\ "session_end" \in EventsOf(f) <=> session_open
          /\ "lap_complete" \notin EventsOf(f)
      BY <2>3 DEF EventsOf, Event, CompletesLap
    <3> QED
      BY <2>1, <2>2, <3>1, <3>2 DEF Feed!FeedNext, Feed!Pass, Feed!Begin
  <2>4. CASE ~IsReset(f)
    <3>1. session_open /\ last # None /\ last.lap \in Int /\ lap_id \in Int /\ f.lap \in Int
      BY <2>4, SameSession, FrameTypes DEF IInv, TypeOK
    <3>2. /\ "session_start" \notin EventsOf(f) /\ "session_end" \notin EventsOf(f)
          /\ "lap_complete" \in EventsOf(f) <=> f.lap > last.lap
      BY <2>4, <3>1 DEF EventsOf, Event, CompletesLap
    <3>3. NextLapId(f) = IF f.lap > last.lap THEN lap_id + (f.lap - last.lap) ELSE lap_id
      BY <2>4, <3>1 DEF NextLapId, CompletesLap
    <3>4. \/ out'.events = {"paused"} /\ out'.lap_id = lap_id
          \/ out'.events = EventsOf(f) /\ out'.lap_id = NextLapId(f)
      BY <1>4, PassedOn
    <3>5. out'.session_id = session_id
      BY <1>4, <2>4, PassedOn DEF NextSessionId
    <3>6. /\ {"session_start", "session_end"} \cap out'.events = {}
          /\ out'.lap_id >= lap_id
          /\ "lap_complete" \in out'.events <=> out'.lap_id > lap_id
      BY <3>1, <3>2, <3>3, <3>4
    <3> QED
      BY <2>1, <2>2, <3>1, <3>5, <3>6 DEF Feed!FeedNext, Feed!Pass, Feed!Continue
  <2> QED
    BY <2>3, <2>4
<1> QED
  BY <1>1, <1>2, <1>3, <1>4 DEF Next

(* The tracker implements SessionFeed, the promise its consumers rely on:  *)
(* each session is announced once, in order, its frames are contiguous and *)
(* a lap is announced exactly when the lap id advances.                    *)
THEOREM TrackerImplementsFeed == Spec => ImplementsFeed
<1>1. Init => Feed!FeedInit
  BY DEF Init, Feed!FeedInit
<1> QED
  BY <1>1, FeedStep, Invariance, PTL DEF Spec, ImplementsFeed, Feed!FeedSpec
=============================================================================

---------------------------- MODULE AdapterProofs ----------------------------
(***************************************************************************)
(* Proofs about AdapterSession: the tracker behind each of the adapters,   *)
(* for simulators of any pace and length, any jitter up to the tracker's   *)
(* threshold and any scripts of the mock.                                  *)
(***************************************************************************)
EXTENDS AdapterSession, SessionTrackerProofs

(* The bounds are numbers. *)
LEMMA Bounds ==
  /\ MaxTick \in Nat /\ MaxMockTick \in Nat /\ MaxLap \in Nat
  /\ Jitter \in 0..2 /\ Rewind = 2
BY ReadingsAssumption, JitterAssumption DEF Rewind

(* What a call of process() comes to: the car is off the track, the frame  *)
(* is passed over, or it is remembered, in the session it belongs to.      *)
LEMMA Outcomes ==
  ASSUME NEW f, Process(f)
  PROVE  \/ /\ OffTrack(f)
            /\ session_id' = session_id /\ last' \in {last, None} /\ out' = None
         \/ /\ ~OffTrack(f) /\ (IgnoredReplay(f) \/ IsDuplicate(f))
            /\ UNCHANGED <<session_id, last, session_open>> /\ out' = None
         \/ /\ ~OffTrack(f) /\ ~IgnoredReplay(f) /\ ~IsDuplicate(f)
            /\ last' = [tick |-> f.tick, time |-> f.time, lap |-> f.lap]
            /\ session_open'
            /\ session_id' = NextSessionId(f)
            /\ out' # None => out'.session_id = NextSessionId(f)
<1>1. CASE LeaveTrack(f)
  BY <1>1 DEF LeaveTrack, CloseSession, ReturnNone
<1>2. CASE DropReplay(f)
  BY <1>2 DEF DropReplay, IgnoredReplay, OffTrack, ReturnNone
<1>3. CASE DropDuplicate(f)
  BY <1>3 DEF DropDuplicate, ReturnNone, memory
<1>4. CASE StayQuiet(f)
  <2>1. ~IsReset(f) /\ session_open /\ session_open' = session_open
    BY <1>4 DEF StayQuiet, IsQuiet, IsReset
  <2>2. out' # None => out'.session_id = session_id
    BY <1>4 DEF StayQuiet, Return, ReturnNone
  <2> QED
    BY <1>4, <2>1, <2>2 DEF StayQuiet, Remember, NextSessionId
<1>5. CASE Emit(f)
  BY <1>5 DEF Emit, Remember, Return
<1> QED
  BY <1>1, <1>2, <1>3, <1>4, <1>5 DEF Process

-----------------------------------------------------------------------------
(***************************************************************************)
(* A simulator that is sampled.                                            *)
(***************************************************************************)
SimType ==
  /\ sim \in [tick: 0..MaxTick, state: SimState, time: 0..MaxTick, lap: 0..MaxLap]
  /\ sim.time <= sim.tick

OnTrack == sim.state \notin {"MENU", "OFF"}

(* Of the stint whose frames were processed last the session is open, and  *)
(* nothing remembered is ahead of the simulator.  When another stint has   *)
(* begun, its frames cannot be taken for repetitions.                      *)
StintInv ==
  /\ stint \in Nat /\ processed \in 0..stint
  /\ last # None => /\ last.tick \in Int /\ last.time \in Int /\ last.lap \in Int
                    /\ last.tick <= sim.tick
                    /\ processed < stint => last.tick < sim.tick
  /\ processed = stint /\ session_id > 0 /\ OnTrack =>
       /\ session_open
       /\ last # None => last.time <= sim.time /\ last.lap <= sim.lap

(* A move of the simulator: on in its stint, or to a new one. *)
Moves ==
  /\ UNCHANGED <<processed, vars>>
  /\ \/ /\ stint' = stint
        /\ sim'.tick >= sim.tick /\ sim'.time >= sim.time /\ sim'.lap >= sim.lap
        /\ OnTrack' => OnTrack
     \/ stint' = stint + 1 /\ sim'.tick > sim.tick

(* Such a move keeps the invariant. *)
LEMMA MovesKeepStint ==
  ASSUME SimType, SimType', StintInv, Moves
  PROVE  StintInv'
<1>1. /\ sim.tick \in Int /\ sim.time \in Int /\ sim.lap \in Int
      /\ sim'.tick \in Int /\ sim'.time \in Int /\ sim'.lap \in Int
  BY Bounds DEF SimType
<1>2. UNCHANGED <<last, session_id, session_open>>
  BY DEF Moves, vars, memory
<1>3. CASE stint' = stint + 1 /\ sim'.tick > sim.tick
  BY <1>1, <1>2, <1>3 DEF StintInv, Moves
<1>4. CASE /\ stint' = stint
           /\ sim'.tick >= sim.tick /\ sim'.time >= sim.time /\ sim'.lap >= sim.lap
           /\ OnTrack' => OnTrack
  BY <1>1, <1>2, <1>4 DEF StintInv, Moves
<1> QED
  BY <1>3, <1>4 DEF Moves

(* A reading is delivered: of the present moment, or a little late.        *)
Reading(f) ==
  /\ f.tick = sim.tick /\ f.lap = sim.lap
  /\ f.time \in (sim.time - Rewind)..sim.time

LEMMA ReadingsKeepStint ==
  ASSUME SimType, StintInv, NEW f, Process(f), UNCHANGED <<sim, stint>>,
         Reading(f) \/ IgnoredReplay(f),
         OffTrack(f) => ~OnTrack,
         processed' = IF OffTrack(f) \/ IgnoredReplay(f) THEN processed ELSE stint
  PROVE  /\ StintInv'
         /\ processed' = processed /\ session_id > 0 /\ OnTrack => session_id' = session_id
<1>1. /\ sim.tick \in Int /\ sim.time \in Int /\ sim.lap \in Int /\ Rewind = 2
      /\ OnTrack' <=> OnTrack
  BY Bounds DEF SimType, OnTrack
<1>2. stint \in Nat /\ processed \in 0..stint
  BY DEF StintInv
<1>3. CASE /\ OffTrack(f)
           /\ session_id' = session_id /\ last' \in {last, None}
  BY <1>1, <1>3 DEF StintInv
<1>4. CASE /\ ~OffTrack(f) /\ (IgnoredReplay(f) \/ IsDuplicate(f))
           /\ UNCHANGED <<session_id, last, session_open>>
  <2>1. CASE IgnoredReplay(f)
    BY <1>1, <1>4, <2>1 DEF StintInv
  <2>2. CASE ~IgnoredReplay(f)
    <3>1. last # None /\ f.tick = last.tick /\ f.tick = sim.tick /\ processed' = stint
      BY <1>4, <2>2 DEF IsDuplicate, Reading
    <3>2. processed = stint
      BY <1>1, <1>2, <3>1 DEF StintInv
    <3> QED
      BY <1>1, <1>4, <3>1, <3>2 DEF StintInv
  <2> QED
    BY <2>1, <2>2
<1>5. CASE /\ ~OffTrack(f) /\ ~IgnoredReplay(f)
           /\ last' = [tick |-> f.tick, time |-> f.time, lap |-> f.lap]
           /\ session_open' /\ session_id' = NextSessionId(f)
  <2>1. /\ processed' = stint /\ f.tick = sim.tick /\ f.lap = sim.lap
        /\ f.time \in Int /\ f.time <= sim.time /\ f.time >= sim.time - 2
    BY <1>1, <1>5 DEF Reading
  <2>2. /\ last'.tick = f.tick /\ last'.time = f.time /\ last'.lap = f.lap
    BY <1>5
  <2>3. StintInv'
    BY <1>1, <1>2, <1>5, <2>1, <2>2 DEF StintInv
  <2>4. ASSUME processed = stint, session_id > 0, OnTrack PROVE session_id' = session_id
    <3>1. /\ session_open
          /\ last # None => /\ last.time \in Int /\ last.lap \in Int
                            /\ last.time <= sim.time /\ last.lap <= sim.lap
      BY <2>4 DEF StintInv
    <3>2. last # None => ~(f.time < last.time - Rewind) /\ ~(f.lap < last.lap)
      BY <1>1, <2>1, <3>1
    <3>3. ~IsReset(f)
      BY <3>1, <3>2 DEF IsReset
    <3> QED
      BY <1>5, <3>3 DEF NextSessionId
  <2> QED
    BY <2>1, <2>3, <2>4
<1> QED
  BY <1>3, <1>4, <1>5, Outcomes

-----------------------------------------------------------------------------
(***************************************************************************)
(* Types, and what each step is to the tracker.                            *)
(***************************************************************************)

(* A simulator of this type is a record of its fields. *)
LEMMA SimRecord ==
  ASSUME SimType
  PROVE  /\ sim.tick \in 0..MaxTick /\ sim.time \in 0..MaxTick /\ sim.lap \in 0..MaxLap
         /\ sim.time <= sim.tick /\ sim.state \in SimState
         /\ sim = [tick |-> sim.tick, state |-> sim.state, time |-> sim.time, lap |-> sim.lap]
BY DEF SimType

(* Whichever simulator moves, it does no other than that.                  *)
LEMMA SimMoves ==
  ASSUME SimType,
         Drive \/ Restart \/ Advance \/ GetIn \/ StartOrExit
           \/ (sim.state # "OFF" /\ (Switch \/ Leave))
  PROVE  SimType' /\ Moves
<1>1. /\ sim.tick \in 0..MaxTick /\ sim.time \in 0..MaxTick /\ sim.lap \in 0..MaxLap
      /\ sim.time <= sim.tick /\ sim.state \in SimState
      /\ sim = [tick |-> sim.tick, state |-> sim.state, time |-> sim.time, lap |-> sim.lap]
  BY SimRecord
<1>2. MaxTick \in Nat /\ MaxLap \in Nat
  BY Bounds
<1>3. ASSUME NEW k \in 0..MaxTick, NEW c \in 0..MaxTick, NEW l \in 0..MaxLap,
             NEW s \in SimState, c <= k,
             sim' = [tick |-> k, state |-> s, time |-> c, lap |-> l]
      PROVE  /\ SimType'
             /\ sim'.tick = k /\ sim'.time = c /\ sim'.lap = l /\ sim'.state = s
  BY <1>3 DEF SimType
<1>4. ASSUME NEW l \in {sim.lap, sim.lap + 1}, l <= MaxLap, sim.tick < MaxTick, OnTrack' => OnTrack,
             sim' = [sim EXCEPT !.tick = @ + 1, !.time = @ + 1, !.lap = l],
             UNCHANGED <<stint, processed, vars>>
      PROVE  SimType' /\ Moves
  <2>1. sim' = [tick |-> sim.tick + 1, state |-> sim.state, time |-> sim.time + 1, lap |-> l]
    BY <1>1, <1>4
  <2>2. /\ sim.tick + 1 \in 0..MaxTick /\ sim.time + 1 \in 0..MaxTick /\ l \in 0..MaxLap
        /\ sim.time + 1 <= sim.tick + 1 /\ l >= sim.lap
    BY <1>1, <1>2, <1>4
  <2>3. /\ SimType' /\ sim'.tick = sim.tick + 1 /\ sim'.time = sim.time + 1 /\ sim'.lap = l
    BY <1>1, <1>3, <2>1, <2>2
  <2> QED
    BY <1>1, <1>4, <2>2, <2>3 DEF Moves
<1>5. ASSUME NEW s \in SimState, sim' = [sim EXCEPT !.state = s], OnTrack' => OnTrack,
             UNCHANGED <<stint, processed, vars>>
      PROVE  SimType' /\ Moves
  <2>1. sim' = [tick |-> sim.tick, state |-> s, time |-> sim.time, lap |-> sim.lap]
    BY <1>1, <1>5
  <2>2. SimType' /\ sim'.tick = sim.tick /\ sim'.time = sim.time /\ sim'.lap = sim.lap
    BY <1>1, <1>3, <2>1
  <2> QED
    BY <1>1, <1>5, <2>2 DEF Moves
<1>6. ASSUME NEW c \in {0, sim.time + 1}, sim.tick < MaxTick, stint' = stint + 1,
             sim' = [tick |-> sim.tick + 1, state |-> "LIVE", time |-> c, lap |-> 0],
             UNCHANGED <<processed, vars>>
      PROVE  SimType' /\ Moves
  <2>1. /\ sim.tick + 1 \in 0..MaxTick /\ c \in 0..MaxTick /\ 0 \in 0..MaxLap
        /\ c <= sim.tick + 1 /\ "LIVE" \in SimState
    BY <1>1, <1>2, <1>6 DEF SimState
  <2>2. SimType' /\ sim'.tick = sim.tick + 1
    BY <1>3, <1>6, <2>1
  <2> QED
    BY <1>1, <1>6, <2>2 DEF Moves
<1>7. CASE Drive
  <2>1. PICK l \in {sim.lap, sim.lap + 1} :
          l <= MaxLap /\ sim' = [sim EXCEPT !.tick = @ + 1, !.time = @ + 1, !.lap = l]
    BY <1>7 DEF Drive
  <2> QED
    BY <1>4, <1>7, <2>1 DEF Drive, OnTrack
<1>8. CASE Advance
  <2>1. PICK l \in {sim.lap, sim.lap + 1} :
          l <= MaxLap /\ sim' = [sim EXCEPT !.tick = @ + 1, !.time = @ + 1, !.lap = l]
    BY <1>8 DEF Advance
  <2>2. sim'.state = sim.state
    BY <1>1, <2>1
  <2> QED
    BY <1>4, <1>8, <2>1, <2>2 DEF Advance, OnTrack
<1>9. CASE sim.state # "OFF" /\ Switch
  <2>1. PICK s \in {"LIVE", "PAUSED", "REPLAY"} : sim' = [sim EXCEPT !.state = s]
    BY <1>9 DEF Switch
  <2>2. s \in SimState /\ OnTrack
    BY <1>9 DEF SimState, Switch, OnTrack
  <2> QED
    BY <1>5, <1>9, <2>1, <2>2 DEF Switch
<1>10. ASSUME NEW s \in {"MENU", "OFF"}, sim' = [sim EXCEPT !.state = s]
       PROVE  ~OnTrack' /\ s \in SimState
  BY <1>1, <1>10 DEF OnTrack, SimState
<1>11. CASE Leave
  BY <1>5, <1>10, <1>11 DEF Leave
<1>12. CASE StartOrExit
  BY <1>5, <1>10, <1>12 DEF StartOrExit
<1>13. CASE Restart
  BY <1>6, <1>13 DEF Restart
<1>14. CASE GetIn
  BY <1>6, <1>14 DEF GetIn
<1> QED
  BY <1>7, <1>8, <1>9, <1>11, <1>12, <1>13, <1>14

(* A reading is a frame. *)
LEMMA ReadingIsFrame ==
  ASSUME SimType, NEW state \in SimState, NEW t, t = 0 \/ t \in (sim.time - Jitter)..sim.time,
         NEW l \in {sim.lap, 0}
  PROVE  [tick |-> sim.tick, state |-> state, time |-> t, lap |-> l] \in Frame
<1>1. /\ sim.tick \in 0..MaxTick /\ sim.time \in 0..MaxTick /\ sim.lap \in 0..MaxLap
  BY DEF SimType
<1>2. t \in (-Jitter)..MaxTick /\ l \in 0..MaxLap
  BY <1>1, Bounds
<1>3. sim.tick \in Ticks /\ t \in Times /\ l \in Laps
  BY <1>1, <1>2, ReadingsAssumption
<1> QED
  BY <1>3 DEF Frame

(* A call of process() with a frame is a step of the tracker. *)
LEMMA FrameIsNext == ASSUME NEW f \in Frame, Process(f) PROVE Next
BY DEF Next

(* Every step behind a Kunos adapter is such a call, or none. *)
LEMMA SampledTypes ==
  ASSUME SimType, sim.state # "OFF", SampledNext
  PROVE  SimType' /\ sim'.state # "OFF" /\ [Next]_vars
<1>1. /\ sim.tick \in 0..MaxTick /\ sim.time \in 0..MaxTick /\ sim.lap \in 0..MaxLap
      /\ sim.time <= sim.tick /\ sim.state \in SimState
      /\ sim = [tick |-> sim.tick, state |-> sim.state, time |-> sim.time, lap |-> sim.lap]
  BY DEF SimType
<1>2. CASE Drive \/ Switch \/ Leave \/ Restart
  <2>1. SimType' /\ Moves
    BY <1>2, SimMoves
  <2>2. sim'.state # "OFF"
    <3>1. CASE Drive
      BY <1>1, <3>1 DEF Drive
    <3>2. CASE Switch
      BY <1>1, <3>2 DEF Switch
    <3>3. CASE Leave
      BY <1>1, <3>3 DEF Leave
    <3>4. CASE Restart
      BY <3>4 DEF Restart
    <3> QED
      BY <1>2, <3>1, <3>2, <3>3, <3>4
  <2> QED
    BY <2>1, <2>2 DEF Moves
<1>3. CASE Deliver
  <2>1. PICK j \in 0..Jitter : Process([sim EXCEPT !.time = @ - j])
    BY <1>3 DEF Deliver
  <2> DEFINE f == [tick |-> sim.tick, state |-> sim.state, time |-> sim.time - j, lap |-> sim.lap]
  <2>2. [sim EXCEPT !.time = @ - j] = f
    BY <1>1
  <2>3. sim.time - j \in (sim.time - Jitter)..sim.time
    BY <1>1, Bounds
  <2>4. f \in Frame
    BY <1>1, <2>3, ReadingIsFrame
  <2> HIDE DEF f
  <2>5. Next
    BY <2>1, <2>2, <2>4, FrameIsNext
  <2> QED
    BY <1>3, <2>5 DEF Deliver, SimType
<1>4. CASE DeliverReplay
  <2> DEFINE f == [tick |-> sim.tick, state |-> sim.state, time |-> 0, lap |-> 0]
  <2>1. [sim EXCEPT !.time = 0, !.lap = 0] = f
    <3>1. ASSUME NEW g, g = [sim EXCEPT !.time = 0, !.lap = 0] PROVE g = f
      BY <1>1, <3>1
    <3> QED
      BY <3>1
  <2>2. f \in Frame
    BY <1>1, ReadingIsFrame
  <2> HIDE DEF f
  <2>3. Next
    BY <1>4, <2>1, <2>2, FrameIsNext DEF DeliverReplay
  <2> QED
    BY <1>4, <2>3 DEF DeliverReplay, SimType
<1> QED
  BY <1>2, <1>3, <1>4 DEF SampledNext

(* So is every step behind iRacing's. *)
LEMMA IRacingTypes ==
  ASSUME SimType, IRacingNext
  PROVE  SimType' /\ [Next]_vars
<1>1. /\ sim.tick \in 0..MaxTick /\ sim.time \in 0..MaxTick /\ sim.lap \in 0..MaxLap
      /\ sim.time <= sim.tick /\ sim.state \in SimState
      /\ sim = [tick |-> sim.tick, state |-> sim.state, time |-> sim.time, lap |-> sim.lap]
  BY DEF SimType
<1>2. CASE Advance \/ GetIn \/ StartOrExit
           \/ (sim.state # "OFF" /\ (Switch \/ Leave))
  BY <1>2, SimMoves DEF Moves
<1>3. CASE Stall \/ Connect
  BY <1>3 DEF Stall, Connect, sampledVars, SimType
<1>4. CASE Disconnected
  BY <1>4 DEF Disconnected, Next, SimType
<1>5. ASSUME NEW state \in SimState, HandOn(state)
      PROVE  SimType' /\ [Next]_vars
  <2> DEFINE f == [tick |-> sim.tick, state |-> state, time |-> sim.time, lap |-> sim.lap]
  <2>1. [sim EXCEPT !.state = state] = f
    BY <1>1
  <2>2. sim.time \in (sim.time - Jitter)..sim.time
    BY <1>1, Bounds
  <2>3. f \in Frame
    BY <2>2, ReadingIsFrame
  <2> HIDE DEF f
  <2>4. Next
    BY <1>5, <2>1, <2>3, FrameIsNext DEF HandOn
  <2> QED
    BY <1>5, <2>4 DEF HandOn, SimType
<1>6. StateShown \in SimState /\ "PAUSED" \in SimState
  BY <1>1 DEF StateShown, SimState
<1>7. CASE IRacingPoll
  BY <1>5, <1>6, <1>7 DEF IRacingPoll, PollFresh, PollStalled
<1> QED
  BY <1>2, <1>3, <1>4, <1>7 DEF IRacingNext, IRacingSim

-----------------------------------------------------------------------------
(***************************************************************************)
(* No stint is split.                                                      *)
(***************************************************************************)

(* What NoSpuriousSession says of a step. *)
KeepsSession ==
  processed' = processed /\ session_id > 0 /\ sim.state # "MENU" => session_id' = session_id

(* Behind a Kunos adapter that drops replays ... *)
LEMMA SampledKeepsStint ==
  ASSUME SimType, StintInv, sim.state # "OFF", ~config.log_replay, SampledNext
  PROVE  StintInv' /\ KeepsSession
<1>1. /\ sim.tick \in 0..MaxTick /\ sim.time \in 0..MaxTick /\ sim.lap \in 0..MaxLap
      /\ sim.state \in SimState
      /\ sim = [tick |-> sim.tick, state |-> sim.state, time |-> sim.time, lap |-> sim.lap]
  BY SimRecord
<1>2. OnTrack <=> sim.state # "MENU"
  BY DEF OnTrack
<1>3. CASE Drive \/ Switch \/ Leave \/ Restart
  <2>1. SimType' /\ Moves
    BY <1>3, SimMoves
  <2> QED
    BY <2>1, MovesKeepStint DEF Moves, vars, memory, KeepsSession
<1>4. CASE Deliver
  <2>1. PICK j \in 0..Jitter : Process([sim EXCEPT !.time = @ - j])
    BY <1>4 DEF Deliver
  <2> DEFINE f == [sim EXCEPT !.time = @ - j]
  <2>2. f.tick = sim.tick /\ f.lap = sim.lap /\ f.time = sim.time - j /\ f.state = sim.state
    BY <1>1
  <2>3. sim.time - j \in (sim.time - Rewind)..sim.time
    BY <1>1, Bounds
  <2>4. Reading(f)
    BY <2>2, <2>3 DEF Reading
  <2>5. ~IgnoredReplay(f) /\ (OffTrack(f) <=> sim.state = "MENU")
    BY <1>4, <2>2 DEF Deliver, IgnoredReplay, OffTrack
  <2>6. Process(f)
    BY <2>1
  <2> HIDE DEF f
  <2> QED
    BY <1>2, <1>4, <2>4, <2>5, <2>6, ReadingsKeepStint DEF Deliver, KeepsSession
<1>5. CASE DeliverReplay
  <2> DEFINE f == [sim EXCEPT !.time = 0, !.lap = 0]
  <2>1. f.state = "REPLAY"
    BY <1>1, <1>5 DEF DeliverReplay
  <2>2. Process(f)
    BY <1>5 DEF DeliverReplay
  <2> HIDE DEF f
  <2>3. IgnoredReplay(f) /\ ~OffTrack(f)
    BY <2>1 DEF IgnoredReplay, OffTrack
  <2> QED
    BY <1>2, <1>5, <2>2, <2>3, ReadingsKeepStint DEF DeliverReplay, KeepsSession
<1> QED
  BY <1>3, <1>4, <1>5 DEF SampledNext

(* ... and behind iRacing's, whose paused frames are made up. *)
LEMMA IRacingKeepsStint ==
  ASSUME SimType, StintInv, IRacingNext
  PROVE  StintInv' /\ KeepsSession
<1>1. /\ sim.tick \in 0..MaxTick /\ sim.time \in 0..MaxTick /\ sim.lap \in 0..MaxLap
      /\ sim.state \in SimState
      /\ sim = [tick |-> sim.tick, state |-> sim.state, time |-> sim.time, lap |-> sim.lap]
  BY SimRecord
<1>2. CASE Advance \/ GetIn \/ StartOrExit \/ (sim.state # "OFF" /\ (Switch \/ Leave))
  <2>1. SimType' /\ Moves
    BY <1>2, SimMoves
  <2> QED
    BY <2>1, MovesKeepStint DEF Moves, vars, memory, KeepsSession
<1>3. CASE Stall \/ Connect
  BY <1>3 DEF Stall, Connect, sampledVars, vars, memory, StintInv, OnTrack, KeepsSession
<1>4. CASE Disconnected
  <2>1. /\ last' = None /\ session_id' = session_id /\ ~OnTrack
        /\ UNCHANGED <<sim, stint, processed>>
    BY <1>4 DEF Disconnected, SimDisconnected, CloseSession, OnTrack
  <2> QED
    BY <2>1 DEF StintInv, OnTrack, KeepsSession
<1>5. ASSUME NEW state \in {"LIVE", "PAUSED", "REPLAY", "MENU"}, HandOn(state),
             sim.state # "OFF", state = "MENU" => sim.state = "MENU"
      PROVE  StintInv' /\ KeepsSession
  <2> DEFINE f == [sim EXCEPT !.state = state]
  <2>1. f.tick = sim.tick /\ f.lap = sim.lap /\ f.time = sim.time /\ f.state = state
    BY <1>1
  <2>2. sim.time \in (sim.time - Rewind)..sim.time
    BY <1>1, Bounds
  <2>3. Reading(f)
    BY <2>1, <2>2 DEF Reading
  <2>4. OffTrack(f) <=> state = "MENU"
    BY <2>1 DEF OffTrack
  <2>5. /\ Process(f) /\ UNCHANGED <<sim, stint>>
        /\ processed' = IF state = "MENU" \/ IgnoredReplay(f) THEN processed ELSE stint
    BY <1>5 DEF HandOn
  <2> HIDE DEF f
  <2>6. OnTrack <=> sim.state # "MENU"
    BY <1>5 DEF OnTrack
  <2> QED
    BY <1>5, <2>3, <2>4, <2>5, <2>6, ReadingsKeepStint DEF KeepsSession
<1>6. CASE PollFresh
  BY <1>1, <1>5, <1>6 DEF PollFresh, StateShown, SimState
<1>7. CASE PollStalled
  BY <1>5, <1>7 DEF PollStalled
<1> QED
  BY <1>2, <1>3, <1>4, <1>6, <1>7 DEF IRacingNext, IRacingSim, IRacingPoll

-----------------------------------------------------------------------------
(***************************************************************************)
(* The mock's script.                                                      *)
(***************************************************************************)

(* The mock counts its own ticks and never leaves SampledSession's menu.   *)
MockType ==
  /\ scenario \in Scenarios
  /\ mock \in [connected: BOOLEAN, did_reset: BOOLEAN, did_pause: BOOLEAN,
               pause_frames_left: Int, repeat_frames_left: Int]
  /\ sim \in [tick: 0..MaxMockTick, state: {"MENU"}, time: 0..MaxMockTick, lap: Int]
  /\ sim.time <= sim.tick

(* Laps of equal length count up with the clock. *)
LEMMA LapFacts ==
  ASSUME NEW a \in Nat, NEW b \in Nat, a <= b, NEW l \in Nat \ {0}
  PROVE  /\ a \div l \in Nat /\ a \div l <= a
         /\ b \div l \in Nat /\ a \div l <= b \div l
OBVIOUS

(* What a script is, with the assumption on restarts and exits. *)
LEMMA ScenarioFacts ==
  ASSUME scenario \in Scenarios
  PROVE  /\ scenario.lap_seconds \in Nat \ {0} /\ scenario.pause_for \in Nat
         /\ scenario.pause_at \in Nat \cup {None}
         /\ scenario.duplicate_every \in Nat
         /\ scenario.reset_at \in Nat \cup {None} /\ scenario.disconnect_at \in Nat \cup {None}
         /\ scenario.reset_at # None => scenario.reset_at > 3
         /\ scenario.disconnect_at # None => scenario.disconnect_at > 0
<1>1. scenario \in MockScenario
  BY ScenarioAssumption
<1> QED
  BY <1>1, ScenarioAssumption, Bounds DEF MockScenario

(* What a poll of the mock comes to that hands on a given reading.         *)
Polled(tick, time, state) ==
  /\ Process([tick |-> tick, time |-> time, state |-> state,
              lap |-> time \div scenario.lap_seconds])
  /\ sim' = [sim EXCEPT !.tick = tick, !.time = time]
  /\ mock' \in [connected: {TRUE}, did_reset: BOOLEAN, did_pause: BOOLEAN,
                pause_frames_left: Int, repeat_frames_left: Int]
  /\ mock'.did_reset <=> mock.did_reset \/ Resets
  /\ stint' = IF Resets THEN stint + 1 ELSE stint
  /\ UNCHANGED <<scenario, processed>>

(* The frame is one tick and second further, or shows the moment of the    *)
(* one before, in which a reset may have set the clock to 0.               *)
LEMMA MockPolls ==
  ASSUME MockType, MockPoll
  PROVE  \E state \in {"LIVE", "PAUSED"} :
           \/ Polled(sim.tick, TimeAfterReset, state)
           \/ Polled(sim.tick + 1, TimeAfterReset + 1, state) /\ sim.tick < MaxMockTick
<1>1. PauseFrames \in Int
  BY ScenarioFacts DEF PauseFrames, MockType
<1>2. ASSUME NEW tick, NEW time, NEW state, NEW paused \in Int, NEW repeated \in Int,
             Serve(MakeFrame(tick, time, state), paused, repeated)
      PROVE  Polled(tick, time, state)
  <2>1. /\ mock.connected = TRUE
        /\ mock \in [connected: BOOLEAN, did_reset: BOOLEAN, did_pause: BOOLEAN,
                     pause_frames_left: Int, repeat_frames_left: Int]
    BY DEF MockType, MockPoll
  <2>2. mock' = [mock EXCEPT !.did_reset = @ \/ Resets, !.did_pause = @ \/ Freezes,
                   !.pause_frames_left = paused, !.repeat_frames_left = repeated]
    BY <1>2 DEF Serve
  <2>3. /\ (mock.did_reset \/ Resets) \in BOOLEAN /\ (mock.did_pause \/ Freezes) \in BOOLEAN
    OBVIOUS
  <2>4. /\ mock' \in [connected: {TRUE}, did_reset: BOOLEAN, did_pause: BOOLEAN,
                      pause_frames_left: Int, repeat_frames_left: Int]
        /\ mock'.did_reset = (mock.did_reset \/ Resets)
    BY <2>1, <2>2, <2>3
  <2> QED
    BY <1>2, <2>4 DEF Serve, MakeFrame, Polled
<1>3. /\ mock.repeat_frames_left \in Int
      /\ \A n \in Int : n - 1 \in Int
  BY DEF MockType
<1>4. CASE Serve(MakeFrame(sim.tick, TimeAfterReset, "PAUSED"),
                 PauseFrames - 1, mock.repeat_frames_left)
  <2>1. Polled(sim.tick, TimeAfterReset, "PAUSED")
    BY <1>1, <1>2, <1>3, <1>4
  <2> QED
    BY <2>1
<1>5. CASE Serve(MakeFrame(sim.tick, TimeAfterReset, "LIVE"), 0, mock.repeat_frames_left - 1)
  <2>1. Polled(sim.tick, TimeAfterReset, "LIVE")
    BY <1>2, <1>3, <1>5
  <2> QED
    BY <2>1
<1>6. CASE /\ sim.tick < MaxMockTick
           /\ Serve(MakeFrame(sim.tick + 1, TimeAfterReset + 1, "LIVE"),
                    0, IF Repeats(sim.tick + 1) THEN 1 ELSE 0)
  <2>1. Polled(sim.tick + 1, TimeAfterReset + 1, "LIVE")
    BY <1>2, <1>6
  <2> QED
    BY <1>6, <2>1
<1> QED
  BY <1>4, <1>5, <1>6 DEF MockPoll

(* What the mock makes of a reading is a frame. *)
LEMMA MockFrame ==
  ASSUME MockType, NEW tick \in 0..MaxMockTick, NEW time \in 0..MaxMockTick,
         NEW state \in {"LIVE", "PAUSED"}
  PROVE  [tick |-> tick, time |-> time, state |-> state,
          lap |-> time \div scenario.lap_seconds] \in Frame
<1> DEFINE lap == time \div scenario.lap_seconds
<1>1. time \in Nat /\ time <= MaxMockTick /\ scenario.lap_seconds \in Nat \ {0}
      /\ MaxMockTick \in Nat
  BY ScenarioFacts, Bounds DEF MockType
<1>2. lap \in Nat /\ lap <= time
  BY <1>1, LapFacts
<1>3. lap \in 0..MaxMockTick
  BY <1>1, <1>2
<1> HIDE DEF lap
<1>4. tick \in Ticks /\ time \in Times /\ lap \in Laps /\ state \in SimState
  BY <1>3, ReadingsAssumption DEF SimState
<1>5. [tick |-> tick, time |-> time, state |-> state, lap |-> lap] \in Frame
  BY <1>4 DEF Frame
<1> QED
  BY <1>5 DEF lap

(* A poll hands on a reading of the clock as it goes on or starts over.    *)
LEMMA MockReadings ==
  ASSUME MockType, MockPoll
  PROVE  \E tick \in 0..MaxMockTick, time \in 0..MaxMockTick, state \in {"LIVE", "PAUSED"} :
           /\ time <= tick
           /\ Polled(tick, time, state)
           /\ [tick |-> tick, time |-> time, state |-> state,
               lap |-> time \div scenario.lap_seconds] \in Frame
           /\ \/ tick = sim.tick /\ time = TimeAfterReset
              \/ tick = sim.tick + 1 /\ time = TimeAfterReset + 1
<1>1. /\ sim.tick \in 0..MaxMockTick /\ sim.time \in 0..MaxMockTick /\ sim.time <= sim.tick
      /\ MaxMockTick \in Nat
  BY Bounds DEF MockType
<1>2. TimeAfterReset \in 0..MaxMockTick /\ TimeAfterReset <= sim.tick
  BY <1>1 DEF TimeAfterReset
<1>3. PICK state \in {"LIVE", "PAUSED"} :
        \/ Polled(sim.tick, TimeAfterReset, state)
        \/ Polled(sim.tick + 1, TimeAfterReset + 1, state) /\ sim.tick < MaxMockTick
  BY MockPolls
<1>4. CASE Polled(sim.tick, TimeAfterReset, state)
  BY <1>1, <1>2, <1>4, MockFrame
<1>5. CASE Polled(sim.tick + 1, TimeAfterReset + 1, state) /\ sim.tick < MaxMockTick
  <2>1. sim.tick + 1 \in 0..MaxMockTick /\ TimeAfterReset + 1 \in 0..MaxMockTick
        /\ TimeAfterReset + 1 <= sim.tick + 1
    BY <1>1, <1>2, <1>5
  <2> QED
    BY <1>5, <2>1, MockFrame
<1> QED
  BY <1>3, <1>4, <1>5

(* Every step of the mock is one of the tracker's, or none. *)
LEMMA MockTypes ==
  ASSUME MockType, MockNext
  PROVE  MockType' /\ [Next]_vars
<1>1. /\ sim.tick \in 0..MaxMockTick /\ sim.time \in 0..MaxMockTick /\ sim.time <= sim.tick
      /\ sim.state = "MENU" /\ sim.lap \in Int /\ MaxMockTick \in Nat
      /\ sim = [tick |-> sim.tick, state |-> "MENU", time |-> sim.time, lap |-> sim.lap]
  BY Bounds DEF MockType
<1>2. ASSUME NEW tick \in 0..MaxMockTick, NEW time \in 0..MaxMockTick, time <= tick,
             sim' = [sim EXCEPT !.tick = tick, !.time = time]
      PROVE  /\ sim' \in [tick: 0..MaxMockTick, state: {"MENU"}, time: 0..MaxMockTick, lap: Int]
             /\ sim'.time <= sim'.tick
  BY <1>1, <1>2
<1>3. CASE ConnectMock
  <2>1. /\ sim' \in [tick: 0..MaxMockTick, state: {"MENU"}, time: 0..MaxMockTick, lap: Int]
        /\ sim'.time <= sim'.tick
    <3>1. 0 \in 0..MaxMockTick /\ 0 <= 0
      BY <1>1
    <3>2. sim' = [sim EXCEPT !.tick = 0, !.time = 0]
      BY <1>3 DEF ConnectMock
    <3> QED
      BY <1>2, <3>1, <3>2
  <2> QED
    BY <1>3, <2>1 DEF ConnectMock, Attached, MockType
<1>4. CASE MockExits
  <2>1. mock' \in [connected: BOOLEAN, did_reset: BOOLEAN, did_pause: BOOLEAN,
                   pause_frames_left: Int, repeat_frames_left: Int]
    BY <1>4 DEF MockExits, MockType
  <2> QED
    BY <1>4, <2>1 DEF MockExits, MockType, Next
<1>5. CASE MockPoll
  <2>1. PICK tick \in 0..MaxMockTick, time \in 0..MaxMockTick, state \in {"LIVE", "PAUSED"} :
          /\ time <= tick
          /\ Polled(tick, time, state)
          /\ [tick |-> tick, time |-> time, state |-> state,
              lap |-> time \div scenario.lap_seconds] \in Frame
    BY <1>5, MockReadings
  <2>2. /\ sim' \in [tick: 0..MaxMockTick, state: {"MENU"}, time: 0..MaxMockTick, lap: Int]
        /\ sim'.time <= sim'.tick
    BY <1>2, <2>1 DEF Polled
  <2>3. MockType'
    BY <2>1, <2>2 DEF Polled, MockType
  <2>4. Next
    BY <2>1, FrameIsNext DEF Polled
  <2> QED
    BY <2>3, <2>4
<1> QED
  BY <1>3, <1>4, <1>5 DEF MockNext

(* No frame of a stint that began with the connection has been handed on.  *)
Fresh ==
  /\ ~mock.did_reset /\ sim.time = 0
  /\ ~session_open /\ last = None /\ out = None
  /\ session_id = stint - 1

(* The tracker is in the stint's session, and remembers this very moment.  *)
Synced ==
  /\ session_open /\ session_id = stint
  /\ last # None
  /\ last.tick = sim.tick /\ last.time = sim.time
  /\ last.lap = sim.time \div scenario.lap_seconds
  /\ out # None => out.session_id = stint

(* The reset's frames are still taken for repetitions of the one before,   *)
(* from which their clock is far enough to be recognised.                  *)
Pending ==
  /\ mock.did_reset /\ sim.time = 0
  /\ session_open /\ session_id = stint - 1 /\ out = None
  /\ last # None /\ last.tick = sim.tick
  /\ last.time \in Int /\ last.time > Rewind + 1 /\ last.lap \in Int

Closed == ~session_open /\ last = None /\ out = None /\ session_id = stint

(* Why SessionsAsScripted holds. *)
ScriptInv ==
  /\ stint \in Nat
  /\ mock.connected => Fresh \/ Synced \/ Pending
  /\ ~mock.connected => Closed

(* A poll keeps to the script. *)
LEMMA PollKeepsScript ==
  ASSUME MockType, ScriptInv, MockPoll
  PROVE  ScriptInv'
<1>1. /\ sim.tick \in 0..MaxMockTick /\ sim.time \in 0..MaxMockTick /\ sim.state = "MENU"
      /\ sim = [tick |-> sim.tick, state |-> "MENU", time |-> sim.time, lap |-> sim.lap]
  BY DEF MockType
<1>2. PICK tick \in 0..MaxMockTick, time \in 0..MaxMockTick, state \in {"LIVE", "PAUSED"} :
        /\ Polled(tick, time, state)
        /\ [tick |-> tick, time |-> time, state |-> state,
            lap |-> time \div scenario.lap_seconds] \in Frame
        /\ \/ tick = sim.tick /\ time = TimeAfterReset
           \/ tick = sim.tick + 1 /\ time = TimeAfterReset + 1
  BY MockReadings
<1>3. /\ sim'.tick = tick /\ sim'.time = time
      /\ mock'.connected /\ (mock'.did_reset <=> mock.did_reset \/ Resets)
      /\ stint' = IF Resets THEN stint + 1 ELSE stint
      /\ scenario' = scenario
  BY <1>1, <1>2 DEF Polled
<1> DEFINE lap == time \div scenario.lap_seconds
           f == [tick |-> tick, time |-> time, state |-> state, lap |-> lap]
<1>4. scenario.lap_seconds \in Nat \ {0}
  BY ScenarioFacts DEF MockType
<1>5. lap \in Int /\ (sim.time <= time => sim.time \div scenario.lap_seconds <= lap)
  BY <1>1, <1>4, LapFacts
<1>6. sim.time \div scenario.lap_seconds \in Int
  BY <1>1, <1>4, LapFacts
<1>7. f.tick = tick /\ f.time = time /\ f.lap = lap /\ Process(f)
  BY <1>2 DEF Polled
<1>8. ~OffTrack(f) /\ ~IgnoredReplay(f)
  BY DEF OffTrack, IgnoredReplay
<1>9. lap = sim'.time \div scenario'.lap_seconds
  BY <1>3
<1>10. Resets => sim.time > Rewind + 1
  <2>1. /\ scenario.reset_at \in Nat \cup {None}
        /\ scenario.reset_at # None => scenario.reset_at > 3
    BY ScenarioFacts DEF MockType
  <2> QED
    BY <1>1, <2>1, Bounds DEF Resets, Reached
<1>11. stint \in Nat /\ stint' \in Nat /\ (Resets => stint' = stint + 1) /\ (~Resets => stint' = stint)
  BY <1>3 DEF ScriptInv
<1>12. f \in Frame
  BY <1>2
<1> HIDE DEF lap, f
<1>13. CASE IsDuplicate(f) /\ UNCHANGED <<session_id, last, session_open>> /\ out' = None
  <2>1. last # None /\ tick = last.tick /\ last.tick = sim.tick /\ ~Fresh
    BY <1>3, <1>7, <1>13 DEF IsDuplicate, Fresh, Synced, Pending, ScriptInv, MockPoll
  <2>2. tick = sim.tick /\ time = TimeAfterReset
    BY <1>1, <1>2, <2>1
  <2>3. CASE Synced /\ ~Resets
    <3>1. Synced'
      BY <1>3, <1>13, <2>2, <2>3 DEF Synced, TimeAfterReset
    <3> QED
      BY <1>3, <2>3, <3>1 DEF ScriptInv
  <2>4. CASE Synced /\ Resets
    <3>1. last.time > Rewind + 1 /\ last.time \in Int /\ last.lap \in Int
      BY <1>1, <1>6, <1>10, <2>4 DEF Synced
    <3>2. Pending'
      BY <1>3, <1>13, <1>11, <2>1, <2>2, <2>4, <3>1 DEF Synced, Pending, TimeAfterReset
    <3> QED
      BY <1>3, <1>11, <2>4, <3>2 DEF ScriptInv
  <2>5. CASE Pending
    <3>1. ~Resets /\ Pending'
      BY <1>3, <1>13, <2>2, <2>5 DEF Pending, TimeAfterReset, Resets
    <3> QED
      BY <1>3, <2>5, <3>1 DEF ScriptInv
  <2> QED
    BY <2>1, <2>3, <2>4, <2>5 DEF ScriptInv, MockPoll
<1>14. CASE /\ last' = [tick |-> f.tick, time |-> f.time, lap |-> f.lap]
            /\ session_open' /\ session_id' = NextSessionId(f)
            /\ out' # None => out'.session_id = NextSessionId(f)
  <2>1. NextSessionId(f) = stint'
    <3>1. CASE Fresh
      <4>1. ~Resets /\ IsReset(f)
        BY <1>1, <1>10, <3>1, Bounds DEF Fresh, IsReset
      <4> QED
        BY <1>3, <1>11, <3>1, <4>1 DEF Fresh, NextSessionId
    <3>2. CASE Synced /\ ~Resets
      <4>1. time \in Int /\ time >= sim.time
        BY <1>1, <1>2, <3>2 DEF TimeAfterReset
      <4>2. ~(f.time < last.time - Rewind) /\ ~(f.lap < last.lap)
        BY <1>1, <1>5, <1>6, <1>7, <3>2, <4>1, Bounds DEF Synced
      <4> QED
        BY <1>3, <3>2, <4>2 DEF Synced, IsReset, NextSessionId
    <3>3. CASE Synced /\ Resets
      <4>1. time \in Int /\ time <= 1
        BY <1>2, <3>3 DEF TimeAfterReset
      <4>2. f.time < last.time - Rewind
        BY <1>1, <1>7, <1>10, <3>3, <4>1, Bounds DEF Synced
      <4> QED
        BY <1>3, <3>3, <4>2 DEF Synced, IsReset, NextSessionId
    <3>4. CASE Pending
      <4>1. ~Resets /\ time \in Int /\ time <= 1
        BY <1>2, <3>4 DEF TimeAfterReset, Pending, Resets
      <4>2. f.time < last.time - Rewind
        BY <1>7, <3>4, <4>1, Bounds DEF Pending
      <4> QED
        BY <1>3, <1>11, <3>4, <4>1, <4>2 DEF Pending, IsReset, NextSessionId
    <3> QED
      BY <3>1, <3>2, <3>3, <3>4 DEF ScriptInv, MockPoll
  <2>2. last'.tick = tick /\ last'.time = time /\ last'.lap = lap /\ last' # None
    <3>1. last' \in Sample
      BY <1>14, <1>12, FrameTypes DEF Sample
    <3> QED
      BY <1>7, <1>14, <3>1, TrackerAssumption
  <2>3. Synced'
    BY <1>3, <1>9, <1>14, <2>1, <2>2 DEF Synced
  <2> QED
    BY <1>3, <1>11, <2>3 DEF ScriptInv
<1> QED
  BY <1>7, <1>8, <1>13, <1>14, Outcomes

(* So do a connection and the scripted exit. *)
LEMMA ScriptNext ==
  ASSUME MockType, ScriptInv, MockNext
  PROVE  ScriptInv'
<1>1. CASE ConnectMock
  <2>1. UNCHANGED <<session_id, session_open, last, out>>
    BY <1>1 DEF ConnectMock, vars, memory
  <2>2. /\ mock'.connected /\ ~mock'.did_reset /\ stint' = stint + 1
        /\ Closed
    BY <1>1 DEF ConnectMock, Attached, ScriptInv
  <2>3. sim'.time = 0
    BY <1>1 DEF ConnectMock, MockType
  <2>4. Fresh'
    BY <2>1, <2>2, <2>3 DEF Fresh, Closed, ScriptInv
  <2> QED
    BY <2>2, <2>4 DEF ScriptInv
<1>2. CASE MockExits
  <2>1. sim.time > 0
    BY <1>2, ScenarioFacts DEF MockExits, Reached, MockType
  <2>2. Synced
    BY <1>2, <2>1 DEF MockExits, ScriptInv, Fresh, Pending
  <2>3. ~mock'.connected /\ stint' = stint
    BY <1>2 DEF MockExits, MockType
  <2>4. Closed'
    BY <1>2, <2>2 DEF MockExits, SimDisconnected, CloseSession, ReturnNone, Synced, Closed
  <2> QED
    BY <2>3, <2>4 DEF ScriptInv
<1> QED
  BY <1>1, <1>2, PollKeepsScript DEF MockNext

-----------------------------------------------------------------------------
(***************************************************************************)
(* The theorems.                                                           *)
(***************************************************************************)

(* Each source has its simulator, and the mock connects only if configured.*)
AdapterInv ==
  /\ source \in {"kunos", "iracing", "mock"}
  /\ source # "mock" => SimType /\ ~mock.connected
  /\ source = "kunos" => sim.state # "OFF"
  /\ source = "mock" => MockType /\ ScriptInv

(* At the start nothing is connected. *)
LEMMA AdapterInvInit == AdapterInit => AdapterInv
<1> SUFFICES ASSUME AdapterInit PROVE AdapterInv
  OBVIOUS
<1>1. /\ sim = [tick |-> 0, state |-> "MENU", time |-> 0, lap |-> 0]
      /\ stint = 0 /\ session_id = 0 /\ ~session_open /\ last = None /\ out = None
      /\ source \in {"kunos", "iracing", "mock"}
      /\ scenario \in Scenarios
      /\ mock = [Attached EXCEPT !.connected = FALSE]
  BY DEF AdapterInit, SampledInit, Init, MockInit
<1>2. MaxTick \in Nat /\ MaxMockTick \in Nat /\ MaxLap \in Nat
  BY Bounds
<1>3. SimType /\ sim.state # "OFF"
  BY <1>1, <1>2 DEF SimType, SimState
<1>4. mock = [connected |-> FALSE, did_reset |-> FALSE, did_pause |-> FALSE,
              pause_frames_left |-> 0, repeat_frames_left |-> 0]
  BY <1>1 DEF Attached
<1>5. MockType
  <2>1. /\ sim \in [tick: 0..MaxMockTick, state: {"MENU"}, time: 0..MaxMockTick, lap: Int]
        /\ sim.time <= sim.tick
    BY <1>1, <1>2
  <2>2. mock \in [connected: BOOLEAN, did_reset: BOOLEAN, did_pause: BOOLEAN,
                  pause_frames_left: Int, repeat_frames_left: Int]
    BY <1>4
  <2> QED
    BY <1>1, <2>1, <2>2 DEF MockType
<1>6. ScriptInv /\ ~mock.connected
  BY <1>1, <1>4 DEF ScriptInv, Closed
<1> QED
  BY <1>1, <1>3, <1>5, <1>6 DEF AdapterInv

(* Every step keeps the invariant, and is one of the tracker's or none.    *)
LEMMA AdapterInvNext ==
  ASSUME AdapterInv, [AdapterNext]_adapterVars
  PROVE  AdapterInv' /\ [Next]_vars
<1>1. CASE source = "kunos" /\ SampledNext /\ UNCHANGED <<irVars, mockVars, source>>
  BY <1>1, SampledTypes DEF AdapterInv, mockVars
<1>2. CASE source = "iracing" /\ IRacingNext /\ UNCHANGED <<mockVars, source>>
  BY <1>2, IRacingTypes DEF AdapterInv, mockVars
<1>3. CASE source = "mock" /\ MockNext /\ UNCHANGED <<irVars, source>>
  BY <1>3, MockTypes, ScriptNext DEF AdapterInv
<1>4. CASE UNCHANGED adapterVars
  <2>1. UNCHANGED <<vars, sim, stint, mock, scenario, source,
                    session_id, session_open, last, out>>
    BY <1>4 DEF adapterVars, sampledVars, mockVars, vars, memory
  <2>2. SimType' = SimType /\ MockType' = MockType
    BY <2>1 DEF SimType, MockType
  <2>3. ScriptInv' = ScriptInv
    BY <2>1 DEF ScriptInv, Fresh, Synced, Pending, Closed
  <2> QED
    BY <2>1, <2>2, <2>3 DEF AdapterInv
<1> QED
  BY <1>1, <1>2, <1>3, <1>4 DEF AdapterNext

(* So the invariant holds throughout. *)
LEMMA AdapterInvariance == AdapterSpec => []AdapterInv
<1>1. AdapterInv /\ [AdapterNext]_adapterVars => AdapterInv'
  BY AdapterInvNext
<1> QED
  BY <1>1, AdapterInvInit, PTL DEF AdapterSpec

(* Behind every adapter the tracker is the one of SessionTracker: what a   *)
(* simulator can show is among the frames it is proved correct for, so all *)
(* that is proved of Spec holds of AdapterSpec.                            *)
THEOREM AdaptersFeedTheTracker == AdapterSpec => Spec
<1>1. AdapterInit => Init
  BY DEF AdapterInit, SampledInit
<1>2. AdapterInv /\ [AdapterNext]_adapterVars => [Next]_vars
  BY AdapterInvNext
<1> QED
  BY <1>1, <1>2, AdapterInvariance, PTL DEF AdapterSpec, Spec

(* Whatever the mock's script, every reset and every connection is one     *)
(* session of the tracker, and pauses and repeated frames begin none.      *)
THEOREM MockKeepsToItsScript == AdapterSpec => []SessionsAsScripted
<1>1. AdapterInv => SessionsAsScripted
  BY DEF AdapterInv, ScriptInv, Fresh, Synced, Pending, SessionsAsScripted
<1> QED
  BY <1>1, AdapterInvariance, PTL

(* The replays of a Kunos sim are dropped, as they are by default. *)
DropsReplays == source = "kunos" => ~config.log_replay

(* The mock reports stints in SampledSession's menu: they are not of this. *)
AtStint == source # "mock" => StintInv

(* The stint's invariant is kept, and with it the session. *)
LEMMA StintInvNext ==
  ASSUME AdapterInv, DropsReplays, AtStint, [AdapterNext]_adapterVars
  PROVE  /\ DropsReplays' /\ AtStint'
         /\ [KeepsSession]_sampledVars
<1>1. UNCHANGED <<config, source>>
  <2>1. UNCHANGED config
    BY AdapterInvNext DEF Next, Process, SimDisconnected, vars
  <2> QED
    BY <2>1 DEF AdapterNext, adapterVars
<1>2. CASE source = "kunos" /\ SampledNext
  BY <1>1, <1>2, SampledKeepsStint DEF AdapterInv, DropsReplays, AtStint
<1>3. CASE source = "iracing" /\ IRacingNext
  BY <1>1, <1>3, IRacingKeepsStint DEF AdapterInv, DropsReplays, AtStint
<1>4. CASE source = "mock" /\ MockNext
  BY <1>1, <1>4 DEF AdapterInv, MockType, DropsReplays, AtStint, KeepsSession
<1>5. CASE UNCHANGED adapterVars
  <2>1. UNCHANGED <<sampledVars, sim, stint, processed, last, session_id, session_open>>
    BY <1>5 DEF adapterVars, sampledVars, vars, memory
  <2>2. StintInv' = StintInv
    BY <2>1 DEF StintInv, OnTrack
  <2> QED
    BY <1>1, <2>1, <2>2 DEF DropsReplays, AtStint
<1> QED
  BY <1>2, <1>3, <1>4, <1>5 DEF AdapterNext

(* No stint is split into two sessions: not by pauses, replays, lost       *)
(* frames, repeated frames, a stalled connection or a clock that lags by   *)
(* no more than the threshold.  Of the simulators whose replays show       *)
(* another clock, that takes the default of dropping them.                 *)
THEOREM NoStintIsSplit == AdapterSpec /\ DropsReplays => NoSpuriousSession
<1>1. AdapterInit => AtStint
  BY DEF AdapterInit, SampledInit, Init, StintInv, AtStint
<1>2. AdapterInv /\ DropsReplays /\ AtStint /\ [AdapterNext]_adapterVars
        => DropsReplays' /\ AtStint'
  BY StintInvNext
<1>3. AdapterInv /\ DropsReplays /\ AtStint /\ [AdapterNext]_adapterVars
        => [processed' = processed /\ session_id > 0 /\ sim.state # "MENU"
              => session_id' = session_id]_sampledVars
  BY StintInvNext DEF KeepsSession
<1> QED
  BY <1>1, <1>2, <1>3, AdapterInvariance, PTL DEF AdapterSpec, NoSpuriousSession
=============================================================================

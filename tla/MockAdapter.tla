----------------------------- MODULE MockAdapter -----------------------------
(***************************************************************************)
(* The mock adapter (telemetry_bridge/adapters/mock.py) in front of the    *)
(* session tracker: what it scripts is what the tracker reports.           *)
(*                                                                         *)
(* It generates one frame a second (rate_hz = 1), so seconds count frames. *)
(* sim holds _tick and _session_time; a stint is a connection, or what     *)
(* follows a reset in one.                                                 *)
(***************************************************************************)
EXTENDS SampledSession

CONSTANTS
  Scenarios,    (* the scripts considered                                   *)
  MaxMockTick   (* bound: how many ticks it generates in a connection       *)

(* MockScenario; None where nothing is scripted, 0 for no duplicates. *)
MockScenario ==
  [lap_seconds: Nat \ {0}, pause_at: Nat \cup {None}, pause_for: Nat,
   reset_at: Nat \cup {None}, duplicate_every: Nat, disconnect_at: Nat \cup {None}]

(* A restart the tracker can see rewinds the clock by more than its        *)
(* threshold, and there is a frame before the sim exits.                   *)
ASSUME ScenarioAssumption ==
  \A s \in Scenarios :
    /\ s \in MockScenario
    /\ s.reset_at # None => s.reset_at > Rewind + 1
    /\ s.disconnect_at # None => s.disconnect_at > 0

VARIABLES
  scenario,
  mock    (* _connected, _did_reset, _did_pause and the frames left of a    *)
          (* pause and of a repetition                                      *)

mockVars == <<scenario, mock>>

-----------------------------------------------------------------------------
Attached ==
  [connected |-> TRUE, did_reset |-> FALSE, did_pause |-> FALSE,
   pause_frames_left |-> 0, repeat_frames_left |-> 0]

ConnectMock ==
  /\ ~mock.connected
  /\ stint < MaxStints
  /\ mock' = Attached
  /\ sim' = [sim EXCEPT !.tick = 0, !.time = 0]
  /\ stint' = stint + 1
  /\ UNCHANGED <<vars, processed, scenario>>

Reached(t) == t # None /\ sim.time >= t

MockExits ==
  /\ mock.connected
  /\ Reached(scenario.disconnect_at)
  /\ mock' = [mock EXCEPT !.connected = FALSE]
  /\ SimDisconnected
  /\ UNCHANGED <<sim, stint, processed, scenario>>

(* The one-shot events that are due at this poll. *)
Resets == ~mock.did_reset /\ Reached(scenario.reset_at)

TimeAfterReset == IF Resets THEN 0 ELSE sim.time

Freezes ==
  /\ ~mock.did_pause
  /\ scenario.pause_at # None
  /\ TimeAfterReset >= scenario.pause_at

PauseFrames ==
  IF ~Freezes THEN mock.pause_frames_left
  ELSE IF scenario.pause_for > 0 THEN scenario.pause_for ELSE 1

Repeats(tick) ==
  scenario.duplicate_every > 0 /\ tick % scenario.duplicate_every = 0

(* _make_frame *)
MakeFrame(tick, time, state) ==
  [tick |-> tick, time |-> time, state |-> state, lap |-> time \div scenario.lap_seconds]

(* The frame of this poll, and how many frames are left of either kind. *)
Serve(frame, paused, repeated) ==
  /\ Process(frame)
  /\ sim' = [sim EXCEPT !.tick = frame.tick, !.time = frame.time]
  /\ mock' = [mock EXCEPT !.did_reset = @ \/ Resets, !.did_pause = @ \/ Freezes,
                !.pause_frames_left = paused, !.repeat_frames_left = repeated]
  /\ stint' = IF Resets THEN stint + 1 ELSE stint
  /\ UNCHANGED <<processed, scenario>>

MockPoll ==
  /\ mock.connected
  /\ ~Reached(scenario.disconnect_at)
  /\ stint < MaxSessions
  /\ \/ /\ PauseFrames > 0
        /\ Serve(MakeFrame(sim.tick, TimeAfterReset, "PAUSED"),
                 PauseFrames - 1, mock.repeat_frames_left)
     \/ /\ PauseFrames = 0 /\ mock.repeat_frames_left > 0
        /\ Serve(MakeFrame(sim.tick, TimeAfterReset, "LIVE"),
                 0, mock.repeat_frames_left - 1)
     \/ /\ PauseFrames = 0 /\ mock.repeat_frames_left = 0
        /\ sim.tick < MaxMockTick
        /\ Serve(MakeFrame(sim.tick + 1, TimeAfterReset + 1, "LIVE"),
                 0, IF Repeats(sim.tick + 1) THEN 1 ELSE 0)

-----------------------------------------------------------------------------
MockInit ==
  /\ scenario \in Scenarios
  /\ mock = [Attached EXCEPT !.connected = FALSE]

MockNext == ConnectMock \/ MockExits \/ MockPoll

(* As many sessions come out as are scripted: pauses and repeated frames   *)
(* begin none, every reset and every connection begins one.                *)
SessionsAsScripted ==
  mock.connected /\ out # None => session_id = stint /\ out.session_id = stint
=============================================================================

--------------------------- MODULE IRacingAdapter ---------------------------
(***************************************************************************)
(* The iRacing adapter (telemetry_bridge/adapters/iracing.py) between its  *)
(* simulator and the session tracker.                                      *)
(*                                                                         *)
(* iRacing has no pause flag: a tick that stands still is taken for a      *)
(* pause.  The simulator (external) is that of SampledSession with these   *)
(* differences: tick and clock go on in the menu and in a replay, the      *)
(* clock goes on from one stint to the next, and any state may hang.       *)
(***************************************************************************)
EXTENDS SampledSession

VARIABLES
  connected,  (* _ir is set                                                 *)
  last_tick,  (* _last_tick                                                 *)
  stalled     (* _last_advance is more than pause_after_s ago               *)

irVars == <<connected, last_tick, stalled>>

-----------------------------------------------------------------------------
(* The simulator. *)
Advance ==
  /\ sim.state \in {"LIVE", "REPLAY", "MENU"}
  /\ sim.tick < MaxTick
  /\ \E lap \in {sim.lap, sim.lap + 1} :
       /\ lap <= MaxLap
       /\ lap = sim.lap \/ sim.state = "LIVE"
       /\ sim' = [sim EXCEPT !.tick = @ + 1, !.time = @ + 1, !.lap = lap]
  /\ UNCHANGED <<stint, processed, vars>>

(* The driver gets in the car: a stint begins, the session's clock goes on. *)
GetIn ==
  /\ sim.state = "MENU"
  /\ stint < MaxStints
  /\ sim.tick < MaxTick
  /\ sim' = [tick |-> sim.tick + 1, state |-> "LIVE", time |-> sim.time + 1, lap |-> 0]
  /\ stint' = stint + 1
  /\ UNCHANGED <<processed, vars>>

StartOrExit ==
  /\ sim.state \in {"OFF", "MENU"}
  /\ sim' = [sim EXCEPT !.state = IF @ = "OFF" THEN "MENU" ELSE "OFF"]
  /\ UNCHANGED <<stint, processed, vars>>

(* Time passes and the tick stands still, in a pause or as the sim hangs.  *)
Stall ==
  /\ connected /\ ~stalled
  /\ sim.tick = last_tick
  /\ stalled' = TRUE
  /\ UNCHANGED <<connected, last_tick, sampledVars>>

-----------------------------------------------------------------------------
Connect ==
  /\ ~connected
  /\ sim.state # "OFF"
  /\ connected' = TRUE /\ last_tick' = None /\ stalled' = FALSE
  /\ UNCHANGED sampledVars

(* poll() raises: the adapter is closed and the tracker told. *)
Disconnected ==
  /\ connected
  /\ sim.state = "OFF"
  /\ connected' = FALSE
  /\ SimDisconnected
  /\ UNCHANGED <<sim, stint, processed, last_tick, stalled>>

(* _build_frame: nothing in shared memory says that the sim is paused. *)
StateShown == IF sim.state = "PAUSED" THEN "LIVE" ELSE sim.state

(* A frame is handed on as _build_frame's, which shows the given state. *)
HandOn(state) ==
  /\ Process([sim EXCEPT !.state = state])
  /\ processed' = IF state = "MENU" \/ IgnoredReplay([sim EXCEPT !.state = state])
                  THEN processed ELSE stint
  /\ UNCHANGED <<sim, stint>>

PollFresh ==
  /\ connected /\ sim.state # "OFF"
  /\ sim.tick # last_tick
  /\ last_tick' = sim.tick /\ stalled' = FALSE
  /\ HandOn(StateShown)
  /\ UNCHANGED connected

(* No new tick: None at first (no step), a paused frame after a long stall. *)
PollStalledAsShown ==
  /\ connected /\ sim.state # "OFF"
  /\ sim.tick = last_tick /\ stalled
  /\ HandOn(StateShown)
  /\ UNCHANGED irVars
PollStalled ==
  /\ connected /\ sim.state # "OFF"
  /\ sim.tick = last_tick /\ stalled
  /\ HandOn("PAUSED")
  /\ UNCHANGED irVars

-----------------------------------------------------------------------------
IRacingInit == connected = FALSE /\ last_tick = None /\ stalled = FALSE

IRacingSim ==
  /\ \/ Advance \/ GetIn \/ StartOrExit
     \/ sim.state # "OFF" /\ (Switch \/ Leave)
  /\ UNCHANGED irVars

IRacingPoll == PollFresh \/ PollStalled

IRacingNext == IRacingSim \/ Stall \/ Connect \/ Disconnected \/ IRacingPoll

(* A pause that lasts reaches the tracker, though poll() first takes the   *)
(* frozen tick of a sim that was paused when it connected for a live one.  *)
PauseLasts == connected /\ sim.state = "PAUSED" /\ session_id < MaxSessions
PauseSurfaces == <>[]PauseLasts => <>[](last_state = "PAUSED")
=============================================================================

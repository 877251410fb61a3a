--------------------------- MODULE SessionTracker ---------------------------
(***************************************************************************)
(* The session and lap state machine of telemetry_bridge/session.py.       *)
(*                                                                         *)
(* The tracker runs on the asyncio loop and is fed one raw frame at a time *)
(* (process) or told that the adapter disconnected (sim_disconnected).     *)
(* Nothing is assumed of the order of the frames: ticks, clocks and laps   *)
(* may repeat, skip and rewind, as they do when the ingest queue drops     *)
(* frames, when a sim restarts and when it is paused.                      *)
(*                                                                         *)
(* session_time is in whole seconds.  A session id (sim name and uuid in   *)
(* the code) is the number of the session; 0 is the empty string.          *)
(***************************************************************************)
EXTENDS Integers

CONSTANTS
  Ticks,        (* values of the sim's tick counter                         *)
  Times,        (* values of the sim's session clock                        *)
  Laps,         (* values of the sim's lap counter                          *)
  Configs,      (* the SessionTrackerConfig values considered               *)
  MaxSessions,  (* bound: how many session ids are ever generated           *)
  None          (* Python's None                                            *)

SimState == {"OFF", "MENU", "LIVE", "PAUSED", "REPLAY"}

SessionTrackerConfig == [log_replay: BOOLEAN, log_paused: BOOLEAN]

Event == {"session_end", "session_start", "paused", "resumed", "lap_complete"}

(* What the tracker reads of a TelemetryFrame; the rest passes through. *)
Frame == [tick: Ticks, state: SimState, time: Times, lap: Laps]

(* What _remember keeps of a frame, apart from its state. *)
Sample == [tick: Ticks, time: Times, lap: Laps]

TaggedFrame ==
  [frame: Frame, session_id: Nat \ {0}, lap_id: Int, events: SUBSET Event]

(* What the history of the model keeps of a frame passed on. *)
Row == [tick: Ticks, state: SimState, session_id: Nat \ {0}, lap_id: Int]

ASSUME TrackerAssumption ==
  /\ Ticks \subseteq Int
  /\ Times \subseteq Int
  /\ Laps \subseteq Int
  /\ Configs \subseteq SessionTrackerConfig
  /\ MaxSessions \in Nat
  /\ None \notin Sample \cup TaggedFrame \cup Row

(* _SESSION_TIME_REWIND_S *)
Rewind == 2

VARIABLES
  config,        (* the configuration: chosen once                          *)
  session_id,
  lap_id,
  last,          (* _last_tick, _last_session_time and _last_lap, or None   *)
  last_state,
  session_open,
  out,           (* what the latest call returned                           *)
  shown,         (* history: what consumers last saw, or None               *)
  replay_cut     (* history: a replay frame was dropped since then          *)

memory == <<session_id, lap_id, last, last_state, session_open>>
vars == <<config, memory, out, shown, replay_cut>>

-----------------------------------------------------------------------------
(***************************************************************************)
(* The conditions process() branches on.                                   *)
(***************************************************************************)
OffTrack(f) == f.state \in {"OFF", "MENU"}

IgnoredReplay(f) == f.state = "REPLAY" /\ ~config.log_replay

(* Same tick, but only if the coarse state is unchanged too: a sim's tick  *)
(* counter freezes while it is paused.                                     *)
DuplicateByTickAlone(f) == last # None /\ f.tick = last.tick
IsDuplicate(f) ==
  /\ last # None
  /\ f.tick = last.tick
  /\ f.state = last_state

IsResetOnAnyRewind(f) ==
  \/ ~session_open
  \/ last # None /\ (f.time < last.time \/ f.lap < last.lap)
IsReset(f) ==
  \/ ~session_open
  \/ last # None /\ (f.time < last.time - Rewind \/ f.lap < last.lap)

PausesOnLiveOnly(f) == f.state = "PAUSED" /\ last_state = "LIVE"
Pauses(f) == f.state = "PAUSED" /\ last_state # "PAUSED"
Resumes(f) == f.state # "PAUSED" /\ last_state = "PAUSED"

CompletesLap(f) == ~IsReset(f) /\ last # None /\ f.lap > last.lap

(* Paused frames surface only as the transition, unless they are wanted. *)
IsQuietInAnySession(f) == f.state = "PAUSED" /\ ~config.log_paused
IsQuiet(f) == f.state = "PAUSED" /\ ~config.log_paused /\ ~IsReset(f)

EventsOf(f) ==
  {e \in Event :
     \/ e = "session_end"   /\ IsReset(f) /\ session_open
     \/ e = "session_start" /\ IsReset(f)
     \/ e = "paused"        /\ Pauses(f)
     \/ e = "resumed"       /\ Resumes(f)
     \/ e = "lap_complete"  /\ CompletesLap(f)}

NextLapIdByOne(f) ==
  IF IsReset(f) THEN f.lap
  ELSE IF CompletesLap(f) THEN lap_id + 1 ELSE lap_id
(* A skipped lap count advances the lap id by as much. *)
NextLapId(f) ==
  IF IsReset(f) THEN f.lap
  ELSE IF CompletesLap(f) THEN lap_id + (f.lap - last.lap) ELSE lap_id

NextSessionId(f) == IF IsReset(f) THEN session_id + 1 ELSE session_id

-----------------------------------------------------------------------------
(***************************************************************************)
(* Results.  shown and replay_cut are history: they guard nothing.         *)
(***************************************************************************)
ReturnNone ==
  /\ out' = None
  /\ UNCHANGED shown

Return(f, id, lap, events) ==
  /\ out' = [frame |-> f, session_id |-> id, lap_id |-> lap, events |-> events]
  /\ shown' = [tick |-> f.tick, state |-> f.state, session_id |-> id, lap_id |-> lap]

(* _remember *)
RememberStateOnly(f) == last_state' = f.state /\ UNCHANGED last
Remember(f) ==
  /\ last' = [tick |-> f.tick, time |-> f.time, lap |-> f.lap]
  /\ last_state' = f.state

(* _close_session; the caller may set _last_state once more. *)
CloseSessionKeepingMemory(state) ==
  /\ session_open' = FALSE
  /\ last_state' = state
  /\ UNCHANGED last
CloseSession(state) ==
  /\ session_open' = FALSE
  /\ last' = None
  /\ last_state' = state

-----------------------------------------------------------------------------
(***************************************************************************)
(* process(): one action for each way it returns, in the order of the      *)
(* code's tests.                                                           *)
(***************************************************************************)
LeaveTrack(f) ==
  /\ OffTrack(f)
  /\ \/ session_open /\ CloseSession(f.state)
     \/ ~session_open /\ last_state' = f.state /\ UNCHANGED <<session_open, last>>
  /\ ReturnNone
  /\ UNCHANGED <<session_id, lap_id, replay_cut>>

DropReplay(f) ==
  /\ IgnoredReplay(f)
  /\ last_state' = f.state
  /\ ReturnNone
  /\ replay_cut' = TRUE
  /\ UNCHANGED <<session_id, lap_id, last, session_open>>

DropDuplicate(f) ==
  /\ ~OffTrack(f) /\ ~IgnoredReplay(f)
  /\ IsDuplicate(f)
  /\ ReturnNone
  /\ UNCHANGED <<memory, replay_cut>>

(* The lap counter is remembered here but the lap id is not advanced. *)
StayQuiet(f) ==
  /\ ~OffTrack(f) /\ ~IgnoredReplay(f) /\ ~IsDuplicate(f)
  /\ IsQuiet(f)
  /\ IF Pauses(f)
     THEN Return(f, session_id, lap_id, {"paused"}) /\ replay_cut' = FALSE
     ELSE ReturnNone /\ UNCHANGED replay_cut
  /\ Remember(f)
  /\ UNCHANGED <<session_id, lap_id, session_open>>

Emit(f) ==
  /\ ~OffTrack(f) /\ ~IgnoredReplay(f) /\ ~IsDuplicate(f)
  /\ ~IsQuiet(f)
  /\ NextSessionId(f) <= MaxSessions
  /\ session_id' = NextSessionId(f)
  /\ lap_id' = NextLapId(f)
  /\ session_open' = TRUE
  /\ Return(f, NextSessionId(f), NextLapId(f), EventsOf(f))
  /\ Remember(f)
  /\ replay_cut' = FALSE

Process(f) ==
  /\ \/ LeaveTrack(f)
     \/ DropReplay(f)
     \/ DropDuplicate(f)
     \/ StayQuiet(f)
     \/ Emit(f)
  /\ UNCHANGED config

(* sim_disconnected() *)
SimDisconnectedStateOnly ==
  /\ last_state' = "OFF"
  /\ ReturnNone
  /\ UNCHANGED <<config, session_id, lap_id, last, session_open, replay_cut>>
SimDisconnected ==
  /\ CloseSession("OFF")
  /\ ReturnNone
  /\ UNCHANGED <<config, session_id, lap_id, replay_cut>>

-----------------------------------------------------------------------------
Init ==
  /\ config \in Configs
  /\ session_id = 0
  /\ lap_id = 0
  /\ last = None
  /\ last_state = "OFF"
  /\ session_open = FALSE
  /\ out = None
  /\ shown = None
  /\ replay_cut = FALSE

Next == (\E f \in Frame : Process(f)) \/ SimDisconnected

Spec == Init /\ [][Next]_vars

-----------------------------------------------------------------------------
(***************************************************************************)
(* Properties.                                                             *)
(***************************************************************************)

(* Every variable has its type. *)
TypeOK ==
  /\ config \in Configs
  /\ session_id \in 0..MaxSessions
  /\ lap_id \in Int
  /\ last \in Sample \cup {None}
  /\ last_state \in SimState
  /\ session_open \in BOOLEAN
  /\ out \in TaggedFrame \cup {None}
  /\ shown \in Row \cup {None}
  /\ replay_cut \in BOOLEAN

(* The tracker remembers a sample exactly while a session is open: every   *)
(* path that closes the session forgets, every path that opens remembers.  *)
OpenMeansRemembered == session_open <=> last # None

(* What consumers last saw is the sample remembered, or a frame of the     *)
(* pause that sample is part of.                                           *)
ShowsLast ==
  /\ shown.state = last_state
  /\ \/ shown.tick = last.tick
     \/ last_state = "PAUSED" /\ ~config.log_paused

(* While a session is open, what consumers last saw was a frame of that    *)
(* very session, tagged with the lap id the tracker still holds, and unless*)
(* a replay frame was dropped since, it shows the sample remembered.       *)
ConsumersInStep ==
  /\ shown # None => shown.session_id <= session_id
  /\ session_open => /\ shown # None
                     /\ shown.session_id = session_id
                     /\ shown.lap_id = lap_id
                     /\ replay_cut \/ ShowsLast

(* The lap id never runs ahead of the sim's lap counter, and follows it    *)
(* exactly when paused frames are logged.                                  *)
LapIdTracksSim ==
  last # None => /\ lap_id <= last.lap
                 /\ config.log_paused => lap_id = last.lap

(* "lap ids stay aligned with the sim": every frame passed on is tagged    *)
(* with its own lap.  The code breaks this: see run lap_drift.             *)
LapIdAligned == out # None => out.lap_id = out.frame.lap

(* A frame is passed on in the session of the one before it. *)
FurtherFrame ==
  /\ out' # None
  /\ shown # None
  /\ out'.session_id = shown.session_id

(* A pause is surfaced although the sim's tick counter froze with it: no   *)
(* other test of process() swallows the first paused frame.                *)
PauseAnnounced ==
  [][\A f \in Frame :
       Pauses(f) /\ Process(f) => out' # None /\ "paused" \in out'.events]_vars

(* No sample is logged twice running: in a session, a frame differs from   *)
(* the one before it in tick or in state.                                  *)
NoRowTwice ==
  [][FurtherFrame /\ ~replay_cut
       => <<out'.frame.tick, out'.frame.state>> # <<shown.tick, shown.state>>]_vars

(* Consumers are told of the end of a pause exactly when one ends, and get *)
(* no frame during it unless paused frames are logged.                     *)
Bracketed ==
  /\ "resumed" \in out'.events <=> shown.state = "PAUSED" /\ out'.frame.state # "PAUSED"
  /\ shown.state = "PAUSED" /\ ~config.log_paused => out'.frame.state # "PAUSED"

(* Pauses are bracketed as long as no replay frame is dropped in between.  *)
PauseBracketed == [][FurtherFrame /\ ~replay_cut => Bracketed]_vars

(* "Surface the pause transition itself, then go quiet until resume", with *)
(* no exception for replays.  The code breaks this: see run pause_replay.  *)
QuietUntilResume == [][FurtherFrame => Bracketed]_vars

(* The tracker implements the feed its consumers rely on. *)
Feed ==
  INSTANCE SessionFeed WITH current <- session_id, open <- session_open, lap <- lap_id

ImplementsFeed == Feed!FeedSpec
=============================================================================

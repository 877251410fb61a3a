-------------------------- MODULE MCAdapterSession --------------------------
(* A small instance of AdapterSession for TLC. *)
EXTENDS AdapterSession

MCTicks == 0..MaxMockTick
MCTimes == (-Jitter)..MaxMockTick
MCLaps == 0..MaxMockTick
(* Replays dropped, as by default; paused frames logged or not. *)
MCConfigs == {c \in SessionTrackerConfig : ~c.log_replay}
MCScenarios ==
  [lap_seconds: {3, 9}, pause_at: {None, 0, 2}, pause_for: {0, 2},
   reset_at: {None, 4}, duplicate_every: {0, 2}, disconnect_at: {None, 3, 5}]
=============================================================================

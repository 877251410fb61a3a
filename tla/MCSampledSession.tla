-------------------------- MODULE MCSampledSession --------------------------
(* A small instance of SampledSession for TLC: two stints of up to two laps. *)
EXTENDS SampledSession

MCTicks == 0..MaxTick
MCTimes == (-Jitter)..MaxTick
MCLaps == 0..MaxLap
(* Replays dropped, as by default; paused frames logged or not. *)
MCConfigs == {c \in SessionTrackerConfig : ~c.log_replay}
MCDefaultConfig == {[log_replay |-> FALSE, log_paused |-> FALSE]}
=============================================================================

-------------------------- MODULE MCSessionTracker --------------------------
(* A small instance of SessionTracker for TLC.                             *)
EXTENDS SessionTracker

MCTicks == {1, 2}
(* 0 after 2 is jitter, 0 after 3 a rewind: both sides of the threshold. *)
MCTimes == {0, 2, 3}
(* 0 to 2 skips a lap. *)
MCLaps == 0..2
MCConfigs == SessionTrackerConfig
=============================================================================

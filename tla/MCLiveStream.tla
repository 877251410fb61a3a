---------------------------- MODULE MCLiveStream ----------------------------
(* A small instance of LiveStream for TLC: up to two whole intervals.      *)
EXTENDS LiveStream

MCTimes == 0..5
=============================================================================

----------------------------- MODULE MCBridgeApp -----------------------------
(* A small instance of BridgeApp for TLC: the simulator comes and goes, so *)
(* that there are up to two connections, each ended by a failing poll.     *)
EXTENDS BridgeApp
=============================================================================

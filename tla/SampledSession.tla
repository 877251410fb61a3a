--------------------------- MODULE SampledSession ---------------------------
(***************************************************************************)
(* The session tracker behind a simulator that is sampled.                 *)
(*                                                                         *)
(* The simulator (external: it is described by what the adapters and       *)
(* frames.py say of it) moves at its own pace, and a frame is a reading of *)
(* its shared memory at some moment.  Any number of its steps may pass     *)
(* between two frames, because adapters poll and because the ingest queue  *)
(* drops frames when it is full, and one reading may be delivered twice.   *)
(*                                                                         *)
(* This narrows the frames of SessionTracker to those a simulator can show *)
(* and adds what the tracker cannot see: the stint a frame belongs to.     *)
(***************************************************************************)
EXTENDS SessionTracker

CONSTANTS
  MaxTick,    (* bound: the last value of the sim's tick counter            *)
  MaxStints,  (* bound: how many stints the sim starts                      *)
  MaxLap,     (* bound: the last lap of a stint                             *)
  Jitter      (* how far a reading of the session clock may lag             *)

ASSUME JitterAssumption == Jitter \in 0..Rewind

VARIABLES
  sim,        (* the simulator: a Frame                                     *)
  stint,      (* how many stints it has started                             *)
  processed   (* history: the stint of the latest frame not of a replay *)

sampledVars == <<vars, sim, stint, processed>>

(* The car drives: tick and clock advance, and a lap may be completed. *)
Drive ==
  /\ sim.state = "LIVE"
  /\ sim.tick < MaxTick
  /\ \E lap \in {sim.lap, sim.lap + 1} :
       /\ lap <= MaxLap
       /\ sim' = [sim EXCEPT !.tick = @ + 1, !.time = @ + 1, !.lap = lap]
  /\ UNCHANGED <<stint, processed, vars>>

(* Pausing freezes tick and clock, and so does watching a replay. *)
Switch ==
  /\ sim.state # "MENU"
  /\ \E s \in {"LIVE", "PAUSED", "REPLAY"} \ {sim.state} :
       sim' = [sim EXCEPT !.state = s]
  /\ UNCHANGED <<stint, processed, vars>>

Leave ==
  /\ sim.state # "MENU"
  /\ sim' = [sim EXCEPT !.state = "MENU"]
  /\ UNCHANGED <<stint, processed, vars>>

(* A stint begins, from the menu or as a restart on track: clock and lap   *)
(* counter start over, the tick counter goes on.                           *)
Restart ==
  /\ stint < MaxStints
  /\ sim.tick < MaxTick
  /\ sim' = [tick |-> sim.tick + 1, state |-> "LIVE", time |-> 0, lap |-> 0]
  /\ stint' = stint + 1
  /\ UNCHANGED <<processed, vars>>

(* A frame of the session reaches the tracker; its clock may lag. *)
Deliver ==
  /\ sim.state # "REPLAY"
  /\ \E j \in 0..Jitter : Process([sim EXCEPT !.time = @ - j])
  /\ processed' = IF sim.state = "MENU" THEN processed ELSE stint
  /\ UNCHANGED <<sim, stint>>

(* A frame of a replay shows the clock and the lap of the scene played     *)
(* back, here the first.                                                   *)
DeliverReplay ==
  /\ sim.state = "REPLAY"
  /\ Process([sim EXCEPT !.time = 0, !.lap = 0])
  /\ UNCHANGED <<sim, stint, processed>>

SampledInit ==
  /\ Init
  /\ sim = [tick |-> 0, state |-> "MENU", time |-> 0, lap |-> 0]
  /\ stint = 0
  /\ processed = 0

SampledNext == Drive \/ Switch \/ Leave \/ Restart \/ Deliver \/ DeliverReplay

SampledSpec == SampledInit /\ [][SampledNext]_sampledVars

-----------------------------------------------------------------------------
(* A stint is never split: its frames stay in one session through pauses,  *)
(* replays, lost frames, repeated frames and a jittering clock.  (In the   *)
(* menu, between two stints, a sim that hangs may begin a session.)        *)
NoSpuriousSession ==
  [][processed' = processed /\ session_id > 0 /\ sim.state # "MENU"
       => session_id' = session_id]_sampledVars
=============================================================================

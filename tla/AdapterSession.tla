--------------------------- MODULE AdapterSession ---------------------------
(***************************************************************************)
(* The session tracker behind each of the adapters create_adapter() makes: *)
(* one of the two Kunos adapters, whose polling KunosAdapter models and    *)
(* whose frames are plain readings here, iRacing's, or the mock.           *)
(***************************************************************************)
EXTENDS IRacingAdapter, MockAdapter

(* What a simulator can show is among the frames the tracker is fed.       *)
ASSUME ReadingsAssumption ==
  /\ {MaxTick, MaxMockTick, MaxLap} \subseteq Nat
  /\ (0..MaxTick) \cup (0..MaxMockTick) \subseteq Ticks
  /\ ((-Jitter)..MaxTick) \cup (0..MaxMockTick) \subseteq Times
  /\ (0..MaxLap) \cup (0..MaxMockTick) \subseteq Laps

VARIABLE source   (* the configured simulator: chosen once *)

adapterVars == <<sampledVars, irVars, mockVars, source>>

(* create_adapter *)
AdapterInit ==
  /\ SampledInit /\ IRacingInit /\ MockInit
  /\ source \in {"kunos", "iracing", "mock"}
  /\ source # "mock" => scenario = CHOOSE s \in Scenarios : TRUE

AdapterNext ==
  /\ \/ source = "kunos" /\ SampledNext /\ UNCHANGED <<irVars, mockVars>>
     \/ source = "iracing" /\ IRacingNext /\ UNCHANGED mockVars
     \/ source = "mock" /\ MockNext /\ UNCHANGED irVars
  /\ UNCHANGED source

(* The capture thread polls iRacing, and time passes. *)
AdapterFairness ==
  /\ WF_adapterVars(source = "iracing" /\ Stall /\ UNCHANGED <<mockVars, source>>)
  /\ WF_adapterVars(source = "iracing" /\ IRacingPoll /\ UNCHANGED <<mockVars, source>>)

AdapterSpec == AdapterInit /\ [][AdapterNext]_adapterVars /\ AdapterFairness
=============================================================================

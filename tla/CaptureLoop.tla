----------------------------- MODULE CaptureLoop -----------------------------
(***************************************************************************)
(* The capture thread of telemetry_bridge/app.py: the supervisor that      *)
(* connects an adapter, polls it and starts over when it fails.            *)
(*                                                                         *)
(* The simulator is external.  Connecting works while it is up, raises     *)
(* AdapterError while it is down and something else while it is broken;    *)
(* a poll fails when it is not up.  Connections are numbered.              *)
(***************************************************************************)
EXTENDS Integers, Sequences

CONSTANTS
  reconnect_min_s, reconnect_max_s,  (* CaptureConfig, in some unit of time *)
  MaxFrames,                         (* bound: frames the simulator makes   *)
  MaxChanges,                        (* bound: changes of the simulator     *)
  MaxFailures                        (* bound: how far failures are counted *)

(* The least wait, doubled n times.                                        *)
Doubled[n \in 0..MaxFailures] ==
  IF n = 0 THEN reconnect_min_s ELSE 2 * Doubled[n - 1]

ASSUME CaptureAssumption ==
  /\ reconnect_min_s \in Nat \ {0} /\ reconnect_max_s \in Nat
  /\ reconnect_min_s <= reconnect_max_s
  /\ MaxFrames \in Nat /\ MaxChanges \in Nat
  /\ MaxFailures \in Nat \ {0}
  /\ Doubled[MaxFailures - 1] >= reconnect_max_s

VARIABLES
  capture,      (* where the thread is                                      *)
  backoff,
  connection,   (* the number of the latest connection                      *)
  stop,         (* the _stop event                                          *)
  loop_closed,  (* the asyncio loop takes no more callbacks                 *)
  callbacks,    (* _put calls scheduled on the loop, not yet run            *)
  known_sim,    (* create_adapter() can make the configured adapter; rigid  *)
  sim,          (* the simulator: up, down or broken                        *)
  changes,      (* how often it changed                                     *)
  frames,       (* how many frames it made                                  *)
  failures,     (* history: AdapterErrors from connect() since the last     *)
                (* connection, counted up to MaxFailures                    *)
  emitted       (* history: how many items were scheduled                   *)

simulator == <<known_sim, sim, changes, frames>>
line == <<connection, callbacks, emitted>>
captureVars == <<capture, backoff, failures, line, stop, loop_closed, simulator>>

(* _emit(): once the loop is closed the item is dropped silently. *)
Emit(kind, c) ==
  IF loop_closed
  THEN UNCHANGED <<callbacks, emitted>>
  ELSE /\ callbacks' = Append(callbacks, [kind |-> kind, connection |-> c])
       /\ emitted' = emitted + 1

NextBackoffUncapped(b) == 2 * b
NextBackoff(b) == IF 2 * b < reconnect_max_s THEN 2 * b ELSE reconnect_max_s

Goto(from, to) == capture = from /\ capture' = to

-----------------------------------------------------------------------------
(* create_adapter() is called outside the try: what it raises ends the     *)
(* thread.                                                                 *)
Top ==
  /\ \/ ~stop /\ known_sim /\ Goto("top", "connecting") 
     \/ (stop \/ ~known_sim) /\ Goto("top", "ended")
  /\ UNCHANGED <<backoff, failures, line, simulator>>

(* connect() raised AdapterError. *)
ConnectFails ==
  /\ sim = "down"
  /\ Goto("connecting", "waiting")
  /\ failures' = IF failures < MaxFailures THEN failures + 1 ELSE failures
  /\ UNCHANGED <<backoff, line, simulator>>

(* connect() raised something else: the backoff stays as it is. *)
ConnectRaisesUncaught ==
  /\ sim = "broken"
  /\ Goto("connecting", "ended")
  /\ UNCHANGED <<backoff, failures, line, simulator>>
ConnectRaises ==
  /\ sim = "broken"
  /\ Goto("connecting", "waiting_unexpected")
  /\ UNCHANGED <<backoff, failures, line, simulator>>

(* _stop.wait(backoff) returns, after the backoff or when stop is set. *)
WaitEnds ==
  /\ \/ Goto("waiting", "top") /\ backoff' = NextBackoff(backoff)
     \/ Goto("waiting_unexpected", "top") /\ UNCHANGED backoff
  /\ UNCHANGED <<failures, line, simulator>>

ConnectSucceeds ==
  /\ sim = "up"
  /\ Goto("connecting", "connected")
  /\ backoff' = reconnect_min_s
  /\ failures' = 0
  /\ connection' = connection + 1
  /\ Emit("connected", connection + 1)
  /\ UNCHANGED simulator

(* The inner loop tests stop before each poll, not after it. *)
PollForever ==
  /\ Goto("connected", "polling")
  /\ UNCHANGED <<backoff, failures, line, simulator>>
Poll ==
  /\ \/ ~stop /\ Goto("connected", "polling")
     \/ stop /\ Goto("connected", "closing")
  /\ UNCHANGED <<backoff, failures, line, simulator>>

PollFrame ==
  /\ sim = "up" /\ frames < MaxFrames
  /\ Goto("polling", "connected")
  /\ frames' = frames + 1
  /\ Emit("frame", connection)
  /\ UNCHANGED <<backoff, connection, failures, known_sim, sim, changes>>

PollTimesOut ==
  /\ Goto("polling", "connected")
  /\ UNCHANGED <<backoff, failures, line, simulator>>

(* poll() raised AdapterError or anything else. *)
PollFails ==
  /\ sim # "up"
  /\ Goto("polling", "closing")
  /\ UNCHANGED <<backoff, failures, line, simulator>>

(* The finally clause; there is no wait before the next attempt. *)
CloseAdapter ==
  /\ Goto("closing", "top")
  /\ Emit("disconnected", connection)
  /\ UNCHANGED <<backoff, connection, failures, simulator>>

CaptureStep ==
  /\ \/ Top \/ ConnectFails \/ ConnectRaises \/ WaitEnds \/ ConnectSucceeds
     \/ Poll \/ PollFrame \/ PollTimesOut \/ PollFails \/ CloseAdapter
  /\ UNCHANGED <<stop, loop_closed>>

SimChanges ==
  /\ changes < MaxChanges
  /\ sim' \in {"up", "down", "broken"} \ {sim}
  /\ changes' = changes + 1
  /\ UNCHANGED <<capture, backoff, failures, line, stop, loop_closed, known_sim, frames>>

CaptureInit ==
  /\ capture = "top"
  /\ backoff = reconnect_min_s
  /\ connection = 0
  /\ stop = FALSE /\ loop_closed = FALSE
  /\ callbacks = <<>>
  /\ known_sim \in BOOLEAN
  /\ sim \in {"up", "down"} /\ changes = 0 /\ frames = 0
  /\ failures = 0 /\ emitted = 0

-----------------------------------------------------------------------------
(* "Exponential backoff": after n failures in a row the next wait is the   *)
(* least one doubled n times, and none is longer than the greatest.        *)
BackoffIsExponential ==
  LET n == IF capture = "waiting" THEN failures - 1 ELSE failures
  IN  backoff = IF Doubled[n] < reconnect_max_s THEN Doubled[n] ELSE reconnect_max_s

(* "Restart the game mid-run, it just keeps going": once the simulator is  *)
(* up for good the thread is connected for good, whatever came before, if  *)
(* its adapter can be made at all.  "Slow consumers can't stall capture":  *)
(* that is so even while the loop is blocked, for a while or for ever.     *)
KeepsReconnecting ==
  known_sim /\ <>[](sim = "up" /\ ~stop) => <>[](capture \in {"connected", "polling"})
=============================================================================

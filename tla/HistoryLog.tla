----------------------------- MODULE HistoryLog -----------------------------
(***************************************************************************)
(* What the history log promises to the asyncio loop that calls it, with   *)
(* nothing of its queue, batches and files: which calls block the loop,    *)
(* and that they return as long as the writer thread lives.  write() never *)
(* blocks, so it is no step here.                                          *)
(***************************************************************************)

VARIABLES
  call,   (* the loop: "running" freely, "closing" in close_session(), in   *)
          (* stop() "stopping" and then "joining", and "stopped" after it   *)
  writer  (* the writer thread: running, returned, dead or killed           *)

logVars == <<call, writer>>

Call(from, to) == call = from /\ call' = to /\ UNCHANGED writer

CallClose == Call("running", "closing")
CloseReturns == Call("closing", "running")
CallStop == Call("running", "stopping")
StopPuts == Call("stopping", "joining")
StopReturns == Call("joining", "stopped")

(* The writer returns only when it was told to, may fail at any time, and  *)
(* is killed with the process that has stopped.                            *)
WriterEnds ==
  /\ writer = "running"
  /\ \/ writer' = "returned" /\ call \in {"joining", "stopped"}
     \/ writer' = "dead"
     \/ writer' = "killed" /\ call = "stopped"
  /\ UNCHANGED call

LogInit == call = "running" /\ writer = "running"

LogNext ==
  \/ CallClose \/ CloseReturns
  \/ CallStop \/ StopPuts \/ StopReturns
  \/ WriterEnds

(* A call returns unless the writer is dead: then nobody empties the queue *)
(* and the loop may be stuck.  stop() always returns from its join.        *)
CallsReturn ==
  /\ call \in {"closing", "stopping"} ~> call \in {"running", "joining"} \/ writer = "dead"
  /\ call = "joining" ~> call = "stopped"

LogSpec == LogInit /\ [][LogNext]_logVars /\ CallsReturn
=============================================================================

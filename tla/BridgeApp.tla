------------------------------ MODULE BridgeApp ------------------------------
(***************************************************************************)
(* The wiring of telemetry_bridge/app.py: the capture thread schedules     *)
(* items on the asyncio loop, a bounded queue holds them, one task         *)
(* processes them, and run() shuts everything down.                        *)
(*                                                                         *)
(* Of the tracker only what the wiring relies on is kept: whether it has   *)
(* an open session, and the connection whose frame began that session.     *)
(* The history log is HistoryLog: while one of its calls blocks the loop,  *)
(* nothing on the loop moves.  A broadcast suspends only the task.         *)
(***************************************************************************)
EXTENDS CaptureLoop

CONSTANT queue_size  (* of the ingest queue                                 *)

ASSUME QueueAssumption == queue_size \in Nat \ {0}

VARIABLES
  main,             (* where run() is                                       *)
  processor,        (* the task of _process: getting, sending or cancelled  *)
  queue,
  dropped,
  session_origin,   (* the connection that began the open session, or 0     *)
  logged,           (* history: the origin of its session and the           *)
                    (* connection of the latest frame logged                *)
  lost_disconnect,  (* history: a "disconnected" item was dropped           *)
  processed,        (* history: how many items were processed               *)
  call, writer      (* of the history log                                   *)

Log == INSTANCE HistoryLog
logVars == <<call, writer>>
ingest == <<queue, dropped, lost_disconnect>>
session == <<session_origin, logged, processed>>
appVars == <<main, processor, ingest, session, logVars>>
vars == <<captureVars, appVars>>

(* The loop runs callbacks and tasks. *)
LoopFree == main \in {"running", "stopping"} /\ call \in {"running", "stopped"}

-----------------------------------------------------------------------------
(* _put(), on the loop. *)
PutUncounted ==
  /\ LoopFree /\ callbacks # <<>>
  /\ callbacks' = Tail(callbacks)
  /\ queue' = IF Len(queue) < queue_size THEN Append(queue, Head(callbacks)) ELSE queue
  /\ UNCHANGED <<dropped, lost_disconnect>>
Put ==
  /\ LoopFree /\ callbacks # <<>>
  /\ callbacks' = Tail(callbacks)
  /\ \/ /\ Len(queue) < queue_size
        /\ queue' = Append(queue, Head(callbacks))
        /\ UNCHANGED <<dropped, lost_disconnect>>
     \/ /\ Len(queue) = queue_size
        /\ dropped' = dropped + 1
        /\ lost_disconnect' = (lost_disconnect \/ Head(callbacks).kind = "disconnected")
        /\ UNCHANGED queue

RunCallback ==
  /\ Put
  /\ UNCHANGED <<capture, backoff, failures, connection, emitted, stop, loop_closed,
                 simulator, main, processor, session, logVars>>

(* A status item; when the adapter disconnected the tracker closes its     *)
(* session and the log is called.  With clients the broadcast that follows *)
(* suspends the task.                                                      *)
ProcessStatusAsIs(item) ==
  /\ item.kind # "frame"
  /\ processor' \in {"getting", "sending"}
  /\ UNCHANGED <<session_origin, logged, logVars>>
ProcessStatus(item) ==
  /\ \/ item.kind = "connected" /\ UNCHANGED <<session_origin, logVars>>
     \/ item.kind = "disconnected" /\ session_origin' = 0 /\ Log!CallClose
  /\ processor' \in {"getting", "sending"}
  /\ UNCHANGED logged

(* The tracker withholds the frame, and may close its session with it ...  *)
WithholdFrame(item) ==
  /\ item.kind = "frame"
  /\ session_origin' \in {session_origin, 0}
  /\ UNCHANGED <<processor, logged, logVars>>

(* ... or the frame is logged, in the open session or a new one, and if    *)
(* the rate gate allows it is broadcast.                                   *)
LogFrame(item) ==
  /\ item.kind = "frame"
  /\ session_origin' \in {session_origin, item.connection} \ {0}
  /\ logged' = [origin |-> session_origin', connection |-> item.connection]
  /\ processor' \in {"getting", "sending"}
  /\ UNCHANGED logVars

Running == main = "running" /\ call = "running"

Process ==
  /\ Running /\ processor = "getting"
  /\ queue # <<>>
  /\ queue' = Tail(queue)
  /\ LET item == Head(queue) IN
       ProcessStatus(item) \/ WithholdFrame(item) \/ LogFrame(item)
  /\ processed' = processed + 1
  /\ UNCHANGED <<captureVars, main, dropped, lost_disconnect>>

(* Every client has taken the message or is gone. *)
SentOrRaised ==
  /\ Running /\ processor = "sending"
  /\ processor' \in {"getting", "cancelled"}
  /\ UNCHANGED <<captureVars, main, ingest, session, logVars>>
Sent ==
  /\ Running /\ processor = "sending"
  /\ processor' = "getting"
  /\ UNCHANGED <<captureVars, main, ingest, session, logVars>>

(* A put of close_session() or stop() has found room. *)
CallReturns ==
  /\ Log!CloseReturns \/ Log!StopPuts
  /\ UNCHANGED <<captureVars, main, processor, ingest, session>>

WriterEnds ==
  /\ Log!WriterEnds
  /\ UNCHANGED <<captureVars, main, processor, ingest, session>>

(* The duration is over or run() is cancelled.  What follows, up to the    *)
(* broadcaster's stop, does not yield to the loop.                         *)
Shutdown ==
  /\ Running
  /\ main' = "joining"
  /\ stop' = TRUE
  /\ UNCHANGED <<capture, backoff, failures, line, loop_closed, simulator, processor,
                 ingest, session, logVars>>

(* capture.join(timeout=5) returns, and logger.stop() is called.           *)
JoinCapture ==
  /\ main = "joining" /\ Log!CallStop
  /\ UNCHANGED <<captureVars, main, processor, ingest, session>>

LoggerStopped ==
  /\ Log!StopReturns
  /\ main' = "stopping"
  /\ UNCHANGED <<captureVars, processor, ingest, session>>

(* broadcaster.stop() lets the cancelled task end, and the loop is closed. *)
CloseLoop ==
  /\ main = "stopping"
  /\ main' = "done"
  /\ processor' = "cancelled"
  /\ loop_closed' = TRUE
  /\ UNCHANGED <<capture, backoff, failures, line, stop, simulator, ingest, session, logVars>>

-----------------------------------------------------------------------------
Init ==
  /\ CaptureInit
  /\ main = "running" /\ processor = "getting"
  /\ queue = <<>> /\ dropped = 0
  /\ session_origin = 0 /\ logged = [origin |-> 0, connection |-> 0]
  /\ lost_disconnect = FALSE /\ processed = 0
  /\ Log!LogInit

LoopStep ==
  \/ RunCallback \/ Process \/ Sent \/ CallReturns
  \/ Shutdown \/ JoinCapture \/ LoggerStopped \/ CloseLoop

Next ==
  \/ (CaptureStep \/ SimChanges) /\ UNCHANGED appVars
  \/ LoopStep \/ WriterEnds

(* Both threads are scheduled; polls, waits, sends and joins end, and the  *)
(* log's calls do while its writer lives (HistoryLog!CallsReturn).  The    *)
(* task is resumed although callbacks keep coming.                         *)
Fairness ==
  /\ WF_vars(CaptureStep /\ UNCHANGED appVars)
  /\ WF_vars(RunCallback) /\ WF_vars(Process) /\ WF_vars(Sent)
  /\ WF_vars(writer # "dead" /\ CallReturns)
  /\ WF_vars(JoinCapture) /\ WF_vars(LoggerStopped) /\ WF_vars(CloseLoop)

Spec == Init /\ [][Next]_vars /\ Fairness

-----------------------------------------------------------------------------
(***************************************************************************)
(* Properties.                                                             *)
(***************************************************************************)
Item == [kind: {"connected", "frame", "disconnected"}, connection: Nat \ {0}]

(* Every variable has its type, and the queue keeps to its size. *)
TypeOK ==
  /\ capture \in {"top", "connecting", "waiting", "waiting_unexpected", "connected",
                  "polling", "closing", "ended"}
  /\ {connection, frames, failures, emitted, dropped, processed, session_origin} \subseteq Nat
  /\ backoff \in reconnect_min_s..reconnect_max_s
  /\ {stop, loop_closed, known_sim, lost_disconnect} \subseteq BOOLEAN
  /\ callbacks \in Seq(Item) /\ queue \in Seq(Item)
  /\ Len(queue) <= queue_size
  /\ sim \in {"up", "down", "broken"} /\ changes \in 0..MaxChanges
  /\ main \in {"running", "joining", "stopping", "done"}
  /\ processor \in {"getting", "sending", "cancelled"}
  /\ logged \in [origin: Nat, connection: Nat]
  /\ call \in {"running", "closing", "stopping", "joining", "stopped"}
  /\ writer \in {"running", "returned", "dead", "killed"}

(* No item is lost uncounted or processed twice: what was scheduled is     *)
(* processed, dropped and counted, or still on its way, and that is so     *)
(* even after the shutdown.                                                *)
Accounted == emitted = processed + dropped + Len(queue) + Len(callbacks)

(* "History file finalized" when the sim exits: no frame is logged in a    *)
(* session that an earlier connection began.  The code breaks this when    *)
(* the queue was too full for the "disconnected" item: see lost_disconnect.*)
SessionOfOneConnection == logged.origin = logged.connection

(* That is the only way it can be broken. *)
SessionEndsWithConnection == lost_disconnect \/ SessionOfOneConnection

(* An item is processed, or dropped and counted, unless the bridge stops.  *)
(* Only a log whose writer died can hold the loop, and the items with it.  *)
IngestDrains ==
  \A k \in 1..(MaxFrames + MaxChanges + 2) :
     emitted >= k ~> processed + dropped >= k \/ stop \/ writer = "dead"

(* Once it is to stop, the capture thread ends, and run() returns unless   *)
(* the log's writer is dead and its stop() finds no room.                  *)
ShutdownCompletes ==
  stop ~> capture = "ended" /\ (main = "done" \/ writer = "dead")
=============================================================================

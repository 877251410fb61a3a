----------------------------- MODULE LiveStream -----------------------------
(***************************************************************************)
(* The live stream: the rate gate in front of the WebSocket broadcaster    *)
(* (telemetry_bridge/outputs/websocket_out.py), as _process of app.py      *)
(* drives them, with clients that join, read slowly, stall and go.         *)
(*                                                                         *)
(* All of it runs on the asyncio loop, so a step lasts to the next await.  *)
(* broadcast() makes a task per client and waits for them all: the         *)
(* processor takes its next item when none is left (Idle).  Clients and    *)
(* library are external: a send appends to the connection's write buffer   *)
(* and waits until that is below the high-water mark, and a client that    *)
(* does not read is closed in the end, as it does not answer the pings.    *)
(***************************************************************************)
EXTENDS RateGate

CONSTANTS
  Clients,   (* the connections considered; one that is gone may come again *)
  HighWater  (* of a write buffer, in messages: room for the hello at least *)

ASSUME StreamAssumption == HighWater \in Nat \ {0}

VARIABLES
  clients,   (* _clients                                                    *)
  conn,      (* of each client: "away", "open" or "closed"                  *)
  buffer,    (* how many messages its write buffer holds                    *)
  task,      (* its _send_one: "none", "scheduled" or "draining"            *)
  boundary,  (* the message being sent carries events                       *)
  owed       (* history: who is owed a message with events                  *)

streamVars == <<clients, conn, buffer, task, boundary, owed>>
liveVars == <<vars, streamVars>>

Idle == \A c \in Clients : task[c] = "none"
Open == {c \in Clients : conn[c] = "open"}

-----------------------------------------------------------------------------
(* _handler: a client is added and greeted ... *)
Join(c) ==
  /\ conn[c] = "away" /\ task[c] = "none"
  /\ clients' = clients \cup {c}
  /\ conn' = [conn EXCEPT ![c] = "open"]
  /\ buffer' = [buffer EXCEPT ![c] = 1]
  /\ UNCHANGED <<vars, task, boundary, owed>>

(* ... and discarded by the finally clause once its connection is closed.  *)
LeaveRegistered(c) ==
  /\ conn[c] = "closed"
  /\ conn' = [conn EXCEPT ![c] = "away"]
  /\ UNCHANGED <<vars, clients, buffer, task, boundary, owed>>
Unregister(c) ==
  /\ conn[c] = "closed"
  /\ clients' = clients \ {c}
  /\ conn' = [conn EXCEPT ![c] = "away"]
  /\ UNCHANGED <<vars, buffer, task, boundary, owed>>

(* The client reads, or goes (or is closed by the library). *)
Read(c) ==
  /\ conn[c] = "open" /\ buffer[c] > 0
  /\ buffer' = [buffer EXCEPT ![c] = @ - 1]
  /\ UNCHANGED <<vars, clients, conn, task, boundary, owed>>

Closed(c) ==
  /\ conn[c] = "open"
  /\ conn' = [conn EXCEPT ![c] = "closed"]
  /\ buffer' = [buffer EXCEPT ![c] = 0]
  /\ owed' = owed \ {c}
  /\ UNCHANGED <<vars, clients, task, boundary>>

-----------------------------------------------------------------------------
(* broadcast(): the clients of this moment get a task each. *)
Broadcast(events) ==
  /\ task' = [c \in Clients |-> IF c \in clients THEN "scheduled" ELSE "none"]
  /\ boundary' = events
  /\ UNCHANGED <<clients, conn, buffer>>

(* _process takes a tagged frame; allow() lets it through or not.          *)
Take(events) ==
  /\ Idle
  /\ owed' = IF events THEN owed \cup (clients \cap Open) ELSE owed

TakeFrameByRate(t, events) ==
  /\ Take(events)
  /\ latest' = t
  /\ \/ LetThrough(t, FALSE) /\ Broadcast(events)
     \/ Refuse(t) /\ UNCHANGED <<clients, conn, buffer, task, boundary>>
TakeFrame(t, events) ==
  /\ Take(events)
  /\ latest' = t
  /\ \/ LetThrough(t, events) /\ Broadcast(events)
     \/ ~events /\ Refuse(t) /\ UNCHANGED <<clients, conn, buffer, task, boundary>>

(* _process takes a status; that of a disconnect resets the gate.          *)
TakeStatus ==
  /\ Take(FALSE)
  /\ Reset \/ UNCHANGED vars
  /\ Broadcast(FALSE)

-----------------------------------------------------------------------------
(* _send_one: the message is written, then send() waits for the buffer.    *)
WriteAndReturn(c) ==
  /\ task[c] = "scheduled" /\ conn[c] = "open"
  /\ buffer' = [buffer EXCEPT ![c] = @ + 1]
  /\ task' = [task EXCEPT ![c] = "none"]
  /\ owed' = IF boundary THEN owed \ {c} ELSE owed
  /\ UNCHANGED <<vars, clients, conn, boundary>>
Write(c) ==
  /\ task[c] = "scheduled" /\ conn[c] = "open"
  /\ buffer' = [buffer EXCEPT ![c] = @ + 1]
  /\ task' = [task EXCEPT ![c] = "draining"]
  /\ owed' = IF boundary THEN owed \ {c} ELSE owed
  /\ UNCHANGED <<vars, clients, conn, boundary>>

Drained(c) ==
  /\ task[c] = "draining" /\ conn[c] = "open"
  /\ buffer[c] <= HighWater
  /\ task' = [task EXCEPT ![c] = "none"]
  /\ UNCHANGED <<vars, clients, conn, buffer, boundary, owed>>

(* ConnectionClosed, which _send_one swallows, ends the wait as well.      *)
SendRaisesAtOnce(c) ==
  /\ task[c] = "scheduled" /\ conn[c] # "open"
  /\ task' = [task EXCEPT ![c] = "none"]
  /\ UNCHANGED <<vars, clients, conn, buffer, boundary, owed>>
SendRaises(c) ==
  /\ task[c] \in {"scheduled", "draining"} /\ conn[c] # "open"
  /\ task' = [task EXCEPT ![c] = "none"]
  /\ UNCHANGED <<vars, clients, conn, buffer, boundary, owed>>

-----------------------------------------------------------------------------
LiveInit ==
  /\ Init
  /\ clients = {} /\ owed = {} /\ boundary = FALSE
  /\ conn = [c \in Clients |-> "away"]
  /\ buffer = [c \in Clients |-> 0]
  /\ task = [c \in Clients |-> "none"]

Send(c) == Write(c) \/ Drained(c) \/ SendRaises(c)
Connection(c) == Join(c) \/ Unregister(c) \/ Read(c) \/ Closed(c)

LiveNext ==
  \/ \E t \in Times, events \in BOOLEAN : TakeFrame(t, events)
  \/ TakeStatus
  \/ \E c \in Clients : Send(c) \/ Connection(c)

(* The loop resumes what can go on, and a client that lets its buffer fill *)
(* reads on or is closed by the library's keepalive.                       *)
LiveFairness ==
  \A c \in Clients :
    /\ WF_liveVars(Send(c)) /\ WF_liveVars(Unregister(c))
    /\ WF_liveVars(buffer[c] > HighWater /\ (Read(c) \/ Closed(c)))

LiveSpec == LiveInit /\ [][LiveNext]_liveVars /\ LiveFairness

-----------------------------------------------------------------------------
(***************************************************************************)
(* Properties.                                                             *)
(***************************************************************************)

(* "Clients never miss lap/session boundaries": when a frame with events   *)
(* has been dealt with, whatever the rate, it has been written to every    *)
(* client that was registered when it came and is still there.             *)
NeverMissBoundary == Idle => owed = {}

(* A client that does not read costs bounded memory: what is sent to it    *)
(* waits for its buffer, which holds at most a message over the mark.      *)
BoundedBuffer == \A c \in Clients : buffer[c] <= HighWater + 1

(* A broadcast ends whatever its clients do: whoever stalls, goes before   *)
(* its message is written or while the write buffer is full.               *)
BroadcastEnds == ~Idle ~> Idle

(* A connection that has closed is forgotten, also when a broadcast        *)
(* started while it was still registered.                                  *)
ClosedClientsForgotten ==
  \A c \in Clients : (c \in clients /\ conn[c] # "open") ~> (c \notin clients \/ conn[c] = "open")

(* "Without letting any of them block us": the processor never waits for a *)
(* slow client while another, that has read all it got, gets nothing.  The *)
(* code breaks this: see run slow_client.                                  *)
NoClientBlocksUs ==
  \A c \in Clients, d \in Clients :
    ~ /\ task[c] = "draining" /\ buffer[c] > HighWater
      /\ conn[d] = "open" /\ d \in clients /\ buffer[d] = 0 /\ task[d] = "none"
=============================================================================

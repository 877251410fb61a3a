---------------------------- MODULE HistoryLogger ----------------------------
(***************************************************************************)
(* The history log of telemetry_bridge/outputs/history_log.py.             *)
(*                                                                         *)
(* Two threads share a bounded queue.  The asyncio loop offers tagged      *)
(* frames without blocking, but blocks to put "close_session" and the      *)
(* sentinel of stop().  The writer thread batches the frames into chunk    *)
(* files, one or more for each session.                                    *)
(*                                                                         *)
(* A frame is its session and its number in the stream of frames offered.  *)
(* Both clocks of the code are `now', in ticks.                            *)
(***************************************************************************)
EXTENDS Integers, SequencesExt

CONSTANTS
  queue_size,    (* HistoryLogConfig.queue_size                             *)
  batch_size,    (* HistoryLogConfig.batch_size                             *)
  roll,          (* HistoryLogConfig.roll_minutes, in ticks                 *)
  Second,        (* ticks in a second, the resolution of file names         *)
  MaxFrames,     (* bound: how many frames are offered                      *)
  MaxSessions,   (* bound: how many sessions begin                          *)
  MaxTime,       (* bound: when the clock stops                             *)
  Sentinel, CloseItem, None

Frame == [session: 1..MaxSessions, n: 1..MaxFrames]

ASSUME LoggerAssumption ==
  /\ {queue_size, batch_size, Second} \subseteq Nat \ {0}
  /\ {MaxFrames, MaxSessions, MaxTime} \subseteq Nat
  /\ roll \in Nat /\ roll >= Second - 1
  /\ {Sentinel, CloseItem, None} \cap Frame = {}
  /\ Sentinel # CloseItem /\ None \notin {Sentinel, CloseItem}

VARIABLES
  pc,              (* the loop: running, or inside one of the calls below   *)
  session,         (* the session of the latest frame offered               *)
  ended,           (* it was closed: the next frame starts another          *)
  accepted,        (* history: the frames that were put into the queue      *)
  dropped_frames,
  q,               (* the queue the two threads share                       *)
  thread,          (* the writer: running, returned, dead or killed         *)
  item,            (* what get() gave it and it has not handled, or None    *)
  files,           (* its batch, the chunk files, and written_frames        *)
  current_session, (* 0 is the empty string                                 *)
  chunk_started,
  now

loop == <<pc, session, ended, accepted, dropped_frames>>
writer == <<thread, item, files, current_session, chunk_started>>
vars == <<loop, q, writer, now>>

-----------------------------------------------------------------------------
(***************************************************************************)
(* The asyncio loop.                                                       *)
(***************************************************************************)
HasRoomForOneMore == Len(q) <= queue_size
HasRoom == Len(q) < queue_size

(* The tracker numbers sessions as they begin, and never goes back to one  *)
(* nor on with one that was closed.                                        *)
NextSessions ==
  {s \in {session, session + 1} \cap (1..MaxSessions) : s = session => ~ended}

Offered == Len(accepted) + dropped_frames

(* write(): put_nowait; when the queue is full the new frame is dropped. *)
Write(f) ==
  IF HasRoom
  THEN /\ q' = Append(q, f)
       /\ accepted' = Append(accepted, f)
       /\ UNCHANGED dropped_frames
  ELSE /\ dropped_frames' = dropped_frames + 1
       /\ UNCHANGED <<q, accepted>>

OfferFrame ==
  /\ pc = "running"
  /\ Offered < MaxFrames
  /\ \E s \in NextSessions :
       /\ Write([session |-> s, n |-> Offered + 1])
       /\ session' = s
  /\ ended' = FALSE
  /\ UNCHANGED <<pc, writer, now>>

(* close_session() and stop() put their item with a blocking put. *)
Call(from, to) ==
  /\ pc = from
  /\ pc' = to
  /\ UNCHANGED <<session, ended, accepted, dropped_frames, q, writer, now>>

BlockingPut(from, i, to) ==
  /\ pc = from
  /\ HasRoom
  /\ q' = Append(q, i)
  /\ pc' = to
  /\ ended' = TRUE
  /\ UNCHANGED <<session, accepted, dropped_frames, writer, now>>

CloseSession == Call("running", "closing")
PutCloseItem == BlockingPut("closing", CloseItem, "running")
Stop == Call("running", "stopping")
PutSentinel == BlockingPut("stopping", Sentinel, "joining")

(* join() returns when the thread has ended, or on its timeout. *)
Join == thread # "running" /\ Call("joining", "stopped")
JoinTimesOut == thread = "running" /\ Call("joining", "stopped")

-----------------------------------------------------------------------------
(***************************************************************************)
(* The writer thread.  A chunk is open exactly while `writer' is not None. *)
(***************************************************************************)
IsOpen(w) == w.disk # <<>> /\ ~Last(w.disk).closed

(* flush() *)
FlushKeepingBatch(w) ==
  IF w.batch # <<>> /\ IsOpen(w)
  THEN [w EXCEPT !.disk[Len(w.disk)].rows = @ \o w.batch,
                 !.written = @ + Len(w.batch)]
  ELSE w
Flush(w) ==
  IF w.batch # <<>> /\ IsOpen(w)
  THEN [w EXCEPT !.disk[Len(w.disk)].rows = @ \o w.batch,
                 !.written = @ + Len(w.batch),
                 !.batch = <<>>]
  ELSE w

(* close_chunk() *)
CloseUnflushed(w) ==
  IF IsOpen(w) THEN [w EXCEPT !.disk[Len(w.disk)].closed = TRUE] ELSE w
CloseChunk(w) ==
  LET v == Flush(w) IN
  IF IsOpen(v) THEN [v EXCEPT !.disk[Len(v.disk)].closed = TRUE] ELSE v

(* _open_writer(): the stamp is the part of the name that is not the       *)
(* session's.                                                              *)
OpenChunk(w, s) ==
  [w EXCEPT !.disk = Append(@, [session |-> s, stamp |-> now \div Second,
                                rows |-> <<>>, closed |-> FALSE])]

AddRowLateFlush(w, f) ==
  LET v == [w EXCEPT !.batch = Append(@, f)] IN
  IF Len(v.batch) > batch_size THEN Flush(v) ELSE v
AddRow(w, f) ==
  LET v == [w EXCEPT !.batch = Append(@, f)] IN
  IF Len(v.batch) >= batch_size THEN Flush(v) ELSE v

RollsAtTheLimit(f) ==
  /\ f.session = current_session
  /\ IsOpen(files)
  /\ now - chunk_started >= roll
Rolls(f) ==
  /\ f.session = current_session
  /\ IsOpen(files)
  /\ now - chunk_started > roll

NeedsChunk(f) == f.session # current_session \/ Rolls(f)

Get ==
  /\ thread = "running" /\ item = None
  /\ q # <<>>
  /\ item' = Head(q)
  /\ q' = Tail(q)
  /\ UNCHANGED <<loop, thread, files, current_session, chunk_started, now>>

(* get() times out on an empty queue. *)
IdleNoFlush ==
  /\ thread = "running" /\ item = None
  /\ q = <<>>
  /\ UNCHANGED vars
IdleFlush ==
  /\ thread = "running" /\ item = None
  /\ q = <<>>
  /\ files' = Flush(files)
  /\ UNCHANGED <<loop, q, thread, item, current_session, chunk_started, now>>

HandleFrame ==
  /\ item \in Frame
  /\ files' = AddRow(IF NeedsChunk(item)
                     THEN OpenChunk(CloseChunk(files), item.session)
                     ELSE files, item)
  /\ current_session' = item.session
  /\ chunk_started' = IF NeedsChunk(item) THEN now ELSE chunk_started
  /\ UNCHANGED thread

HandleCloseAndReturn ==
  /\ item = CloseItem
  /\ files' = CloseChunk(files)
  /\ current_session' = 0
  /\ thread' = "returned"
  /\ UNCHANGED chunk_started
HandleClose ==
  /\ item = CloseItem
  /\ files' = CloseChunk(files)
  /\ current_session' = 0
  /\ UNCHANGED <<thread, chunk_started>>

HandleSentinel ==
  /\ item = Sentinel
  /\ files' = CloseChunk(files)
  /\ thread' = "returned"
  /\ UNCHANGED <<current_session, chunk_started>>

Handle ==
  /\ thread = "running"
  /\ HandleFrame \/ HandleClose \/ HandleSentinel
  /\ item' = None
  /\ UNCHANGED <<loop, q, now>>

(* Whether the thread may be about to touch a file. *)
TouchesDisk ==
  \/ item = None /\ q = <<>> /\ files.batch # <<>>
  \/ item \in Frame /\ (NeedsChunk(item) \/ Len(files.batch) + 1 >= batch_size)
  \/ item \in {CloseItem, Sentinel} /\ IsOpen(files)

(* A file operation raises, in flush() or, with the old chunk closed, in   *)
(* _open_writer().  Nothing in _run catches it: the thread ends.  The item *)
(* being handled is left as not handled.                                   *)
DiskError ==
  /\ thread = "running"
  /\ TouchesDisk
  /\ \/ UNCHANGED files
     \/ item \in Frame /\ NeedsChunk(item) /\ files' = CloseChunk(files)
  /\ thread' = "dead"
  /\ UNCHANGED <<loop, q, item, current_session, chunk_started, now>>

(* The process exits after stop() and takes the daemon thread with it. *)
Exit ==
  /\ pc = "stopped" /\ thread = "running"
  /\ thread' = "killed"
  /\ UNCHANGED <<loop, q, item, files, current_session, chunk_started, now>>

TimePasses ==
  /\ now < MaxTime
  /\ now' = now + 1
  /\ UNCHANGED <<loop, q, writer>>

-----------------------------------------------------------------------------
Init ==
  /\ pc = "running"
  /\ session = 0
  /\ ended = FALSE
  /\ accepted = <<>>
  /\ dropped_frames = 0
  /\ q = <<>>
  /\ thread = "running"
  /\ item = None
  /\ files = [batch |-> <<>>, disk |-> <<>>, written |-> 0]
  /\ current_session = 0
  /\ chunk_started = 0
  /\ now = 0

Loop ==
  OfferFrame \/ CloseSession \/ PutCloseItem \/ Stop \/ PutSentinel \/ Join \/ JoinTimesOut

Writer == Get \/ IdleFlush \/ Handle

Next == Loop \/ Writer \/ DiskError \/ Exit \/ TimePasses

(* Both threads are scheduled and disk writes end; nobody need offer a     *)
(* frame, close a session or stop.                                         *)
Fairness ==
  /\ WF_vars(Writer)
  /\ WF_vars(PutCloseItem) /\ WF_vars(PutSentinel) /\ WF_vars(Join \/ JoinTimesOut)

Spec == Init /\ [][Next]_vars /\ Fairness

-----------------------------------------------------------------------------
(***************************************************************************)
(* Properties.                                                             *)
(***************************************************************************)
Chunk == [session: 1..MaxSessions, stamp: Nat, rows: Seq(Frame), closed: BOOLEAN]

(* Every variable has its type, and the queue keeps to its size. *)
TypeOK ==
  /\ pc \in {"running", "closing", "stopping", "joining", "stopped"}
  /\ session \in 0..MaxSessions
  /\ ended \in BOOLEAN
  /\ accepted \in Seq(Frame)
  /\ dropped_frames \in 0..MaxFrames
  /\ q \in Seq(Frame \cup {Sentinel, CloseItem}) /\ Len(q) <= queue_size
  /\ thread \in {"running", "returned", "dead", "killed"}
  /\ item \in Frame \cup {Sentinel, CloseItem, None}
  /\ files \in [batch: Seq(Frame), disk: Seq(Chunk), written: Nat]
  /\ current_session \in 0..MaxSessions
  /\ chunk_started \in 0..MaxTime
  /\ now \in 0..MaxTime

Rows(d) == FlattenSeq([i \in DOMAIN d |-> d[i].rows])

OnlyFrame(i) == IF i \in Frame THEN <<i>> ELSE <<>>
Frames(s) == FlattenSeq([i \in DOMAIN s |-> OnlyFrame(s[i])])

(* What the writer took from the queue. *)
Taken == Rows(files.disk) \o files.batch \o OnlyFrame(item)

(* No frame that was accepted is lost, repeated or moved, whatever chunks  *)
(* are closed, rolled or left behind by an error: what is on disk, in the  *)
(* batch, at hand and in the queue adds up to what was accepted, and       *)
(* written_frames counts the first of these.                               *)
NothingLost ==
  /\ Taken \o Frames(q) = accepted
  /\ files.written = Len(Rows(files.disk))

(* "One file per session": rows are in a chunk of their session, only the  *)
(* latest chunk is open, and after close_session none is until a frame     *)
(* comes.                                                                  *)
OneSessionPerFile ==
  /\ \A i \in DOMAIN files.disk :
       /\ \A j \in DOMAIN files.disk[i].rows :
            files.disk[i].rows[j].session = files.disk[i].session
       /\ i < Len(files.disk) => files.disk[i].closed
  /\ \A j \in DOMAIN files.batch : files.batch[j].session = current_session
  /\ IsOpen(files) => Last(files.disk).session = current_session
  /\ thread = "running" => (IsOpen(files) <=> current_session # 0)

(* No chunk overwrites an earlier one: names are no finer than a second.   *)
DistinctFiles ==
  \A i, j \in DOMAIN files.disk :
     i # j => <<files.disk[i].session, files.disk[i].stamp>>
                # <<files.disk[j].session, files.disk[j].stamp>>

(* When the writer has returned, every frame accepted before stop() is in  *)
(* a finalized file.                                                       *)
StopIsComplete ==
  thread = "returned" => /\ Rows(files.disk) = accepted
                         /\ \A i \in DOMAIN files.disk : files.disk[i].closed

(* What is readable if the process is killed now: of a parquet file,       *)
(* nothing before its footer is written.                                   *)
Readable(format) ==
  Rows([i \in DOMAIN files.disk |->
          IF format = "csv" \/ files.disk[i].closed
          THEN files.disk[i] ELSE [files.disk[i] EXCEPT !.rows = <<>>]])

KillLosesABatchOf(format) == Len(Taken) - Len(Readable(format)) <= batch_size

(* Of csv files, a hard kill loses no more than the batch in flight.       *)
CsvKillLosesABatch == KillLosesABatchOf("csv")

(* "At most the in-flight batch is lost" to a hard kill, in either format. *)
(* The code breaks this for parquet: see run kill_loss.                    *)
KillLosesABatch == \A format \in {"csv", "parquet"} : KillLosesABatchOf(format)

(* "The oldest frames are dropped and counted, not the newest": a frame    *)
(* offered to a full queue is in it.  The code breaks this: see run        *)
(* drop_newest.                                                            *)
DropsOldest ==
  [][dropped_frames' > dropped_frames => Last(q').n = Offered + 1]_vars

(* An accepted frame reaches the disk, even if no frame follows it, unless *)
(* the writer fails.                                                       *)
ReachesDisk ==
  \A k \in 1..MaxFrames :
     Len(accepted) >= k ~> files.written >= k \/ thread \in {"dead", "killed"}

(* The log implements what its caller relies on: the loop is blocked by    *)
(* close_session() and stop() only, and not for ever unless the writer     *)
(* died; the writer ends when it is told to, and not before.               *)
Log == INSTANCE HistoryLog WITH call <- pc, writer <- thread

ImplementsLog == Log!LogSpec
=============================================================================

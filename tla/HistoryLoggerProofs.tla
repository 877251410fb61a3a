------------------------ MODULE HistoryLoggerProofs ------------------------
(***************************************************************************)
(* Proofs about HistoryLogger, for queues and batches of any size, any     *)
(* number of sessions and a clock of any resolution.                       *)
(***************************************************************************)
EXTENDS HistoryLogger, SequenceTheorems, TLAPS

Files == [batch: Seq(Frame), disk: Seq(Chunk), written: Nat]

(* What a row waits for is an open chunk, of its session s; a chunk holds  *)
(* rows of its own session, and only the latest may be open.               *)
RowsAtHome(w) ==
  \A i \in 1..Len(w.disk) : \A j \in 1..Len(w.disk[i].rows) :
    w.disk[i].rows[j].session = w.disk[i].session

LatestOpen(w) == \A i \in 1..Len(w.disk) : i < Len(w.disk) => w.disk[i].closed = TRUE

BatchOf(w, s) ==
  /\ w.batch # <<>> => IsOpen(w)
  /\ \A j \in 1..Len(w.batch) : w.batch[j].session = s
  /\ IsOpen(w) => w.disk[Len(w.disk)].session = s

Tidy(w, s) == w \in Files /\ RowsAtHome(w) /\ LatestOpen(w) /\ BatchOf(w, s)

(* The chunks of v are those of w by name: rows and footers apart. *)
SameNames(v, w) ==
  /\ Len(v.disk) = Len(w.disk)
  /\ \A i \in 1..Len(w.disk) :
       v.disk[i].session = w.disk[i].session /\ v.disk[i].stamp = w.disk[i].stamp

-----------------------------------------------------------------------------
(* A list of files is open if its latest is there and has no footer.       *)
LEMMA OpenMeans ==
  ASSUME NEW w \in Files
  PROVE  /\ Len(w.disk) \in Nat
         /\ IsOpen(w) <=> Len(w.disk) # 0 /\ w.disk[Len(w.disk)].closed = FALSE
         /\ \A i \in 1..Len(w.disk) : w.disk[i] \in Chunk
<1>1. w.disk \in Seq(Chunk) /\ Len(w.disk) \in Nat
  BY DEF Files
<1>2. \A i \in 1..Len(w.disk) : w.disk[i] \in Chunk
  BY <1>1, ElementOfSeq
<1>3. w.disk # <<>> <=> Len(w.disk) # 0
  BY <1>1, EmptySeq
<1>4. Len(w.disk) # 0 => w.disk[Len(w.disk)].closed \in BOOLEAN
  <2>1. Len(w.disk) # 0 => w.disk[Len(w.disk)] \in Chunk
    BY <1>1, <1>2
  <2> QED
    BY <2>1 DEF Chunk
<1>5. IsOpen(w) <=> w.disk # <<>> /\ ~w.disk[Len(w.disk)].closed
  BY DEF IsOpen, Last
<1>6. IsOpen(w) <=> Len(w.disk) # 0 /\ w.disk[Len(w.disk)].closed = FALSE
  BY <1>3, <1>4, <1>5
<1> QED
  BY <1>1, <1>2, <1>6

(* Files whose chunks are changed at the last one only. *)
LEMMA LastChunkChanges ==
  ASSUME NEW w \in Files, Len(w.disk) # 0, NEW c \in Chunk
  PROVE  LET d == [w.disk EXCEPT ![Len(w.disk)] = c]
         IN  /\ d \in Seq(Chunk) /\ Len(d) = Len(w.disk)
             /\ d[Len(w.disk)] = c
             /\ \A i \in 1..Len(w.disk) : i < Len(w.disk) => d[i] = w.disk[i]
<1>1. w.disk \in Seq(Chunk) /\ Len(w.disk) \in 1..Len(w.disk)
  BY OpenMeans DEF Files
<1> QED
  BY <1>1, ExceptSeq

LEMMA FlushTidy ==
  ASSUME NEW s, NEW w, Tidy(w, s)
  PROVE  /\ Tidy(Flush(w), s) /\ SameNames(Flush(w), w)
         /\ IsOpen(Flush(w)) <=> IsOpen(w)
         /\ Flush(w).batch = <<>>
<1>1. w \in Files /\ w.batch \in Seq(Frame) /\ w.disk \in Seq(Chunk) /\ w.written \in Nat
  BY DEF Tidy, Files
<1>2. CASE w.batch = <<>>
  BY <1>1, <1>2 DEF Flush, SameNames
<1>3. CASE w.batch # <<>>
  <2> DEFINE n == Len(w.disk)
             l == w.disk[n]
             c == [l EXCEPT !.rows = @ \o w.batch]
             d == [w.disk EXCEPT ![n] = c]
             v == [batch |-> <<>>, disk |-> d, written |-> w.written + Len(w.batch)]
  <2>1. IsOpen(w) /\ n \in Nat \ {0} /\ l \in Chunk /\ l.closed = FALSE /\ n \in 1..n
    <3>1. IsOpen(w)
      BY <1>3 DEF Tidy, BatchOf
    <3>2. n \in Nat /\ n # 0 /\ l.closed = FALSE /\ \A i \in 1..n : w.disk[i] \in Chunk
      BY <1>1, <3>1, OpenMeans
    <3> QED
      BY <3>1, <3>2
  <2>2. Flush(w) = v
    <3>1. w = [batch |-> w.batch, disk |-> w.disk, written |-> w.written]
      BY <1>1 DEF Files
    <3> QED
      BY <1>3, <2>1, <3>1 DEF Flush
  <2>3. /\ c \in Chunk /\ c.session = l.session /\ c.stamp = l.stamp /\ c.closed = FALSE
        /\ c.rows = l.rows \o w.batch /\ l.rows \in Seq(Frame)
    <3>1. l.rows \in Seq(Frame)
      BY <2>1 DEF Chunk
    <3>2. l.rows \o w.batch \in Seq(Frame)
      BY <1>1, <3>1, ConcatProperties
    <3> QED
      BY <2>1, <3>1, <3>2 DEF Chunk
  <2> HIDE DEF c, l
  <2>4. /\ d \in Seq(Chunk) /\ Len(d) = n /\ d[n] = c
        /\ \A i \in 1..n : i < n => d[i] = w.disk[i]
    BY <1>1, <2>1, <2>3, LastChunkChanges
  <2> HIDE DEF d
  <2>5. v \in Files
    <3>1. w.written + Len(w.batch) \in Nat
      BY <1>1
    <3> QED
      BY <2>4, <3>1 DEF Files
  <2>6. RowsAtHome(v)
    <3> SUFFICES ASSUME NEW i \in 1..n, NEW j \in 1..Len(d[i].rows)
                 PROVE  d[i].rows[j].session = d[i].session
      BY <2>4 DEF RowsAtHome
    <3>1. CASE i < n
      BY <2>4, <3>1 DEF Tidy, RowsAtHome
    <3>2. CASE i = n
      <4> DEFINE p == Len(l.rows)
                 r == Len(w.batch)
      <4>1. p \in Nat /\ r \in Nat /\ Len(l.rows \o w.batch) = p + r
        BY <1>1, <2>3, LenProperties, ConcatProperties
      <4>2. \A k \in 1..(p + r) :
              (l.rows \o w.batch)[k] = IF k <= p THEN l.rows[k] ELSE w.batch[k - p]
        BY <1>1, <2>3, ConcatProperties
      <4>3. \A k \in 1..p : l.rows[k].session = l.session
        BY <2>1 DEF Tidy, RowsAtHome, l
      <4>4. \A k \in 1..r : w.batch[k].session = l.session
        BY <2>1 DEF Tidy, BatchOf, l
      <4>5. d[i] = c /\ j \in 1..(p + r)
        BY <2>3, <2>4, <3>2, <4>1
      <4> HIDE DEF p, r
      <4>6. CASE j <= p
        <5>1. j \in 1..p
          BY <4>1, <4>5, <4>6
        <5> QED
          BY <2>3, <4>2, <4>3, <4>5, <4>6, <5>1
      <4>7. CASE ~(j <= p)
        <5>1. j - p \in 1..r
          BY <4>1, <4>5, <4>7
        <5> QED
          BY <2>3, <4>2, <4>4, <4>5, <4>7, <5>1
      <4> QED
        BY <4>6, <4>7
    <3> QED
      BY <2>1, <3>1, <3>2
  <2>7. LatestOpen(v)
    BY <2>4 DEF Tidy, LatestOpen
  <2>8. IsOpen(v)
    BY <2>1, <2>3, <2>4, <2>5, OpenMeans
  <2>9. v.disk[Len(v.disk)].session = s
    BY <2>1, <2>3, <2>4 DEF Tidy, BatchOf, l
  <2>10. SameNames(v, w)
    BY <2>1, <2>3, <2>4 DEF SameNames, l
  <2> QED
    BY <2>1, <2>2, <2>5, <2>6, <2>7, <2>8, <2>9, <2>10 DEF Tidy, BatchOf
<1> QED
  BY <1>2, <1>3

LEMMA CloseTidy ==
  ASSUME NEW s, NEW w, Tidy(w, s)
  PROVE  /\ \A t : Tidy(CloseChunk(w), t)
         /\ SameNames(CloseChunk(w), w)
         /\ ~IsOpen(CloseChunk(w)) /\ CloseChunk(w).batch = <<>>
<1> DEFINE v == Flush(w)
<1>1. Tidy(v, s) /\ SameNames(v, w) /\ v.batch = <<>>
  BY FlushTidy
<1> HIDE DEF v
<1>2. v \in Files /\ v.disk \in Seq(Chunk)
  BY <1>1 DEF Tidy, Files
<1>3. CASE ~IsOpen(v)
  <2>1. CloseChunk(w) = v
    BY <1>3 DEF CloseChunk, v
  <2> QED
    BY <1>1, <1>3, <2>1 DEF Tidy, BatchOf
<1>4. CASE IsOpen(v)
  <2> DEFINE n == Len(v.disk)
             l == v.disk[n]
             c == [l EXCEPT !.closed = TRUE]
             d == [v.disk EXCEPT ![n] = c]
             u == [batch |-> <<>>, disk |-> d, written |-> v.written]
  <2>1. n \in Nat \ {0} /\ l \in Chunk
    <3>1. n \in Nat /\ n # 0 /\ \A i \in 1..n : v.disk[i] \in Chunk
      BY <1>2, <1>4, OpenMeans
    <3> QED
      BY <3>1
  <2>2. CloseChunk(w) = u
    <3>1. v = [batch |-> <<>>, disk |-> v.disk, written |-> v.written]
      BY <1>1, <1>2 DEF Files
    <3>2. CloseChunk(w) = [v EXCEPT !.disk[n].closed = TRUE]
      BY <1>4 DEF CloseChunk, v
    <3>3. [v EXCEPT !.disk[n].closed = TRUE] = [v EXCEPT !.disk = d]
      OBVIOUS
    <3>4. ASSUME NEW x
          PROVE  [v EXCEPT !.disk = x] = [batch |-> <<>>, disk |-> x, written |-> v.written]
      BY <3>1
    <3> QED
      BY <3>2, <3>3, <3>4
  <2>3. /\ c \in Chunk /\ c.session = l.session /\ c.stamp = l.stamp /\ c.closed = TRUE
        /\ c.rows = l.rows
    BY <2>1 DEF Chunk
  <2> HIDE DEF c, l
  <2>4. /\ d \in Seq(Chunk) /\ Len(d) = n /\ d[n] = c
        /\ \A i \in 1..n : i < n => d[i] = v.disk[i]
    BY <1>2, <2>1, <2>3, LastChunkChanges
  <2> HIDE DEF d
  <2>5. u \in Files
    BY <1>2, <2>4 DEF Files
  <2>6. RowsAtHome(u)
    <3> SUFFICES ASSUME NEW i \in 1..n, NEW j \in 1..Len(d[i].rows)
                 PROVE  d[i].rows[j].session = d[i].session
      BY <2>4 DEF RowsAtHome
    <3>1. d[i].rows = v.disk[i].rows /\ d[i].session = v.disk[i].session
      BY <2>1, <2>3, <2>4 DEF l
    <3> QED
      BY <1>1, <3>1 DEF Tidy, RowsAtHome
  <2>7. LatestOpen(u)
    BY <1>1, <2>4 DEF Tidy, LatestOpen
  <2>8. ~IsOpen(u)
    BY <2>1, <2>3, <2>4, <2>5, OpenMeans
  <2>9. SameNames(u, w)
    <3>1. SameNames(u, v)
      BY <2>1, <2>3, <2>4 DEF SameNames, l
    <3> QED
      BY <1>1, <2>4, <3>1 DEF SameNames
  <2>10. u.batch = <<>>
    OBVIOUS
  <2> HIDE DEF u
  <2> QED
    BY <2>2, <2>5, <2>6, <2>7, <2>8, <2>9, <2>10 DEF Tidy, BatchOf
<1> QED
  BY <1>3, <1>4

LEMMA OpenTidy ==
  ASSUME NEW w, NEW t, Tidy(w, t), ~IsOpen(w), NEW s \in 1..MaxSessions, now \in Nat
  PROVE  LET v == OpenChunk(w, s)
             n == Len(w.disk)
         IN  /\ Tidy(v, s) /\ IsOpen(v) /\ Len(v.disk) = n + 1
             /\ v.disk[n + 1].session = s /\ v.disk[n + 1].stamp = now \div Second
             /\ \A i \in 1..n : v.disk[i] = w.disk[i]
<1> DEFINE n == Len(w.disk)
           c == [session |-> s, stamp |-> now \div Second, rows |-> <<>>, closed |-> FALSE]
           d == Append(w.disk, c)
           v == [batch |-> w.batch, disk |-> d, written |-> w.written]
<1>1. w \in Files /\ w.disk \in Seq(Chunk) /\ n \in Nat /\ w.batch = <<>>
  BY OpenMeans DEF Tidy, BatchOf, Files
<1>2. OpenChunk(w, s) = v
  <2>1. w = [batch |-> w.batch, disk |-> w.disk, written |-> w.written]
    BY <1>1 DEF Files
  <2>2. OpenChunk(w, s) = [w EXCEPT !.disk = d]
    BY DEF OpenChunk
  <2> QED
    BY <2>1, <2>2
<1>3. c \in Chunk
  <2>1. Second \in Nat \ {0}
    BY LoggerAssumption
  <2>2. now \div Second \in Nat
    BY <2>1
  <2> QED
    BY <2>2 DEF Chunk
<1>4. c.session = s /\ c.stamp = now \div Second /\ c.rows = <<>> /\ c.closed = FALSE
  OBVIOUS
<1> HIDE DEF c
<1>5. /\ d \in Seq(Chunk) /\ Len(d) = n + 1 /\ d[n + 1] = c
      /\ \A i \in 1..n : d[i] = w.disk[i]
  BY <1>1, <1>3, AppendProperties
<1> HIDE DEF d
<1>6. v \in Files
  BY <1>1, <1>5 DEF Files
<1>7. RowsAtHome(v)
  <2> SUFFICES ASSUME NEW i \in 1..(n + 1), NEW j \in 1..Len(d[i].rows)
               PROVE  d[i].rows[j].session = d[i].session
    BY <1>5 DEF RowsAtHome
  <2>1. i # n + 1
    BY <1>4, <1>5
  <2>2. i \in 1..n
    BY <1>1, <2>1
  <2> QED
    BY <1>5, <2>2 DEF Tidy, RowsAtHome
<1>8. LatestOpen(v)
  <2> SUFFICES ASSUME NEW i \in 1..n PROVE w.disk[i].closed = TRUE
    <3>1. \A i \in 1..(n + 1) : i < n + 1 => i \in 1..n
      BY <1>1
    <3> QED
      BY <1>5, <3>1 DEF LatestOpen
  <2>1. CASE i < n
    BY <2>1 DEF Tidy, LatestOpen
  <2>2. CASE i = n
    <3>0. n # 0 /\ \A k \in 1..n : w.disk[k] \in Chunk
      BY <1>1, <2>2, OpenMeans
    <3>1. n # 0 /\ w.disk[n] \in Chunk /\ ~(w.disk[n].closed = FALSE)
      BY <1>1, <2>2, <3>0, OpenMeans
    <3> QED
      BY <2>2, <3>1 DEF Chunk
  <2>3. i < n \/ i = n
    BY <1>1
  <2> QED
    BY <2>1, <2>2, <2>3
<1>9. IsOpen(v)
  <2>1. Len(v.disk) # 0 /\ v.disk[Len(v.disk)].closed = FALSE
    BY <1>1, <1>4, <1>5
  <2> QED
    BY <1>6, <2>1, OpenMeans
<1>10. BatchOf(v, s)
  BY <1>1, <1>4, <1>5, <1>9 DEF BatchOf
<1> QED
  BY <1>2, <1>4, <1>5, <1>6, <1>7, <1>8, <1>9, <1>10 DEF Tidy

LEMMA AddRowTidy ==
  ASSUME NEW w, NEW f \in Frame, Tidy(w, f.session), IsOpen(w)
  PROVE  /\ Tidy(AddRow(w, f), f.session) /\ IsOpen(AddRow(w, f))
         /\ SameNames(AddRow(w, f), w)
<1> DEFINE b == Append(w.batch, f)
           v == [batch |-> b, disk |-> w.disk, written |-> w.written]
<1>1. w \in Files /\ w.disk \in Seq(Chunk) /\ w.batch \in Seq(Frame) /\ Len(w.batch) \in Nat
  BY LenProperties DEF Tidy, Files
<1>2. AddRow(w, f) = v \/ AddRow(w, f) = Flush(v)
  <2>1. w = [batch |-> w.batch, disk |-> w.disk, written |-> w.written]
    BY <1>1 DEF Files
  <2>2. [w EXCEPT !.batch = b] = v
    BY <2>1
  <2> QED
    BY <2>2 DEF AddRow
<1>3. /\ b \in Seq(Frame) /\ Len(b) = Len(w.batch) + 1 /\ b[Len(w.batch) + 1] = f
      /\ \A i \in 1..Len(w.batch) : b[i] = w.batch[i]
  BY <1>1, AppendProperties
<1> HIDE DEF b
<1>4. v \in Files /\ IsOpen(v) /\ SameNames(v, w)
  BY <1>1, <1>3 DEF Files, IsOpen, SameNames
<1>5. RowsAtHome(v) /\ LatestOpen(v)
  BY DEF Tidy, RowsAtHome, LatestOpen
<1>6. BatchOf(v, f.session)
  <2>1. \A j \in 1..Len(b) : b[j].session = f.session
    BY <1>1, <1>3 DEF Tidy, BatchOf
  <2> QED
    BY <1>4, <2>1 DEF Tidy, BatchOf
<1>7. Tidy(v, f.session)
  BY <1>4, <1>5, <1>6 DEF Tidy
<1> HIDE DEF v
<1>8. CASE AddRow(w, f) = v
  BY <1>4, <1>7, <1>8
<1>9. CASE AddRow(w, f) = Flush(v)
  <2>1. Tidy(Flush(v), f.session) /\ IsOpen(Flush(v)) /\ SameNames(Flush(v), v)
    BY <1>4, <1>7, FlushTidy
  <2> QED
    BY <1>4, <1>9, <2>1 DEF SameNames
<1> QED
  BY <1>2, <1>8, <1>9

-----------------------------------------------------------------------------
QueueItem == Frame \cup {Sentinel, CloseItem}

Types ==
  /\ pc \in {"running", "closing", "stopping", "joining", "stopped"}
  /\ session \in 0..MaxSessions /\ ended \in BOOLEAN
  /\ accepted \in Seq(Frame) /\ dropped_frames \in 0..MaxFrames
  /\ q \in Seq(QueueItem) /\ Len(q) <= queue_size
  /\ thread \in {"running", "returned", "dead", "killed"}
  /\ item \in QueueItem \cup {None}
  /\ current_session \in 0..MaxSessions
  /\ chunk_started \in 0..MaxTime /\ now \in 0..MaxTime

FilesInv ==
  /\ Tidy(files, current_session)
  /\ thread = "running" => (IsOpen(files) <=> current_session # 0)

LEMMA Sizes ==
  /\ queue_size \in Nat \ {0} /\ batch_size \in Nat \ {0} /\ Second \in Nat \ {0}
  /\ MaxFrames \in Nat /\ MaxSessions \in Nat /\ MaxTime \in Nat
  /\ roll \in Nat /\ roll >= Second - 1
BY LoggerAssumption

LEMMA InitInv == Init => Types /\ FilesInv
<1> SUFFICES ASSUME Init PROVE Types /\ FilesInv
  OBVIOUS
<1>1. Types
  <2>1. accepted \in Seq(Frame) /\ q \in Seq(QueueItem) /\ Len(q) = 0
    BY DEF Init
  <2>2. Len(q) <= queue_size
    BY <2>1, Sizes
  <2>3. ended \in BOOLEAN /\ item \in QueueItem \cup {None}
    BY DEF Init
  <2>4. /\ session \in 0..MaxSessions /\ current_session \in 0..MaxSessions
        /\ dropped_frames \in 0..MaxFrames
        /\ chunk_started \in 0..MaxTime /\ now \in 0..MaxTime
    BY Sizes DEF Init
  <2>5. pc = "running" /\ thread = "running"
    BY DEF Init
  <2> QED
    BY <2>1, <2>2, <2>3, <2>4, <2>5 DEF Types
<1>2. files \in Files /\ files.disk = <<>> /\ files.batch = <<>>
  BY DEF Init, Files
<1>3. ~IsOpen(files)
  BY <1>2 DEF IsOpen
<1>4. Tidy(files, current_session)
  BY <1>2, <1>3 DEF Tidy, RowsAtHome, LatestOpen, BatchOf
<1> QED
  BY <1>1, <1>3, <1>4 DEF Init, FilesInv

(* The queue's two ends. *)
LEMMA PutOne ==
  ASSUME NEW i \in QueueItem, q \in Seq(QueueItem), HasRoom, q' = Append(q, i)
  PROVE  q' \in Seq(QueueItem) /\ Len(q') <= queue_size
<1>1. Len(q) \in Nat /\ queue_size \in Nat /\ Len(q) < queue_size
  BY LoggerAssumption, LenProperties DEF HasRoom
<1>2. q' \in Seq(QueueItem) /\ Len(q') = Len(q) + 1
  BY AppendProperties
<1> QED
  BY <1>1, <1>2

LEMMA LoopTypesStep ==
  ASSUME Types, Loop
  PROVE  Types'
<1>1. UNCHANGED <<thread, item, current_session, chunk_started, now>>
  BY DEF Loop, OfferFrame, CloseSession, PutCloseItem, Stop, PutSentinel, Join, JoinTimesOut,
         Call, BlockingPut, writer
<1>2. CASE OfferFrame
  <2>1. PICK s \in NextSessions :
          Write([session |-> s, n |-> Offered + 1]) /\ session' = s
    BY <1>2 DEF OfferFrame
  <2> DEFINE f == [session |-> s, n |-> Offered + 1]
  <2>2. Len(accepted) \in Nat /\ MaxFrames \in Nat /\ MaxSessions \in Nat
    BY LoggerAssumption, LenProperties DEF Types
  <2>3. f \in Frame /\ s \in 1..MaxSessions
    <3>1. Offered + 1 \in 1..MaxFrames
      BY <1>2, <2>2 DEF OfferFrame, Offered, Types
    <3>2. s \in 1..MaxSessions
      BY DEF NextSessions
    <3> QED
      BY <3>1, <3>2 DEF Frame
  <2> HIDE DEF f
  <2>4. CASE HasRoom
    <3>1. q' = Append(q, f) /\ accepted' = Append(accepted, f) /\ dropped_frames' = dropped_frames
      BY <2>1, <2>4 DEF Write, f
    <3>2. q' \in Seq(QueueItem) /\ Len(q') <= queue_size
      BY <2>3, <2>4, <3>1, PutOne DEF Types, QueueItem
    <3>3. accepted' \in Seq(Frame)
      BY <2>3, <3>1, AppendProperties DEF Types
    <3>4. /\ session' \in 0..MaxSessions /\ ended' = FALSE /\ pc' = pc
      BY <1>2, <2>1, <2>3, Sizes DEF OfferFrame
    <3> QED
      BY <1>1, <3>1, <3>2, <3>3, <3>4 DEF Types
  <2>5. CASE ~HasRoom
    <3>1. q' = q /\ accepted' = accepted /\ dropped_frames' = dropped_frames + 1
      BY <2>1, <2>5 DEF Write
    <3>2. dropped_frames' \in 0..MaxFrames
      BY <1>2, <2>2, <3>1 DEF OfferFrame, Offered, Types
    <3>3. /\ session' \in 0..MaxSessions /\ ended' = FALSE /\ pc' = pc
      BY <1>2, <2>1, <2>3, Sizes DEF OfferFrame
    <3> QED
      BY <1>1, <3>1, <3>2, <3>3 DEF Types
  <2> QED
    BY <2>4, <2>5
<1>3. CASE PutCloseItem \/ PutSentinel
  <2>1. PICK i \in {CloseItem, Sentinel} : HasRoom /\ q' = Append(q, i)
    BY <1>3 DEF PutCloseItem, PutSentinel, BlockingPut
  <2>2. q' \in Seq(QueueItem) /\ Len(q') <= queue_size
    BY <2>1, PutOne DEF Types, QueueItem
  <2> QED
    BY <1>1, <1>3, <2>2 DEF PutCloseItem, PutSentinel, BlockingPut, Types
<1>4. CASE CloseSession \/ Stop \/ Join \/ JoinTimesOut
  BY <1>1, <1>4 DEF CloseSession, Stop, Join, JoinTimesOut, Call, Types
<1> QED
  BY <1>2, <1>3, <1>4 DEF Loop

LEMMA NextTypes == Types /\ [Next]_vars => Types'
<1> SUFFICES ASSUME Types, [Next]_vars PROVE Types'
  OBVIOUS
<1>1. CASE Loop
  BY <1>1, LoopTypesStep
<1>2. CASE Get
  <2>1. Head(q) \in QueueItem /\ Tail(q) \in Seq(QueueItem) /\ Len(Tail(q)) = Len(q) - 1
    BY <1>2, HeadTailProperties DEF Get, Types
  <2>2. Len(q) \in Nat /\ queue_size \in Nat
    BY LoggerAssumption, LenProperties DEF Types
  <2> QED
    BY <1>2, <2>1, <2>2 DEF Get, loop, Types
<1>3. CASE IdleFlush \/ DiskError \/ Exit
  BY <1>3 DEF IdleFlush, DiskError, Exit, loop, Types
<1>4. CASE Handle
  <2>1. /\ current_session' \in 0..MaxSessions /\ chunk_started' \in 0..MaxTime
        /\ thread' \in {"running", "returned", "dead", "killed"}
    <3>1. CASE HandleFrame
      <4>1. item.session \in 1..MaxSessions /\ MaxSessions \in Nat
        BY <3>1, LoggerAssumption DEF HandleFrame, Frame
      <4>2. /\ current_session' = item.session /\ thread' = thread
            /\ chunk_started' \in {now, chunk_started}
        BY <3>1 DEF HandleFrame
      <4>3. /\ now \in 0..MaxTime /\ chunk_started \in 0..MaxTime
            /\ thread \in {"running", "returned", "dead", "killed"}
        BY DEF Types
      <4>4. current_session' \in 0..MaxSessions
        BY <4>1, <4>2
      <4> QED
        BY <4>2, <4>3, <4>4
    <3>2. CASE HandleClose \/ HandleSentinel
      <4>1. /\ current_session' \in {0, current_session}
            /\ thread' \in {"returned", thread} /\ chunk_started' = chunk_started
        BY <3>2 DEF HandleClose, HandleSentinel
      <4>2. /\ current_session \in 0..MaxSessions /\ chunk_started \in 0..MaxTime
            /\ thread \in {"running", "returned", "dead", "killed"}
        BY DEF Types
      <4>3. 0 \in 0..MaxSessions
        BY LoggerAssumption
      <4> QED
        BY <4>1, <4>2, <4>3
    <3> QED
      BY <1>4, <3>1, <3>2 DEF Handle
  <2> QED
    BY <1>4, <2>1 DEF Handle, loop, Types
<1>5. CASE TimePasses
  BY <1>5, LoggerAssumption DEF TimePasses, loop, writer, Types
<1>6. CASE UNCHANGED vars
  BY <1>6 DEF vars, loop, writer, Types
<1> QED
  BY <1>1, <1>2, <1>3, <1>4, <1>5, <1>6 DEF Next, Writer

(* A frame is put into an open chunk of its session, a new one or not.     *)
LEMMA HandleFrameFiles ==
  ASSUME Types, FilesInv, thread = "running", HandleFrame
  PROVE  FilesInv' /\ IsOpen(files')
<1> DEFINE f == item
           w == IF NeedsChunk(f) THEN OpenChunk(CloseChunk(files), f.session) ELSE files
<1>1. f \in Frame /\ f.session \in 1..MaxSessions /\ now \in Nat
  BY LoggerAssumption DEF HandleFrame, Frame, Types
<1>2. Tidy(w, f.session) /\ IsOpen(w)
  <2>1. CASE NeedsChunk(f)
    <3>1. Tidy(CloseChunk(files), 0) /\ ~IsOpen(CloseChunk(files))
      BY CloseTidy DEF FilesInv
    <3> QED
      BY <1>1, <2>1, <3>1, OpenTidy
  <2>2. CASE ~NeedsChunk(f)
    <3>1. f.session = current_session /\ current_session # 0
      BY <1>1, <2>2 DEF NeedsChunk
    <3> QED
      BY <2>2, <3>1 DEF FilesInv
  <2> QED
    BY <2>1, <2>2
<1>3. files' = AddRow(w, f) /\ current_session' = f.session /\ f.session # 0
  BY <1>1 DEF HandleFrame
<1> HIDE DEF w
<1> QED
  BY <1>1, <1>2, <1>3, AddRowTidy DEF FilesInv

LEMMA NextFilesInv == Types /\ FilesInv /\ [Next]_vars => FilesInv'
<1> SUFFICES ASSUME Types, FilesInv, [Next]_vars PROVE FilesInv'
  OBVIOUS
<1>1. CASE UNCHANGED <<files, current_session>> /\ (thread' = thread \/ thread' # "running")
  BY <1>1 DEF FilesInv
<1>2. CASE IdleFlush
  BY <1>2, FlushTidy DEF IdleFlush, FilesInv
<1>3. CASE Handle
  <2>1. CASE HandleFrame
    BY <1>3, <2>1, HandleFrameFiles DEF Handle
  <2>2. CASE HandleClose \/ HandleSentinel
    <3>1. Tidy(files', current_session') /\ ~IsOpen(files')
      BY <2>2, CloseTidy DEF HandleClose, HandleSentinel, FilesInv
    <3> QED
      BY <2>2, <3>1 DEF HandleClose, HandleSentinel, FilesInv
  <2> QED
    BY <1>3, <2>1, <2>2 DEF Handle
<1>4. CASE DiskError
  <2>1. Tidy(CloseChunk(files), current_session)
    BY CloseTidy DEF FilesInv
  <2> QED
    BY <1>4, <2>1 DEF DiskError, FilesInv
<1> QED
  BY <1>1, <1>2, <1>3, <1>4
     DEF Next, Loop, OfferFrame, CloseSession, PutCloseItem, Stop, PutSentinel, Join,
         JoinTimesOut, Call, BlockingPut, Writer, Get, Exit, TimePasses, writer, vars

(* The log's variables keep their types, its queue its size. *)
THEOREM LogTypeCorrect == Spec => []TypeOK
<1>1. Types /\ FilesInv => TypeOK
  BY DEF Types, QueueItem, FilesInv, Tidy, Files, TypeOK
<1> QED
  BY <1>1, InitInv, NextTypes, NextFilesInv, PTL DEF Spec

(* Whatever is rolled, closed or left behind by an error: every row is in  *)
(* a chunk of its session, and only the latest chunk is open, only while   *)
(* its session is.                                                         *)
THEOREM SessionsHaveTheirFiles == Spec => []OneSessionPerFile
<1>1. Types /\ FilesInv => OneSessionPerFile
  <2> SUFFICES ASSUME Types, FilesInv PROVE OneSessionPerFile
    OBVIOUS
  <2>1. /\ files \in Files /\ RowsAtHome(files) /\ LatestOpen(files)
        /\ BatchOf(files, current_session)
    BY DEF FilesInv, Tidy
  <2>2. DOMAIN files.disk = 1..Len(files.disk) /\ DOMAIN files.batch = 1..Len(files.batch)
    BY <2>1 DEF Files
  <2>3. \A i \in DOMAIN files.disk : DOMAIN files.disk[i].rows = 1..Len(files.disk[i].rows)
    <3> SUFFICES ASSUME NEW i \in 1..Len(files.disk)
                 PROVE  DOMAIN files.disk[i].rows = 1..Len(files.disk[i].rows)
      BY <2>2
    <3>1. files.disk[i].rows \in Seq(Frame)
      BY <2>1, OpenMeans DEF Chunk
    <3> QED
      BY <3>1
  <2>4. IsOpen(files) => Last(files.disk).session = current_session
    BY <2>1 DEF BatchOf, Last
  <2> QED
    BY <2>1, <2>2, <2>3, <2>4
       DEF FilesInv, OneSessionPerFile, RowsAtHome, LatestOpen, BatchOf
<1> QED
  BY <1>1, InitInv, NextTypes, NextFilesInv, PTL DEF Spec

-----------------------------------------------------------------------------
(* The writer is told to end only by stop(), which by then joins it. *)
SentinelMeansJoin ==
  item = Sentinel \/ (\E k \in 1..Len(q) : q[k] = Sentinel) => pc \in {"joining", "stopped"}

LEMMA NextSentinel == Types /\ SentinelMeansJoin /\ [Next]_vars => SentinelMeansJoin'
<1> SUFFICES ASSUME Types, SentinelMeansJoin, [Next]_vars,
                    item' = Sentinel \/ \E k \in 1..Len(q') : q'[k] = Sentinel
             PROVE  pc' \in {"joining", "stopped"}
  BY DEF SentinelMeansJoin
<1>1. Sentinel # CloseItem /\ Sentinel # None /\ Sentinel \notin Frame
  BY LoggerAssumption
<1>2. pc \in {"joining", "stopped"} => pc' \in {"joining", "stopped"}
  BY DEF Next, Loop, OfferFrame, CloseSession, PutCloseItem, Stop, PutSentinel, Join,
         JoinTimesOut, Call, BlockingPut, Writer, Get, IdleFlush, Handle, DiskError, Exit,
         TimePasses, loop, vars
<1>3. CASE UNCHANGED q /\ (item' = item \/ item' = None)
  BY <1>1, <1>2, <1>3 DEF SentinelMeansJoin
<1>4. CASE PutSentinel
  BY <1>4 DEF PutSentinel, BlockingPut
<1>5. ASSUME NEW i, i # Sentinel, i \in QueueItem, q' = Append(q, i), item' = item
      PROVE  pc' \in {"joining", "stopped"}
  <2>1. /\ Len(q) \in Nat /\ Len(q') = Len(q) + 1 /\ q'[Len(q) + 1] = i
        /\ \A k \in 1..Len(q) : q'[k] = q[k]
    BY <1>5, AppendProperties, LenProperties DEF Types
  <2>2. \A k \in 1..Len(q') : q'[k] = Sentinel => k \in 1..Len(q)
    BY <1>5, <2>1
  <2> QED
    BY <1>2, <1>5, <2>1, <2>2 DEF SentinelMeansJoin
<1>6. CASE PutCloseItem
  BY <1>1, <1>5, <1>6 DEF PutCloseItem, BlockingPut, writer, QueueItem
<1>7. CASE OfferFrame
  <2>1. PICK s \in NextSessions :
          Write([session |-> s, n |-> Offered + 1])
    BY <1>7 DEF OfferFrame
  <2> DEFINE f == [session |-> s, n |-> Offered + 1]
  <2>2. q' = q \/ q' = Append(q, f)
    BY <2>1 DEF Write
  <2>3. Offered + 1 \in 1..MaxFrames
    BY <1>7, Sizes, LenProperties DEF OfferFrame, Offered, Types
  <2>4. f \in Frame /\ f \in QueueItem /\ f # Sentinel
    BY <1>1, <2>3 DEF NextSessions, Frame, QueueItem
  <2>5. item' = item
    BY <1>7 DEF OfferFrame, writer
  <2> HIDE DEF f
  <2> QED
    BY <1>3, <1>5, <2>2, <2>4, <2>5
<1>8. CASE Get
  <2>1. /\ item' = q[1] /\ Len(q) \in Nat \ {0} /\ Len(q') = Len(q) - 1
        /\ \A k \in 1..Len(q') : q'[k] = q[k + 1]
    <3>1. q \in Seq(QueueItem) /\ q # <<>> /\ q' = Tail(q) /\ item' = Head(q)
      BY <1>8 DEF Get, Types
    <3> QED
      BY <3>1, HeadTailProperties, EmptySeq
  <2>2. \E k \in 1..Len(q) : q[k] = Sentinel
    <3>1. CASE item' = Sentinel
      <4>1. 1 \in 1..Len(q) /\ q[1] = Sentinel
        BY <2>1, <3>1
      <4> QED
        BY <4>1
    <3>2. CASE \E k \in 1..Len(q') : q'[k] = Sentinel
      <4>1. PICK k \in 1..Len(q') : q'[k] = Sentinel
        BY <3>2
      <4>2. k + 1 \in 1..Len(q) /\ q[k + 1] = Sentinel
        BY <2>1, <4>1
      <4> QED
        BY <4>2
    <3> QED
      BY <3>1, <3>2
  <2> QED
    BY <1>2, <2>2 DEF SentinelMeansJoin
<1> QED
  BY <1>3, <1>4, <1>6, <1>7, <1>8
     DEF Next, Loop, CloseSession, Stop, Join, JoinTimesOut, Call, Writer, IdleFlush, Handle,
         DiskError, Exit, TimePasses, writer, vars

(* Every step of the log is one its caller may count on, or none of its    *)
(* business.                                                               *)
LEMMA LogSteps == Types /\ SentinelMeansJoin /\ [Next]_vars => [Log!LogNext]_(Log!logVars)
<1> SUFFICES ASSUME Types, SentinelMeansJoin, [Next]_vars
             PROVE  [Log!LogNext]_(Log!logVars)
  OBVIOUS
<1> USE DEF Log!LogNext, Log!logVars
<1>1. CASE Loop
  BY <1>1 DEF Loop, OfferFrame, CloseSession, PutCloseItem, Stop, PutSentinel, Join,
       JoinTimesOut, Call, BlockingPut, writer, Log!CallClose, Log!CloseReturns,
       Log!CallStop, Log!StopPuts, Log!StopReturns, Log!Call
<1>2. CASE Handle
  BY <1>2 DEF Handle, HandleFrame, HandleClose, HandleSentinel, SentinelMeansJoin, loop,
              Log!WriterEnds
<1>3. CASE DiskError \/ Exit
  BY <1>3 DEF DiskError, Exit, loop, Log!WriterEnds
<1>4. CASE Get \/ IdleFlush \/ TimePasses \/ UNCHANGED vars
  BY <1>4 DEF Get, IdleFlush, TimePasses, loop, writer, vars
<1> QED
  BY <1>1, <1>2, <1>3, <1>4 DEF Next, Writer

(* The log takes the steps of the abstract log and no others: it blocks    *)
(* the loop in close_session() and stop() only, and its writer ends only   *)
(* when it was told to or has failed.                                      *)
THEOREM LogStepsAsPromised == Spec => Log!LogInit /\ [][Log!LogNext]_(Log!logVars)
<1>1. Init => Log!LogInit /\ Types /\ SentinelMeansJoin
  <2> SUFFICES ASSUME Init PROVE Log!LogInit /\ SentinelMeansJoin
    BY InitInv
  <2>1. Len(q) = 0 /\ item # Sentinel
    BY LoggerAssumption DEF Init
  <2> QED
    BY <2>1 DEF Init, Log!LogInit, SentinelMeansJoin
<1> QED
  BY <1>1, NextTypes, NextSentinel, LogSteps, PTL DEF Spec
=============================================================================

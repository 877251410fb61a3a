------------------------- MODULE HistoryFilesProofs -------------------------
(***************************************************************************)
(* Proofs about what HistoryLogger leaves in its files.                    *)
(*                                                                         *)
(* No chunk overwrites another.  A session is not gone back to: the        *)
(* sessions of the latest chunk, of the items ahead of the writer and of   *)
(* the loop's latest frame stand in order, and a CloseItem comes between a *)
(* session and the next use of its writer.                                 *)
(*                                                                         *)
(* No frame is lost, repeated or moved.  What a flush writes, a roll       *)
(* leaves behind and the queue hands over adds up, in order, to the frames *)
(* accepted; nothing is behind the sentinel, so that the writer that has   *)
(* handled it has handled all.                                             *)
(***************************************************************************)
EXTENDS HistoryLoggerProofs, InductionProofs

(* The session that position i is of, or 0: the latest chunk at 0, then    *)
(* the items of l.                                                         *)
SessionAt(l, hi, i) ==
  IF i = 0 THEN hi ELSE IF l[i] \in Frame THEN l[i].session ELSE 0

(* The session of position i is closed before position j is reached: cur   *)
(* is 0 when that of the latest chunk is.                                  *)
Parted(l, cur, i, j) ==
  \/ i = 0 /\ cur = 0
  \/ \E k \in (i + 1)..(j - 1) : l[k] = CloseItem

Sorted(l, hi, cur) ==
  \A i, j \in 0..Len(l) :
    i < j /\ SessionAt(l, hi, i) # 0 /\ SessionAt(l, hi, j) # 0 =>
      /\ SessionAt(l, hi, i) <= SessionAt(l, hi, j)
      /\ Parted(l, cur, i, j) => SessionAt(l, hi, i) < SessionAt(l, hi, j)

(* The loop's latest frame is of session s, and e says whether s is over.  *)
Latest(l, hi, cur, s, e) ==
  \A i \in 0..Len(l) :
    /\ SessionAt(l, hi, i) <= s
    /\ SessionAt(l, hi, i) # 0 /\ SessionAt(l, hi, i) = s /\ Parted(l, cur, i, Len(l) + 1)
       => e = TRUE

LEMMA SessionAtIsNat ==
  ASSUME NEW l \in Seq(QueueItem), NEW hi \in Nat, NEW i \in 0..Len(l)
  PROVE  SessionAt(l, hi, i) \in Nat
<1>1. Len(l) \in Nat /\ \A k \in 1..Len(l) : l[k] \in QueueItem
  BY LenProperties, ElementOfSeq
<1>2. \A f \in Frame : f.session \in Nat
  BY DEF Frame
<1> QED
  BY <1>1, <1>2 DEF SessionAt

(* The next frame is of the latest session, if that is not over, or of a   *)
(* later one.  It goes to the end of the line ...                          *)
LEMMA GrowsSorted ==
  ASSUME NEW l \in Seq(QueueItem), NEW hi \in Nat, NEW cur, NEW s \in Nat, NEW e,
         NEW t \in Nat, NEW x \in QueueItem, NEW b,
         Sorted(l, hi, cur), Latest(l, hi, cur, s, e),
         \/ x \in Frame /\ x.session = t /\ t >= s /\ (t = s => e = FALSE) /\ x # CloseItem
         \/ x \notin Frame /\ t = s /\ b = TRUE
  PROVE  Sorted(Append(l, x), hi, cur) /\ Latest(Append(l, x), hi, cur, t, b)
<1> DEFINE m == Append(l, x)
           n == Len(l)
<1>1. n \in Nat /\ Len(m) = n + 1 /\ m[n + 1] = x /\ \A i \in 1..n : m[i] = l[i]
  BY AppendProperties, LenProperties
<1> HIDE DEF m
<1>2. \A i \in 0..n : SessionAt(m, hi, i) = SessionAt(l, hi, i) /\ SessionAt(l, hi, i) \in Nat
  BY <1>1, SessionAtIsNat DEF SessionAt
<1>3. SessionAt(m, hi, n + 1) = IF x \in Frame THEN t ELSE 0
  BY <1>1 DEF SessionAt
<1>4. \A i, j \in 0..(n + 1) : Parted(m, cur, i, j) <=> Parted(l, cur, i, j)
  <2> SUFFICES ASSUME NEW i \in 0..(n + 1), NEW j \in 0..(n + 1)
               PROVE  Parted(m, cur, i, j) <=> Parted(l, cur, i, j)
    OBVIOUS
  <2>1. \A k \in (i + 1)..(j - 1) : k \in 1..n
    BY <1>1
  <2> QED
    BY <1>1, <2>1 DEF Parted
<1>5. \A i \in 0..n : /\ SessionAt(l, hi, i) <= s
                      /\ SessionAt(l, hi, i) # 0 /\ SessionAt(l, hi, i) = s
                         /\ Parted(l, cur, i, n + 1) => e = TRUE
  BY DEF Latest
<1>6. Sorted(m, hi, cur)
  <2> SUFFICES ASSUME NEW i \in 0..(n + 1), NEW j \in 0..(n + 1), i < j,
                      SessionAt(m, hi, i) # 0, SessionAt(m, hi, j) # 0
               PROVE  /\ SessionAt(m, hi, i) <= SessionAt(m, hi, j)
                      /\ Parted(m, cur, i, j) => SessionAt(m, hi, i) < SessionAt(m, hi, j)
    BY <1>1 DEF Sorted
  <2>1. i \in 0..n
    BY <1>1
  <2>2. CASE j \in 0..n
    BY <1>2, <1>4, <2>1, <2>2 DEF Sorted
  <2>3. CASE j = n + 1
    <3>1. x \in Frame /\ SessionAt(m, hi, j) = t /\ t >= s /\ (t = s => e = FALSE)
      BY <1>3, <2>3
    <3>2. /\ SessionAt(m, hi, i) \in Nat /\ SessionAt(m, hi, i) <= s
          /\ SessionAt(m, hi, i) = s /\ Parted(m, cur, i, j) => e = TRUE
      BY <1>1, <1>2, <1>4, <1>5, <2>1, <2>3
    <3> QED
      BY <3>1, <3>2
  <2> QED
    BY <1>1, <2>2, <2>3
<1>7. Latest(m, hi, cur, t, b)
  <2> SUFFICES ASSUME NEW i \in 0..(n + 1)
               PROVE  /\ SessionAt(m, hi, i) <= t
                      /\ SessionAt(m, hi, i) # 0 /\ SessionAt(m, hi, i) = t
                         /\ Parted(m, cur, i, n + 2) => b = TRUE
    <3>1. Len(m) = n + 1 /\ Len(m) + 1 = n + 2
      BY <1>1
    <3> QED
      BY <3>1 DEF Latest
  <2>1. CASE b = TRUE /\ t = s /\ x \notin Frame
    <3>1. SessionAt(m, hi, i) <= t
      BY <1>1, <1>2, <1>3, <1>5, <2>1
    <3> QED
      BY <2>1, <3>1
  <2>2. CASE x \in Frame /\ t >= s /\ (t = s => e = FALSE) /\ x # CloseItem
    <3>1. CASE i \in 0..n
      <4>1. Parted(m, cur, i, n + 2) => Parted(l, cur, i, n + 1)
        <5>1. \A k \in (i + 1)..((n + 2) - 1) :
                m[k] = CloseItem => k \in (i + 1)..((n + 1) - 1) /\ m[k] = l[k]
          BY <1>1, <2>2, <3>1
        <5> QED
          BY <5>1 DEF Parted
      <4>2. SessionAt(m, hi, i) \in Nat /\ SessionAt(m, hi, i) <= s
        BY <1>2, <1>5, <3>1
      <4>3. SessionAt(m, hi, i) = t => t = s
        BY <2>2, <4>2
      <4> QED
        BY <1>2, <1>5, <2>2, <3>1, <4>1, <4>2, <4>3
    <3>2. CASE i = n + 1
      <4>1. ~Parted(m, cur, i, n + 2)
        BY <1>1, <3>2 DEF Parted
      <4> QED
        BY <1>3, <2>2, <3>2, <4>1
    <3>3. i \in 0..n \/ i = n + 1
      BY <1>1
    <3> QED
      BY <3>1, <3>2, <3>3
  <2> QED
    BY <2>1, <2>2
<1> QED
  BY <1>6, <1>7 DEF m

(* ... or is dropped.                                                      *)
LEMMA DroppedIsLatest ==
  ASSUME NEW l \in Seq(QueueItem), NEW hi \in Nat, NEW cur, NEW s \in Nat, NEW e,
         NEW t \in Nat, Latest(l, hi, cur, s, e), t >= s, t = s => e = FALSE
  PROVE  Latest(l, hi, cur, t, FALSE)
<1> SUFFICES ASSUME NEW i \in 0..Len(l)
             PROVE  /\ SessionAt(l, hi, i) <= t
                    /\ ~(/\ SessionAt(l, hi, i) # 0 /\ SessionAt(l, hi, i) = t
                         /\ Parted(l, cur, i, Len(l) + 1))
  BY DEF Latest
<1>1. SessionAt(l, hi, i) \in Nat /\ SessionAt(l, hi, i) <= s
  BY SessionAtIsNat DEF Latest
<1>2. SessionAt(l, hi, i) = t => t = s
  BY <1>1
<1> QED
  BY <1>1, <1>2 DEF Latest

(* The writer handles the first: a frame, in a chunk of its session, a     *)
(* CloseItem, or the sentinel.                                             *)
LEMMA ShrinksSorted ==
  ASSUME NEW l \in Seq(QueueItem), NEW m \in Seq(QueueItem), Len(l) = Len(m) + 1,
         \A i \in 1..Len(m) : m[i] = l[i + 1],
         NEW hi, NEW cur, NEW s, NEW e, NEW hi2, NEW cur2,
         Sorted(l, hi, cur), Latest(l, hi, cur, s, e),
         \/ l[1] \in Frame /\ hi2 = l[1].session /\ cur2 = hi2 /\ cur2 # 0
         \/ l[1] = CloseItem /\ l[1] \notin Frame /\ hi2 = hi /\ cur2 = 0
         \/ l[1] \notin Frame /\ hi2 = hi /\ cur2 = cur
  PROVE  Sorted(m, hi2, cur2) /\ Latest(m, hi2, cur2, s, e)
<1> DEFINE n == Len(m)
           from(i) == IF i = 0 /\ l[1] \notin Frame THEN 0 ELSE i + 1
<1>1. n \in Nat /\ Len(l) = n + 1
  BY LenProperties
<1>2. \A i \in 0..n : from(i) \in 0..Len(l)
  BY <1>1
<1>3. \A i \in 0..n : SessionAt(m, hi2, i) = SessionAt(l, hi, from(i))
  BY <1>1 DEF SessionAt
<1>4. \A i \in 0..n, j \in 0..(n + 1) :
        i < j /\ Parted(m, cur2, i, j) => Parted(l, cur, from(i), j + 1)
  <2> SUFFICES ASSUME NEW i \in 0..n, NEW j \in 0..(n + 1), i < j, Parted(m, cur2, i, j)
               PROVE  Parted(l, cur, from(i), j + 1)
    OBVIOUS
  <2>1. CASE i = 0 /\ cur2 = 0 /\ l[1] = CloseItem /\ l[1] \notin Frame
    <3>1. from(i) = 0 /\ 1 \in (0 + 1)..((j + 1) - 1)
      BY <1>1, <2>1
    <3> QED
      BY <2>1, <3>1 DEF Parted
  <2>2. CASE i = 0 /\ cur2 = 0 /\ ~(l[1] = CloseItem /\ l[1] \notin Frame)
    <3>1. cur = 0 /\ from(i) = 0
      BY <2>2
    <3> QED
      BY <3>1 DEF Parted
  <2>3. CASE \E k \in (i + 1)..(j - 1) : m[k] = CloseItem
    <3>1. PICK k \in (i + 1)..(j - 1) : m[k] = CloseItem
      BY <2>3
    <3>2. k \in 1..n /\ k + 1 \in (from(i) + 1)..((j + 1) - 1)
      BY <1>1, <3>1
    <3>3. l[k + 1] = CloseItem
      BY <3>1, <3>2
    <3> QED
      BY <3>2, <3>3 DEF Parted
  <2> QED
    BY <2>1, <2>2, <2>3 DEF Parted
<1>5. Sorted(m, hi2, cur2)
  <2> SUFFICES ASSUME NEW i \in 0..n, NEW j \in 0..n, i < j,
                      SessionAt(m, hi2, i) # 0, SessionAt(m, hi2, j) # 0
               PROVE  /\ SessionAt(m, hi2, i) <= SessionAt(m, hi2, j)
                      /\ Parted(m, cur2, i, j) => SessionAt(m, hi2, i) < SessionAt(m, hi2, j)
    BY DEF Sorted
  <2>1. from(i) < from(j) /\ from(j) = j + 1 /\ j \in 0..(n + 1)
    BY <1>1
  <2>2. /\ SessionAt(l, hi, from(i)) <= SessionAt(l, hi, from(j))
        /\ Parted(l, cur, from(i), from(j))
           => SessionAt(l, hi, from(i)) < SessionAt(l, hi, from(j))
    BY <1>2, <1>3, <2>1 DEF Sorted
  <2> QED
    BY <1>3, <1>4, <2>1, <2>2
<1>6. Latest(m, hi2, cur2, s, e)
  <2> SUFFICES ASSUME NEW i \in 0..n
               PROVE  /\ SessionAt(m, hi2, i) <= s
                      /\ SessionAt(m, hi2, i) # 0 /\ SessionAt(m, hi2, i) = s
                         /\ Parted(m, cur2, i, n + 1) => e = TRUE
    BY DEF Latest
  <2>1. Parted(m, cur2, i, n + 1) => Parted(l, cur, from(i), Len(l) + 1)
    BY <1>1, <1>4
  <2> QED
    BY <1>2, <1>3, <2>1 DEF Latest
<1> QED
  BY <1>5, <1>6

-----------------------------------------------------------------------------
(* What is ahead of the writer, first to last. *)
Line == IF item = None THEN q ELSE <<item>> \o q

High(w) == IF Len(w.disk) = 0 THEN 0 ELSE w.disk[Len(w.disk)].session

LineInv ==
  /\ Sorted(Line, High(files), current_session)
  /\ Latest(Line, High(files), current_session, session, ended)

(* The chunks on disk, from the latest back: none is of a later session,   *)
(* and in the open one names go up to the second its chunk was started.    *)
NamesInv ==
  /\ current_session \in {0, High(files)}
  /\ \A k \in 1..Len(files.disk) :
       /\ files.disk[k].session <= High(files)
       /\ files.disk[k].session = current_session
          => files.disk[k].stamp <= chunk_started \div Second
  /\ \A i, j \in 1..Len(files.disk) :
       i # j => <<files.disk[i].session, files.disk[i].stamp>>
                # <<files.disk[j].session, files.disk[j].stamp>>

LEMMA HighIsNat == ASSUME NEW w \in Files PROVE High(w) \in Nat
<1>1. Len(w.disk) \in Nat /\ \A i \in 1..Len(w.disk) : w.disk[i] \in Chunk
  BY OpenMeans
<1>2. \A c \in Chunk : c.session \in Nat
  BY DEF Chunk
<1> QED
  BY <1>1, <1>2 DEF High

LEMMA SameHigh == ASSUME NEW v \in Files, NEW w \in Files, SameNames(v, w) PROVE High(v) = High(w)
<1>1. Len(w.disk) \in Nat
  BY OpenMeans
<1> QED
  BY <1>1 DEF SameNames, High

LEMMA SameNamesInv ==
  ASSUME NamesInv, files \in Files, files' \in Files, SameNames(files', files),
         current_session' \in {0, current_session}, chunk_started' = chunk_started
  PROVE  NamesInv' /\ High(files') = High(files)
<1>1. \A k \in 1..Len(files.disk) : files.disk[k].session # 0
  <2>1. \A k \in 1..Len(files.disk) : files.disk[k] \in Chunk
    BY OpenMeans
  <2>2. \A c \in Chunk : c.session # 0
    BY Sizes DEF Chunk
  <2> QED
    BY <2>1, <2>2
<1> QED
  BY <1>1, SameHigh DEF NamesInv, SameNames

LEMMA LineIsSeq == Types => Line \in Seq(QueueItem)
<1> SUFFICES ASSUME Types PROVE Line \in Seq(QueueItem)
  OBVIOUS
<1>1. CASE item = None
  BY <1>1 DEF Line, Types
<1>2. CASE item # None
  <2>1. <<item>> \in Seq(QueueItem) /\ q \in Seq(QueueItem)
    BY <1>2 DEF Types
  <2> QED
    BY <1>2, <2>1, ConcatProperties DEF Line
<1> QED
  BY <1>1, <1>2

LEMMA PutIsLast ==
  ASSUME Types, NEW x \in QueueItem, q' = Append(q, x), item' = item
  PROVE  Line' = Append(Line, x)
<1>1. CASE item = None
  BY <1>1 DEF Line
<1>2. CASE item # None
  <2>1. <<item>> \in Seq(QueueItem) /\ q \in Seq(QueueItem) /\ <<x>> \in Seq(QueueItem)
    BY <1>2 DEF Types
  <2>2. <<item>> \o (q \o <<x>>) = (<<item>> \o q) \o <<x>>
    BY <2>1, ConcatAssociative
  <2>3. Append(q, x) = q \o <<x>> /\ Append(Line, x) = Line \o <<x>>
    BY <2>1, AppendIsConcat, LineIsSeq
  <2> QED
    BY <1>2, <2>2, <2>3 DEF Line
<1> QED
  BY <1>1, <1>2

LEMMA GotIsFirst ==
  ASSUME Types, item = None, q # <<>>, item' = Head(q), q' = Tail(q)
  PROVE  Line' = Line
<1>1. Head(q) \in QueueItem /\ q \in Seq(QueueItem)
  BY HeadTailProperties DEF Types
<1>2. Head(q) # None
  BY <1>1, LoggerAssumption DEF QueueItem
<1>3. q = <<Head(q)>> \o Tail(q)
  BY <1>1
<1> QED
  BY <1>2, <1>3 DEF Line

LEMMA HandledWasFirst ==
  ASSUME Types, item # None, item' = None, q' = q
  PROVE  /\ Line' \in Seq(QueueItem) /\ Len(Line) = Len(Line') + 1 /\ Line[1] = item
         /\ \A i \in 1..Len(Line') : Line'[i] = Line[i + 1]
<1>1. /\ <<item>> \in Seq(QueueItem) /\ Len(<<item>>) = 1 /\ <<item>>[1] = item
      /\ q \in Seq(QueueItem) /\ Len(q) \in Nat
  BY LenProperties DEF Types
<1>2. Line' = q /\ Line = <<item>> \o q
  BY DEF Line
<1>3. /\ Len(Line) = 1 + Len(q)
      /\ \A i \in 1..(1 + Len(q)) : Line[i] = IF i <= 1 THEN <<item>>[i] ELSE q[i - 1]
  BY <1>1, <1>2, ConcatProperties
<1>4. Line[1] = item
  BY <1>1, <1>3
<1>5. ASSUME NEW i \in 1..Len(q) PROVE q[i] = Line[i + 1]
  <2>1. i + 1 \in 1..(1 + Len(q)) /\ ~(i + 1 <= 1) /\ (i + 1) - 1 = i
    BY <1>1
  <2> QED
    BY <1>3, <2>1
<1> QED
  BY <1>1, <1>2, <1>3, <1>4, <1>5

-----------------------------------------------------------------------------
LEMMA LoopLineInv == Types /\ FilesInv /\ LineInv /\ Loop => LineInv'
<1> SUFFICES ASSUME Types, FilesInv, LineInv, Loop PROVE LineInv'
  OBVIOUS
<1>1. UNCHANGED <<item, files, current_session>>
  BY DEF Loop, OfferFrame, CloseSession, PutCloseItem, Stop, PutSentinel, Join, JoinTimesOut,
         Call, BlockingPut, writer
<1>2. /\ Line \in Seq(QueueItem) /\ High(files) \in Nat /\ session \in Nat
      /\ ended \in BOOLEAN
  BY LineIsSeq, HighIsNat, Sizes DEF FilesInv, Tidy, Types
<1>3. CloseItem \notin Frame /\ Sentinel \notin Frame
  BY LoggerAssumption
<1>4. CASE OfferFrame
  <2>1. PICK s \in NextSessions :
          Write([session |-> s, n |-> Offered + 1]) /\ session' = s
    BY <1>4 DEF OfferFrame
  <2> DEFINE f == [session |-> s, n |-> Offered + 1]
  <2>2. Offered + 1 \in 1..MaxFrames
    BY <1>4, Sizes, LenProperties DEF OfferFrame, Offered, Types
  <2>3. /\ f \in Frame /\ f.session = s /\ s \in Nat /\ s >= session
        /\ s = session => ended = FALSE
    BY <1>2, <2>2, Sizes DEF NextSessions, Frame
  <2>4. ended' = FALSE
    BY <1>4 DEF OfferFrame
  <2>5. q' = q \/ q' = Append(q, f)
    BY <2>1 DEF Write
  <2> HIDE DEF f
  <2>6. CASE q' = Append(q, f)
    <3>1. f \in QueueItem /\ f # CloseItem
      BY <1>3, <2>3 DEF QueueItem
    <3>2. Line' = Append(Line, f)
      BY <1>1, <2>6, <3>1, PutIsLast
    <3> QED
      BY <1>1, <1>2, <2>1, <2>3, <2>4, <3>1, <3>2, GrowsSorted DEF LineInv
  <2>7. CASE q' = q
    <3>1. Line' = Line
      BY <1>1, <2>7 DEF Line
    <3> QED
      BY <1>1, <1>2, <2>1, <2>3, <2>4, <3>1, DroppedIsLatest DEF LineInv
  <2> QED
    BY <2>5, <2>6, <2>7
<1>5. CASE PutCloseItem \/ PutSentinel
  <2>1. PICK i \in {CloseItem, Sentinel} : q' = Append(q, i)
    BY <1>5 DEF PutCloseItem, PutSentinel, BlockingPut
  <2>2. ended' = TRUE /\ session' = session
    BY <1>5 DEF PutCloseItem, PutSentinel, BlockingPut
  <2>3. i \in QueueItem /\ i \notin Frame
    BY <1>3 DEF QueueItem
  <2>4. Line' = Append(Line, i)
    BY <1>1, <2>1, <2>3, PutIsLast
  <2> QED
    BY <1>1, <1>2, <2>2, <2>3, <2>4, GrowsSorted DEF LineInv
<1>6. CASE CloseSession \/ Stop \/ Join \/ JoinTimesOut
  BY <1>6 DEF CloseSession, Stop, Join, JoinTimesOut, Call, writer, LineInv, Line
<1> QED
  BY <1>4, <1>5, <1>6 DEF Loop

(* A second and more later the stamp is another. *)
LEMMA LaterStamp ==
  ASSUME NEW a \in Nat, NEW b \in Nat, NEW s \in Nat \ {0}, b - a >= s
  PROVE  b \div s > a \div s
OBVIOUS

(* A new chunk is of a later session than all others, or it is rolled from *)
(* one of this session that was started in an earlier second.              *)
LEMMA NewNameIsNew ==
  ASSUME Types, FilesInv, LineInv, NamesInv, item \in Frame, NeedsChunk(item),
         NEW k \in 1..Len(files.disk)
  PROVE  \/ files.disk[k].session < item.session
         \/ files.disk[k].session = item.session /\ files.disk[k].stamp < now \div Second
<1> DEFINE hi == High(files)
<1>1. /\ item.session \in Nat /\ item.session # 0 /\ hi \in Nat
      /\ files.disk[k].session \in Nat /\ files.disk[k].session # 0
      /\ files.disk[k].stamp \in Nat /\ files.disk[k].session <= hi
  <2>1. files \in Files
    BY DEF FilesInv, Tidy
  <2>2. files.disk[k] \in Chunk
    BY <2>1, OpenMeans
  <2> QED
    BY <2>1, <2>2, HighIsNat, Sizes DEF Frame, Chunk, NamesInv
<1>2. CASE item.session # current_session
  <2>1. item # None
    BY LoggerAssumption
  <2>2. /\ <<item>> \in Seq(QueueItem) /\ q \in Seq(QueueItem) /\ Line = <<item>> \o q
        /\ Len(<<item>>) = 1 /\ <<item>>[1] = item /\ Len(q) \in Nat
    BY <2>1, LenProperties DEF Types, Line, QueueItem
  <2>3. Len(Line) = 1 + Len(q) /\ Line[1] = item
    <3>1. /\ Len(Line) = 1 + Len(q)
          /\ \A i \in 1..(1 + Len(q)) : Line[i] = IF i <= 1 THEN <<item>>[i] ELSE q[i - 1]
      BY <2>2, ConcatProperties
    <3> QED
      BY <2>2, <3>1
  <2>4. SessionAt(Line, hi, 0) = hi /\ SessionAt(Line, hi, 1) = item.session
    BY <2>3 DEF SessionAt
  <2>5. 0 \in 0..Len(Line) /\ 1 \in 0..Len(Line)
    BY <2>2, <2>3
  <2>6. hi <= item.session /\ (current_session = 0 => hi < item.session)
    BY <1>1, <2>4, <2>5 DEF LineInv, Sorted, Parted
  <2>7. hi < item.session
    BY <1>1, <1>2, <2>6 DEF NamesInv
  <2> QED
    BY <1>1, <2>7
<1>3. CASE Rolls(item)
  <2>1. item.session = current_session /\ current_session = hi
    BY <1>1, <1>3 DEF Rolls, NamesInv
  <2>2. now - chunk_started >= Second /\ now \in Nat /\ chunk_started \in Nat
    BY <1>3, Sizes DEF Rolls, Types
  <2>3. chunk_started \div Second < now \div Second
    BY <2>2, Sizes, LaterStamp
  <2>4. chunk_started \div Second \in Nat /\ now \div Second \in Nat
    BY <2>2, Sizes
  <2>5. files.disk[k].session = item.session
        => files.disk[k].stamp <= chunk_started \div Second
    BY <2>1 DEF NamesInv
  <2> QED
    BY <1>1, <2>1, <2>3, <2>4, <2>5
<1> QED
  BY <1>2, <1>3 DEF NeedsChunk

LEMMA HandleFrameNames ==
  ASSUME Types, FilesInv, LineInv, NamesInv, thread = "running", HandleFrame
  PROVE  NamesInv' /\ High(files') = item.session
<1>1. item \in Frame /\ current_session' = item.session /\ files \in Files
  BY DEF HandleFrame, FilesInv, Tidy
<1>2. files' \in Files
  BY HandleFrameFiles DEF FilesInv, Tidy
<1>3. item.session \in 1..MaxSessions /\ item.session # 0 /\ item.session \in Nat /\ now \in Nat
  BY <1>1, Sizes DEF Frame, Types
<1>4. CASE NeedsChunk(item)
  <2> DEFINE u == CloseChunk(files)
             w == OpenChunk(u, item.session)
             n == Len(files.disk)
             stamp == now \div Second
  <2>1. Tidy(u, 0) /\ SameNames(u, files) /\ ~IsOpen(u)
    BY CloseTidy DEF FilesInv
  <2>2. /\ Tidy(w, item.session) /\ IsOpen(w) /\ Len(w.disk) = n + 1 /\ n \in Nat
        /\ w.disk[n + 1].session = item.session /\ w.disk[n + 1].stamp = stamp
        /\ \A i \in 1..n : w.disk[i] = u.disk[i]
    <3>1. Len(u.disk) = n /\ n \in Nat
      BY <1>1, <2>1, OpenMeans DEF SameNames
    <3> HIDE DEF u
    <3>2. /\ Tidy(w, item.session) /\ IsOpen(w) /\ Len(w.disk) = Len(u.disk) + 1
          /\ w.disk[Len(u.disk) + 1].session = item.session
          /\ w.disk[Len(u.disk) + 1].stamp = now \div Second
          /\ \A i \in 1..Len(u.disk) : w.disk[i] = u.disk[i]
      BY <1>3, <2>1, OpenTidy
    <3> HIDE DEF w
    <3> QED
      BY <3>1, <3>2
  <2> HIDE DEF w
  <2>3. SameNames(files', w)
    <3>1. files' = AddRow(w, item)
      BY <1>4 DEF HandleFrame, w
    <3> QED
      BY <1>1, <2>2, <3>1, AddRowTidy
  <2> HIDE DEF u
  <2>4. /\ Len(files'.disk) = n + 1
        /\ files'.disk[n + 1].session = item.session /\ files'.disk[n + 1].stamp = stamp
        /\ \A i \in 1..n : /\ files'.disk[i].session = files.disk[i].session
                           /\ files'.disk[i].stamp = files.disk[i].stamp
    <3>1. n + 1 \in 1..Len(w.disk) /\ \A i \in 1..n : i \in 1..Len(w.disk)
      BY <2>2
    <3>2. /\ Len(files'.disk) = Len(w.disk)
          /\ \A i \in 1..Len(w.disk) : /\ files'.disk[i].session = w.disk[i].session
                                      /\ files'.disk[i].stamp = w.disk[i].stamp
      BY <2>3 DEF SameNames
    <3>3. \A i \in 1..n : /\ u.disk[i].session = files.disk[i].session
                         /\ u.disk[i].stamp = files.disk[i].stamp
      BY <2>1 DEF SameNames
    <3> QED
      BY <2>2, <3>1, <3>2, <3>3
  <2>5. High(files') = item.session
    BY <2>2, <2>4 DEF High
  <2>6. \A i \in 1..n :
          /\ files.disk[i].session \in Nat /\ files.disk[i].stamp \in Nat
          /\ \/ files.disk[i].session < item.session
             \/ files.disk[i].session = item.session /\ files.disk[i].stamp < stamp
    <3>1. \A i \in 1..n : files.disk[i] \in Chunk
      BY <1>1, OpenMeans
    <3>2. \A c \in Chunk : c.session \in Nat /\ c.stamp \in Nat
      BY DEF Chunk
    <3>3. \A i \in 1..n : \/ files.disk[i].session < item.session
                         \/ /\ files.disk[i].session = item.session
                            /\ files.disk[i].stamp < now \div Second
      BY <1>1, <1>4, NewNameIsNew
    <3> QED
      BY <3>1, <3>2, <3>3
  <2>7. chunk_started' = now /\ stamp \in Nat
    BY <1>3, <1>4, Sizes DEF HandleFrame
  <2> HIDE DEF stamp
  <2>8. \A i \in 1..(n + 1) : i \in 1..n \/ i = n + 1
    BY <2>2
  <2>9. ASSUME NEW k \in 1..(n + 1)
        PROVE  /\ files'.disk[k].session <= item.session
               /\ files'.disk[k].session = item.session => files'.disk[k].stamp <= stamp
    <3>1. CASE k \in 1..n
      <4> DEFINE c == files.disk[k]
      <4>1. files'.disk[k].session = c.session /\ files'.disk[k].stamp = c.stamp
        BY <2>4, <3>1
      <4>2. /\ c.session \in Nat /\ c.stamp \in Nat
            /\ \/ c.session < item.session
               \/ c.session = item.session /\ c.stamp < stamp
        BY <2>6, <3>1
      <4> HIDE DEF c
      <4> QED
        BY <1>3, <2>7, <4>1, <4>2
    <3>2. CASE k = n + 1
      BY <1>3, <2>4, <2>7, <3>2
    <3> QED
      BY <2>8, <3>1, <3>2
  <2>10. ASSUME NEW i \in 1..(n + 1), NEW j \in 1..(n + 1), i # j
         PROVE  <<files'.disk[i].session, files'.disk[i].stamp>>
                # <<files'.disk[j].session, files'.disk[j].stamp>>
    <3>1. CASE i \in 1..n /\ j \in 1..n
      BY <2>4, <2>10, <3>1 DEF NamesInv
    <3>2. ASSUME NEW a \in 1..n
          PROVE  <<files.disk[a].session, files.disk[a].stamp>> # <<item.session, stamp>>
      BY <1>3, <2>6, <2>7
    <3> QED
      BY <2>4, <2>8, <2>10, <3>1, <3>2
  <2> QED
    BY <1>1, <2>4, <2>5, <2>7, <2>9, <2>10 DEF NamesInv, stamp
<1>5. CASE ~NeedsChunk(item)
  <2>1. item.session = current_session /\ current_session = High(files)
    BY <1>3, <1>5 DEF NeedsChunk, NamesInv
  <2>2. files' = AddRow(files, item) /\ chunk_started' = chunk_started
    BY <1>5 DEF HandleFrame
  <2>3. Tidy(files, item.session) /\ IsOpen(files)
    BY <1>3, <2>1 DEF FilesInv
  <2>4. SameNames(files', files)
    BY <1>1, <2>2, <2>3, AddRowTidy
  <2> QED
    BY <1>1, <1>2, <2>1, <2>2, <2>4, SameNamesInv
<1> QED
  BY <1>4, <1>5

LEMMA HandleNames ==
  ASSUME Types, FilesInv, FilesInv', LineInv, NamesInv, Handle
  PROVE  LineInv' /\ NamesInv'
<1>1. /\ item \in QueueItem /\ item # None /\ item' = None /\ q' = q
      /\ UNCHANGED <<session, ended>>
  BY LoggerAssumption DEF Handle, HandleFrame, HandleClose, HandleSentinel, QueueItem, loop
<1>2. /\ Line \in Seq(QueueItem) /\ Line' \in Seq(QueueItem) /\ Len(Line) = Len(Line') + 1
      /\ Line[1] = item /\ \A i \in 1..Len(Line') : Line'[i] = Line[i + 1]
  BY <1>1, HandledWasFirst, LineIsSeq
<1>3. /\ NamesInv'
      /\ \/ item \in Frame /\ High(files') = item.session
            /\ current_session' = item.session /\ item.session # 0
         \/ item = CloseItem /\ item \notin Frame
            /\ High(files') = High(files) /\ current_session' = 0
         \/ item \notin Frame /\ High(files') = High(files)
            /\ current_session' = current_session
  <2>1. CASE HandleFrame
    BY <2>1, HandleFrameNames, Sizes DEF Handle, HandleFrame, Frame
  <2>2. CASE HandleClose \/ HandleSentinel
    <3>1. SameNames(files', files) /\ files \in Files /\ files' \in Files
      BY <2>2, CloseTidy DEF HandleClose, HandleSentinel, FilesInv, Tidy
    <3>2. NamesInv' /\ High(files') = High(files)
      BY <2>2, <3>1, SameNamesInv DEF HandleClose, HandleSentinel
    <3> QED
      BY <2>2, <3>2, LoggerAssumption DEF HandleClose, HandleSentinel
  <2> QED
    BY <2>1, <2>2 DEF Handle
<1>4. LineInv'
  BY <1>1, <1>2, <1>3, ShrinksSorted DEF LineInv
<1> QED
  BY <1>3, <1>4

LEMMA NextNames ==
  Types /\ FilesInv /\ FilesInv' /\ LineInv /\ NamesInv /\ [Next]_vars => LineInv' /\ NamesInv'
<1> SUFFICES ASSUME Types, FilesInv, FilesInv', LineInv, NamesInv, [Next]_vars
             PROVE  LineInv' /\ NamesInv'
  OBVIOUS
<1>1. files \in Files /\ files' \in Files
  BY DEF FilesInv, Tidy
<1>2. CASE Loop
  <2>1. UNCHANGED <<files, current_session, chunk_started>>
    BY <1>2 DEF Loop, OfferFrame, CloseSession, PutCloseItem, Stop, PutSentinel, Join,
                JoinTimesOut, Call, BlockingPut, writer
  <2> QED
    BY <1>2, <2>1, LoopLineInv DEF NamesInv
<1>3. CASE Handle
  BY <1>3, HandleNames
<1>4. ASSUME SameNames(files', files), Line' = Line,
             UNCHANGED <<current_session, chunk_started, session, ended>>
      PROVE  LineInv' /\ NamesInv'
  BY <1>1, <1>4, SameNamesInv DEF LineInv
<1>5. CASE Get
  BY <1>4, <1>5, GotIsFirst DEF Get, loop, SameNames
<1>6. CASE IdleFlush
  <2>1. SameNames(files', files)
    BY <1>6, FlushTidy DEF IdleFlush, FilesInv
  <2> QED
    BY <1>4, <1>6, <2>1 DEF IdleFlush, loop, Line
<1>7. CASE DiskError
  <2>1. SameNames(files', files)
    BY <1>7, CloseTidy DEF DiskError, FilesInv, SameNames
  <2> QED
    BY <1>4, <1>7, <2>1 DEF DiskError, loop, Line
<1>8. CASE Exit \/ TimePasses \/ UNCHANGED vars
  BY <1>4, <1>8 DEF Exit, TimePasses, vars, loop, writer, Line, SameNames
<1> QED
  BY <1>2, <1>3, <1>5, <1>6, <1>7, <1>8 DEF Next, Writer

(* No chunk has the name of an earlier one, although names are no finer    *)
(* than a second and a session may have many: roll_minutes is no less, and *)
(* no session is gone back to.                                             *)
THEOREM NoChunkOverwritten == Spec => []DistinctFiles
<1>1. Init => LineInv /\ NamesInv
  <2> SUFFICES ASSUME Init PROVE LineInv /\ NamesInv
    OBVIOUS
  <2>1. Line = <<>> /\ Len(files.disk) = 0 /\ session = 0 /\ current_session = 0
    BY DEF Init, Line
  <2>2. High(files) = 0 /\ \A i \in 0..Len(Line) : SessionAt(Line, 0, i) = 0
    BY <2>1 DEF High, SessionAt
  <2> QED
    BY <2>1, <2>2 DEF LineInv, NamesInv, Sorted, Latest
<1>2. FilesInv /\ NamesInv => DistinctFiles
  BY DEF FilesInv, Tidy, Files, NamesInv, DistinctFiles
<1> QED
  BY <1>1, <1>2, InitInv, NextTypes, NextFilesInv, NextNames, PTL DEF Spec
-----------------------------------------------------------------------------
(***************************************************************************)
(* The rows of a list of chunks, and the frames of a queue, as one item is *)
(* added or taken.                                                         *)
(***************************************************************************)

(* Three sequences may be concatenated either way.                         *)
LEMMA ThreeParts == \A a, b, c \in Seq(Frame) : (a \o b) \o c = a \o (b \o c)
BY ONLY ConcatAssociative

(* The rows of chunks are frames, in order.                                *)
LEMMA RowsType ==
  ASSUME NEW d \in Seq(Chunk)
  PROVE  /\ [i \in DOMAIN d |-> d[i].rows] \in Seq(Seq(Frame))
         /\ Len([i \in DOMAIN d |-> d[i].rows]) = Len(d)
         /\ Rows(d) \in Seq(Frame)
<1> DEFINE r == [i \in 1..Len(d) |-> d[i].rows]
<1>1. Len(d) \in Nat /\ DOMAIN d = 1..Len(d)
  BY LenProperties
<1>2. \A i \in 1..Len(d) : d[i].rows \in Seq(Frame)
  <2>1. \A i \in 1..Len(d) : d[i] \in Chunk
    BY ElementOfSeq
  <2>2. \A c \in Chunk : c.rows \in Seq(Frame)
    BY DEF Chunk
  <2> QED
    BY <2>1, <2>2
<1>3. r \in Seq(Seq(Frame)) /\ Len(r) = Len(d)
  BY <1>1, <1>2, IsASeq
<1>4. FlattenSeq(r) \in Seq(Frame)
  BY <1>3, FlattenType
<1> QED
  BY <1>1, <1>3, <1>4 DEF Rows

(* One chunk more has its rows at the end.                                 *)
LEMMA RowsAppend ==
  ASSUME NEW d \in Seq(Chunk), NEW c \in Chunk
  PROVE  Rows(Append(d, c)) = Rows(d) \o c.rows
<1> DEFINE n == Len(d)
           e == Append(d, c)
           r == [i \in DOMAIN d |-> d[i].rows]
           s == [i \in DOMAIN e |-> e[i].rows]
<1>1. /\ n \in Nat /\ DOMAIN d = 1..n /\ e \in Seq(Chunk) /\ Len(e) = n + 1
      /\ DOMAIN e = 1..(n + 1) /\ e[n + 1] = c /\ \A i \in 1..n : e[i] = d[i]
  BY AppendProperties, LenProperties
<1>2. r \in Seq(Seq(Frame)) /\ Len(r) = n
  BY <1>1, RowsType
<1>3. c.rows \in Seq(Frame)
  BY DEF Chunk
<1> HIDE DEF e
<1>4. s = Append(r, c.rows)
  <2>1. s \in Seq(Seq(Frame)) /\ Len(s) = n + 1
    BY <1>1, RowsType
  <2>2. /\ Append(r, c.rows) \in Seq(Seq(Frame)) /\ Len(Append(r, c.rows)) = n + 1
        /\ Append(r, c.rows)[n + 1] = c.rows
        /\ \A i \in 1..n : Append(r, c.rows)[i] = r[i]
    BY <1>2, <1>3, AppendProperties
  <2>3. \A i \in 1..(n + 1) : s[i] = Append(r, c.rows)[i]
    <3> SUFFICES ASSUME NEW i \in 1..(n + 1) PROVE s[i] = Append(r, c.rows)[i]
      OBVIOUS
    <3>1. s[i] = e[i].rows
      BY <1>1
    <3>2. CASE i = n + 1
      BY <1>1, <2>2, <3>1, <3>2
    <3>3. CASE i \in 1..n
      <4>1. r[i] = d[i].rows
        BY <1>1, <3>3
      <4> QED
        BY <1>1, <2>2, <3>1, <3>3, <4>1
    <3> QED
      BY <1>1, <3>2, <3>3
  <2> HIDE DEF s, r
  <2> QED
    BY <2>1, <2>2, <2>3, SeqEqual
<1>5. FlattenSeq(Append(r, c.rows)) = FlattenSeq(r) \o c.rows
  <2> HIDE DEF r
  <2> QED
    BY <1>2, <1>3, FlattenAppend
<1> QED
  BY <1>4, <1>5 DEF Rows, e

(* What is written to the latest chunk is written after all rows.          *)
LEMMA RowsOfLatest ==
  ASSUME NEW d \in Seq(Chunk), Len(d) # 0, NEW c \in Chunk, NEW b \in Seq(Frame),
         c.rows = d[Len(d)].rows \o b
  PROVE  Rows([d EXCEPT ![Len(d)] = c]) = Rows(d) \o b
<1> DEFINE n == Len(d)
           e == [d EXCEPT ![n] = c]
<1>1. PICK f \in Seq(Chunk), l \in Chunk : d = Append(f, l)
  <2>1. d # <<>>
    BY EmptySeq
  <2> QED
    BY <2>1, SequenceEmptyOrAppend
<1>2. /\ Len(f) \in Nat /\ n = Len(f) + 1 /\ d[n] = l
      /\ \A i \in 1..Len(f) : d[i] = f[i]
  BY <1>1, AppendProperties, LenProperties
<1>3. e = Append(f, c)
  <2>1. /\ e \in Seq(Chunk) /\ Len(e) = n /\ e[n] = c
        /\ \A i \in 1..n : i # n => e[i] = d[i]
    BY <1>2, ExceptSeq
  <2>2. /\ Append(f, c) \in Seq(Chunk) /\ Len(Append(f, c)) = n /\ Append(f, c)[n] = c
        /\ \A i \in 1..Len(f) : Append(f, c)[i] = f[i]
    BY <1>2, AppendProperties
  <2>3. \A i \in 1..n : e[i] = Append(f, c)[i]
    BY <1>2, <2>1, <2>2
  <2> HIDE DEF e
  <2> QED
    BY <2>1, <2>2, <2>3, SeqEqual
<1>4. Rows(e) = Rows(f) \o c.rows /\ Rows(d) = Rows(f) \o l.rows
  BY <1>1, <1>3, RowsAppend
<1>5. Rows(f) \in Seq(Frame) /\ l.rows \in Seq(Frame) /\ c.rows = l.rows \o b
  BY <1>2, RowsType DEF Chunk
<1>6. (Rows(f) \o l.rows) \o b = Rows(f) \o (l.rows \o b)
  BY <1>5, ThreeParts, Zenon
<1> QED
  BY <1>4, <1>5, <1>6

LEMMA OnlyFrameType ==
  ASSUME NEW i PROVE OnlyFrame(i) \in Seq(Frame)
<1>1. ASSUME NEW f \in Frame PROVE <<f>> \in Seq(Frame)
  OBVIOUS
<1>2. <<>> \in Seq(Frame)
  OBVIOUS
<1> QED
  BY <1>1, <1>2, Zenon DEF OnlyFrame

LEMMA FramesType ==
  ASSUME NEW A, NEW s \in Seq(A)
  PROVE  /\ [i \in DOMAIN s |-> OnlyFrame(s[i])] \in Seq(Seq(Frame))
         /\ Len([i \in DOMAIN s |-> OnlyFrame(s[i])]) = Len(s)
         /\ Frames(s) \in Seq(Frame)
<1> DEFINE r == [i \in 1..Len(s) |-> OnlyFrame(s[i])]
<1>1. Len(s) \in Nat /\ DOMAIN s = 1..Len(s)
  BY LenProperties
<1>2. \A i \in 1..Len(s) : OnlyFrame(s[i]) \in Seq(Frame)
  BY OnlyFrameType
<1>3. r \in Seq(Seq(Frame)) /\ Len(r) = Len(s)
  BY <1>1, <1>2, IsASeq
<1>4. FlattenSeq(r) \in Seq(Frame)
  BY <1>3, FlattenType
<1> QED
  BY <1>1, <1>3, <1>4 DEF Frames

(* What is put into a queue is the last of its frames, if it is one.       *)
LEMMA FramesAppend ==
  ASSUME NEW A, NEW s \in Seq(A), NEW x \in A
  PROVE  Frames(Append(s, x)) = Frames(s) \o OnlyFrame(x)
<1> DEFINE n == Len(s)
           e == Append(s, x)
           r == [i \in DOMAIN s |-> OnlyFrame(s[i])]
           t == [i \in DOMAIN e |-> OnlyFrame(e[i])]
<1>1. /\ n \in Nat /\ DOMAIN s = 1..n /\ e \in Seq(A) /\ Len(e) = n + 1
      /\ DOMAIN e = 1..(n + 1) /\ e[n + 1] = x /\ \A i \in 1..n : e[i] = s[i]
  BY AppendProperties, LenProperties
<1>2. r \in Seq(Seq(Frame)) /\ Len(r) = n /\ OnlyFrame(x) \in Seq(Frame)
  BY FramesType, OnlyFrameType
<1> HIDE DEF e
<1>3. t = Append(r, OnlyFrame(x))
  <2>1. t \in Seq(Seq(Frame)) /\ Len(t) = n + 1
    BY <1>1, FramesType
  <2>2. /\ Append(r, OnlyFrame(x)) \in Seq(Seq(Frame)) /\ Len(Append(r, OnlyFrame(x))) = n + 1
        /\ Append(r, OnlyFrame(x))[n + 1] = OnlyFrame(x)
        /\ \A i \in 1..n : Append(r, OnlyFrame(x))[i] = r[i]
    BY <1>2, AppendProperties
  <2>3. \A i \in 1..(n + 1) : t[i] = Append(r, OnlyFrame(x))[i]
    <3> SUFFICES ASSUME NEW i \in 1..(n + 1) PROVE t[i] = Append(r, OnlyFrame(x))[i]
      OBVIOUS
    <3>1. t[i] = OnlyFrame(e[i])
      BY <1>1
    <3>2. CASE i = n + 1
      BY <1>1, <2>2, <3>1, <3>2
    <3>3. CASE i \in 1..n
      <4>1. r[i] = OnlyFrame(s[i])
        BY <1>1, <3>3
      <4> QED
        BY <1>1, <2>2, <3>1, <3>3, <4>1
    <3> QED
      BY <1>1, <3>2, <3>3
  <2> HIDE DEF t, r
  <2> QED
    BY <2>1, <2>2, <2>3, SeqEqual
<1>4. FlattenSeq(Append(r, OnlyFrame(x))) = FlattenSeq(r) \o OnlyFrame(x)
  <2> HIDE DEF r
  <2> QED
    BY <1>2, FlattenAppend
<1> QED
  BY <1>3, <1>4 DEF Frames, e

(* What is taken from it is the first.                                     *)
LEMMA FramesHead ==
  ASSUME NEW A, NEW s \in Seq(A), s # <<>>
  PROVE  Frames(s) = OnlyFrame(Head(s)) \o Frames(Tail(s))
<1> DEFINE n == Len(s)
           e == Tail(s)
           r == [i \in DOMAIN s |-> OnlyFrame(s[i])]
           t == [i \in DOMAIN e |-> OnlyFrame(e[i])]
<1>1. /\ n \in Nat \ {0} /\ DOMAIN s = 1..n /\ e \in Seq(A) /\ Len(e) = n - 1
      /\ DOMAIN e = 1..(n - 1) /\ Head(s) = s[1] /\ \A i \in 1..(n - 1) : e[i] = s[i + 1]
  BY HeadTailProperties, LenProperties, EmptySeq
<1>2. r \in Seq(Seq(Frame)) /\ Len(r) = n /\ r # <<>> /\ Head(r) = OnlyFrame(Head(s))
  <2>1. r \in Seq(Seq(Frame)) /\ Len(r) = n
    BY FramesType
  <2>2. r[1] = OnlyFrame(s[1])
    BY <1>1
  <2> QED
    BY <1>1, <2>1, <2>2, EmptySeq, HeadTailProperties
<1> HIDE DEF e
<1>3. t = Tail(r)
  <2>1. t \in Seq(Seq(Frame)) /\ Len(t) = n - 1
    BY <1>1, FramesType
  <2>2. /\ Tail(r) \in Seq(Seq(Frame)) /\ Len(Tail(r)) = n - 1
        /\ \A i \in 1..(n - 1) : Tail(r)[i] = r[i + 1]
    BY <1>2, HeadTailProperties
  <2>3. \A i \in 1..(n - 1) : t[i] = Tail(r)[i]
    <3> SUFFICES ASSUME NEW i \in 1..(n - 1) PROVE t[i] = Tail(r)[i]
      OBVIOUS
    <3>1. t[i] = OnlyFrame(e[i])
      BY <1>1
    <3>2. r[i + 1] = OnlyFrame(s[i + 1])
      BY <1>1
    <3> QED
      BY <1>1, <2>2, <3>1, <3>2
  <2> HIDE DEF t, r
  <2> QED
    BY <2>1, <2>2, <2>3, SeqEqual
<1>4. FlattenSeq(r) = Head(r) \o FlattenSeq(Tail(r))
  <2> HIDE DEF r
  <2> QED
    BY <1>2, FlattenHead
<1> QED
  BY <1>2, <1>3, <1>4 DEF Frames, e


(* What the writer has taken and handled: rows, then the batch. *)
Contents(w) == Rows(w.disk) \o w.batch

Counted(w) == w.written = Len(Rows(w.disk))

LEMMA ContentsType ==
  ASSUME NEW w \in Files
  PROVE  /\ Rows(w.disk) \in Seq(Frame) /\ w.batch \in Seq(Frame)
         /\ Contents(w) \in Seq(Frame)
         /\ Len(Contents(w)) = Len(Rows(w.disk)) + Len(w.batch)
         /\ Len(Rows(w.disk)) \in Nat /\ Len(w.batch) \in Nat
<1>1. Rows(w.disk) \in Seq(Frame) /\ w.batch \in Seq(Frame)
  BY RowsType DEF Files
<1> QED
  BY <1>1, ConcatProperties, LenProperties DEF Contents

(* A flush turns the batch into rows, at the end, and counts them. *)
LEMMA FlushContents ==
  ASSUME NEW s, NEW w, Tidy(w, s)
  PROVE  /\ Contents(Flush(w)) = Contents(w)
         /\ Counted(w) => Counted(Flush(w))
<1>1. w \in Files /\ w.batch \in Seq(Frame) /\ w.disk \in Seq(Chunk) /\ w.written \in Nat
  BY DEF Tidy, Files
<1>2. CASE w.batch = <<>>
  BY <1>2 DEF Flush
<1>3. CASE w.batch # <<>>
  <2> DEFINE n == Len(w.disk)
             c == [w.disk[n] EXCEPT !.rows = @ \o w.batch]
             d == [w.disk EXCEPT ![n] = c]
  <2>1. IsOpen(w) /\ n # 0 /\ n \in 1..n /\ w.disk[n] \in Chunk
    <3>1. IsOpen(w)
      BY <1>3 DEF Tidy, BatchOf
    <3>2. n \in Nat /\ n # 0 /\ \A i \in 1..n : w.disk[i] \in Chunk
      BY <1>1, <3>1, OpenMeans
    <3> QED
      BY <3>1, <3>2
  <2>2. /\ Flush(w).disk = d /\ Flush(w).batch = <<>>
        /\ Flush(w).written = w.written + Len(w.batch)
    <3>1. w = [batch |-> w.batch, disk |-> w.disk, written |-> w.written]
      BY <1>1 DEF Files
    <3> QED
      BY <1>3, <2>1, <3>1 DEF Flush
  <2>3. c \in Chunk /\ c.rows = w.disk[n].rows \o w.batch
    <3>1. w.disk[n].rows \in Seq(Frame)
      BY <2>1 DEF Chunk
    <3>2. w.disk[n].rows \o w.batch \in Seq(Frame)
      BY <1>1, <3>1, ConcatProperties
    <3> QED
      BY <2>1, <3>1, <3>2 DEF Chunk
  <2>4. Rows(d) = Rows(w.disk) \o w.batch
    <3> HIDE DEF c
    <3> QED
      BY <1>1, <2>1, <2>3, RowsOfLatest
  <2>5. Rows(w.disk) \in Seq(Frame) /\ Rows(d) \in Seq(Frame)
    BY <1>1, <2>4, ContentsType DEF Contents
  <2> HIDE DEF d
  <2>6. Contents(Flush(w)) = Rows(d)
    BY <2>2, <2>5, ConcatEmptySeq DEF Contents
  <2>7. Len(Rows(d)) = Len(Rows(w.disk)) + Len(w.batch)
    BY <1>1, <2>4, <2>5, ConcatProperties
  <2> QED
    BY <2>2, <2>4, <2>6, <2>7 DEF Contents, Counted
<1> QED
  BY <1>2, <1>3

(* A footer changes no row. *)
LEMMA CloseContents ==
  ASSUME NEW s, NEW w, Tidy(w, s)
  PROVE  /\ Contents(CloseChunk(w)) = Contents(w)
         /\ Counted(w) => Counted(CloseChunk(w))
<1> DEFINE v == Flush(w)
<1>1. /\ Tidy(v, s) /\ v.batch = <<>> /\ Contents(v) = Contents(w)
      /\ Counted(w) => Counted(v)
  BY FlushTidy, FlushContents
<1> HIDE DEF v
<1>2. v \in Files /\ v.disk \in Seq(Chunk)
  BY <1>1 DEF Tidy, Files
<1>3. CASE ~IsOpen(v)
  <2>1. CloseChunk(w) = v
    BY <1>3 DEF CloseChunk, v
  <2> QED
    BY <1>1, <2>1
<1>4. CASE IsOpen(v)
  <2> DEFINE n == Len(v.disk)
             c == [v.disk[n] EXCEPT !.closed = TRUE]
             d == [v.disk EXCEPT ![n] = c]
  <2>1. n # 0 /\ n \in 1..n /\ v.disk[n] \in Chunk
    <3>1. n \in Nat /\ n # 0 /\ \A i \in 1..n : v.disk[i] \in Chunk
      BY <1>2, <1>4, OpenMeans
    <3> QED
      BY <3>1
  <2>2. /\ CloseChunk(w).disk = d /\ CloseChunk(w).batch = v.batch
        /\ CloseChunk(w).written = v.written
    <3>1. v = [batch |-> v.batch, disk |-> v.disk, written |-> v.written]
      BY <1>2 DEF Files
    <3>2. CloseChunk(w) = [v EXCEPT !.disk[n].closed = TRUE]
      BY <1>4 DEF CloseChunk, v
    <3>3. [v EXCEPT !.disk[n].closed = TRUE] = [v EXCEPT !.disk = d]
      OBVIOUS
    <3>4. ASSUME NEW x
          PROVE  [v EXCEPT !.disk = x] = [batch |-> v.batch, disk |-> x, written |-> v.written]
      BY <3>1
    <3> QED
      BY <3>2, <3>3, <3>4
  <2>3. c \in Chunk /\ c.rows = v.disk[n].rows /\ c.rows \in Seq(Frame)
    BY <2>1 DEF Chunk
  <2>4. Rows(d) = Rows(v.disk) \o <<>>
    <3>1. c.rows = v.disk[n].rows \o <<>>
      BY <2>3, ConcatEmptySeq
    <3>2. <<>> \in Seq(Frame)
      BY EmptySeq
    <3> HIDE DEF c
    <3> QED
      BY <1>2, <2>1, <2>3, <3>1, <3>2, RowsOfLatest
  <2>5. Rows(d) = Rows(v.disk)
    BY <1>2, <2>4, ContentsType, ConcatEmptySeq
  <2> HIDE DEF d
  <2> QED
    BY <1>1, <2>2, <2>5 DEF Contents, Counted
<1> QED
  BY <1>3, <1>4

(* A new chunk has no row. *)
LEMMA OpenContents ==
  ASSUME NEW w \in Files, NEW s \in 1..MaxSessions, now \in Nat
  PROVE  /\ Contents(OpenChunk(w, s)) = Contents(w)
         /\ Counted(w) => Counted(OpenChunk(w, s))
         /\ OpenChunk(w, s).batch = w.batch
<1> DEFINE c == [session |-> s, stamp |-> now \div Second, rows |-> <<>>, closed |-> FALSE]
<1>1. /\ OpenChunk(w, s).disk = Append(w.disk, c)
      /\ OpenChunk(w, s).batch = w.batch /\ OpenChunk(w, s).written = w.written
  <2>1. w = [batch |-> w.batch, disk |-> w.disk, written |-> w.written]
    BY DEF Files
  <2> QED
    BY <2>1 DEF OpenChunk
<1>2. c \in Chunk /\ c.rows = <<>>
  <2>1. now \div Second \in Nat
    BY Sizes
  <2> QED
    BY <2>1 DEF Chunk
<1> HIDE DEF c
<1>3. Rows(Append(w.disk, c)) = Rows(w.disk)
  <2>1. w.disk \in Seq(Chunk)
    BY DEF Files
  <2>2. Rows(Append(w.disk, c)) = Rows(w.disk) \o c.rows
    BY <1>2, <2>1, RowsAppend
  <2> QED
    BY <1>2, <2>2, ContentsType, ConcatEmptySeq
<1> QED
  BY <1>1, <1>3 DEF Contents, Counted

(* A row is added at the end, and the batch kept below its size. *)
LEMMA AddRowContents ==
  ASSUME NEW w, NEW f \in Frame, Tidy(w, f.session), IsOpen(w), Len(w.batch) < batch_size
  PROVE  /\ Contents(AddRow(w, f)) = Append(Contents(w), f)
         /\ Counted(w) => Counted(AddRow(w, f))
         /\ Len(AddRow(w, f).batch) < batch_size
<1> DEFINE v == [w EXCEPT !.batch = Append(@, f)]
<1>1. /\ w \in Files /\ w.batch \in Seq(Frame) /\ Rows(w.disk) \in Seq(Frame)
      /\ Len(w.batch) \in Nat
  BY ContentsType DEF Tidy, Files
<1>2. v.disk = w.disk /\ v.written = w.written /\ v.batch = Append(w.batch, f)
  <2>1. w = [batch |-> w.batch, disk |-> w.disk, written |-> w.written]
    BY <1>1 DEF Files
  <2> QED
    BY <2>1
<1>3. /\ Append(w.batch, f) \in Seq(Frame) /\ Len(Append(w.batch, f)) = Len(w.batch) + 1
      /\ Append(w.batch, f)[Len(w.batch) + 1] = f
      /\ \A i \in 1..Len(w.batch) : Append(w.batch, f)[i] = w.batch[i]
  BY <1>1, AppendProperties
<1>4. Contents(v) = Append(Contents(w), f)
  <2>1. /\ Append(w.batch, f) = w.batch \o <<f>> /\ <<f>> \in Seq(Frame)
        /\ Append(Contents(w), f) = Contents(w) \o <<f>>
    <3>1. Contents(w) \in Seq(Frame)
      BY ONLY <1>1, ContentsType
    <3>2. <<f>> \in Seq(Frame)
      OBVIOUS
    <3> QED
      BY <1>1, <3>1, <3>2, AppendIsConcat
  <2>2. (Rows(w.disk) \o w.batch) \o <<f>> = Rows(w.disk) \o (w.batch \o <<f>>)
    BY <1>1, <2>1, ThreeParts, Zenon
  <2> QED
    BY <1>2, <2>1, <2>2 DEF Contents
<1>5. Counted(w) => Counted(v)
  BY <1>2 DEF Counted
<1>6. Tidy(v, f.session)
  <2>1. v \in Files
    <3>1. v = [batch |-> Append(w.batch, f), disk |-> w.disk, written |-> w.written]
      <4>1. w = [batch |-> w.batch, disk |-> w.disk, written |-> w.written]
        BY <1>1 DEF Files
      <4> QED
        BY <4>1
    <3> QED
      BY <1>1, <1>3, <3>1 DEF Files
  <2>2. RowsAtHome(v) /\ LatestOpen(v) /\ IsOpen(v)
    BY <1>2 DEF Tidy, RowsAtHome, LatestOpen, IsOpen
  <2>3. \A j \in 1..Len(v.batch) : v.batch[j].session = f.session
    <3> SUFFICES ASSUME NEW j \in 1..(Len(w.batch) + 1)
                 PROVE  Append(w.batch, f)[j].session = f.session
      BY <1>2, <1>3
    <3>1. j \in 1..Len(w.batch) \/ j = Len(w.batch) + 1
      BY <1>1
    <3> QED
      BY <1>3, <3>1 DEF Tidy, BatchOf
  <2>4. v.disk[Len(v.disk)].session = f.session
    BY <1>2 DEF Tidy, BatchOf
  <2> HIDE DEF v
  <2> QED
    BY <2>1, <2>2, <2>3, <2>4 DEF Tidy, BatchOf
<1>7. AddRow(w, f) = IF Len(v.batch) >= batch_size THEN Flush(v) ELSE v
  BY DEF AddRow
<1>8. Len(v.batch) = Len(w.batch) + 1 /\ batch_size \in Nat \ {0}
  BY <1>2, <1>3, Sizes
<1> HIDE DEF v
<1>9. Contents(Flush(v)) = Contents(v) /\ (Counted(v) => Counted(Flush(v))) /\ Flush(v).batch = <<>>
  BY <1>6, FlushContents, FlushTidy
<1> QED
  BY <1>1, <1>4, <1>5, <1>7, <1>8, <1>9


-----------------------------------------------------------------------------
(* The frames on their way, from the chunks to the queue's last, are those *)
(* accepted; the batch is never full when the writer is between two calls. *)
ContentInv ==
  /\ Contents(files) \o OnlyFrame(item) \o Frames(q) = accepted
  /\ Counted(files)
  /\ Len(files.batch) < batch_size

(* An item put into the queue is the last, and is accepted if a frame. *)
LEMMA PutContent ==
  ASSUME Types, FilesInv, ContentInv, NEW x \in QueueItem,
         q' = Append(q, x), UNCHANGED <<files, item>>, accepted' = accepted \o OnlyFrame(x)
  PROVE  ContentInv'
<1> DEFINE a == Contents(files) \o OnlyFrame(item)
<1>1. a \in Seq(Frame) /\ Frames(q) \in Seq(Frame) /\ OnlyFrame(x) \in Seq(Frame)
  <2>1. Contents(files) \in Seq(Frame)
    BY ContentsType DEF FilesInv, Tidy
  <2> QED
    BY <2>1, OnlyFrameType, FramesType, ConcatProperties DEF Types
<1>2. Frames(q') = Frames(q) \o OnlyFrame(x)
  BY FramesAppend DEF Types
<1>3. (a \o Frames(q)) \o OnlyFrame(x) = a \o (Frames(q) \o OnlyFrame(x))
  <2> HIDE DEF a
  <2> QED
    BY <1>1, ThreeParts, Zenon
<1>4. (Contents(files) \o OnlyFrame(item))' = a
  BY DEF Contents, OnlyFrame, Rows
<1>5. Frames(q)' = Frames(q') /\ Counted(files)' = Counted(files)
  BY DEF Frames, OnlyFrame, Counted, Rows
<1> QED
  BY <1>2, <1>3, <1>4, <1>5 DEF ContentInv

LEMMA LoopContent == Types /\ FilesInv /\ ContentInv /\ Loop => ContentInv'
<1> SUFFICES ASSUME Types, FilesInv, ContentInv, Loop PROVE ContentInv'
  OBVIOUS
<1>1. UNCHANGED <<files, item>>
  BY DEF Loop, OfferFrame, CloseSession, PutCloseItem, Stop, PutSentinel, Join, JoinTimesOut,
         Call, BlockingPut, writer
<1>2. CASE UNCHANGED <<q, accepted>>
  BY <1>1, <1>2 DEF ContentInv, Contents, Counted, Rows, Frames, OnlyFrame
<1>3. CASE OfferFrame
  <2>1. PICK s \in NextSessions : Write([session |-> s, n |-> Offered + 1])
    BY <1>3 DEF OfferFrame
  <2> DEFINE f == [session |-> s, n |-> Offered + 1]
  <2>2. f \in Frame
    <3>1. Offered + 1 \in 1..MaxFrames
      BY <1>3, Sizes, LenProperties DEF OfferFrame, Offered, Types
    <3> QED
      BY <3>1 DEF NextSessions, Frame
  <2>3. CASE q' = Append(q, f) /\ accepted' = Append(accepted, f)
    <3>1. Append(accepted, f) = accepted \o OnlyFrame(f)
      BY <2>2, AppendIsConcat DEF OnlyFrame, Types
    <3> HIDE DEF f
    <3> QED
      BY <1>1, <2>2, <2>3, <3>1, PutContent DEF QueueItem
  <2> QED
    BY <1>2, <2>1, <2>3 DEF Write
<1>4. CASE PutCloseItem \/ PutSentinel
  <2>1. PICK i \in {CloseItem, Sentinel} : q' = Append(q, i) /\ accepted' = accepted
    BY <1>4 DEF PutCloseItem, PutSentinel, BlockingPut
  <2>2. OnlyFrame(i) = <<>>
    BY LoggerAssumption DEF OnlyFrame
  <2>3. accepted = accepted \o <<>>
    BY ConcatEmptySeq DEF Types
  <2> QED
    BY <1>1, <2>1, <2>2, <2>3, PutContent DEF QueueItem
<1> QED
  BY <1>2, <1>3, <1>4 DEF Loop, CloseSession, Stop, Join, JoinTimesOut, Call

LEMMA GetContent == Types /\ FilesInv /\ ContentInv /\ Get => ContentInv'
<1> SUFFICES ASSUME Types, FilesInv, ContentInv, Get PROVE ContentInv'
  OBVIOUS
<1>1. /\ q \in Seq(QueueItem) /\ q # <<>> /\ item' = Head(q) /\ q' = Tail(q)
      /\ UNCHANGED <<files, accepted>>
  BY DEF Get, loop, Types
<1>2. OnlyFrame(item) = <<>>
  BY LoggerAssumption DEF Get, OnlyFrame
<1>3. /\ Contents(files) \in Seq(Frame) /\ OnlyFrame(Head(q)) \in Seq(Frame)
      /\ Frames(Tail(q)) \in Seq(Frame)
  BY <1>1, ContentsType, OnlyFrameType, FramesType, HeadTailProperties DEF FilesInv, Tidy
<1>4. Frames(q) = OnlyFrame(Head(q)) \o Frames(Tail(q))
  BY <1>1, FramesHead
<1>5. (Contents(files) \o OnlyFrame(Head(q))) \o Frames(Tail(q))
        = Contents(files) \o (OnlyFrame(Head(q)) \o Frames(Tail(q)))
  BY <1>3, ThreeParts, Zenon
<1>6. Contents(files) \o <<>> = Contents(files)
  BY <1>3, ConcatEmptySeq
<1>7. /\ Contents(files)' = Contents(files) /\ Counted(files)' = Counted(files)
      /\ OnlyFrame(item)' = OnlyFrame(Head(q)) /\ Frames(q)' = Frames(Tail(q))
  BY <1>1 DEF Contents, Counted, Rows, OnlyFrame, Frames
<1> QED
  BY <1>1, <1>2, <1>4, <1>5, <1>6, <1>7 DEF ContentInv

(* A frame that was at hand is in the batch, or a row.                     *)
LEMMA HandleFrameContent ==
  ASSUME Types, FilesInv, ContentInv, thread = "running", HandleFrame
  PROVE  /\ Contents(files') = Contents(files) \o <<item>>
         /\ Counted(files') /\ Len(files'.batch) < batch_size
<1> DEFINE f == item
           u == CloseChunk(files)
           w == IF NeedsChunk(f) THEN OpenChunk(u, f.session) ELSE files
<1>1. f \in Frame /\ f.session \in 1..MaxSessions /\ now \in Nat
  BY Sizes DEF HandleFrame, Frame, Types
<1>2. /\ Tidy(w, f.session) /\ IsOpen(w) /\ Contents(w) = Contents(files) /\ Counted(w)
      /\ Len(w.batch) < batch_size
  <2>1. CASE NeedsChunk(f)
    <3>1. Tidy(u, 0) /\ ~IsOpen(u) /\ u.batch = <<>>
      BY CloseTidy DEF FilesInv
    <3>2. Contents(u) = Contents(files) /\ Counted(u)
      BY CloseContents DEF FilesInv, ContentInv
    <3> HIDE DEF u
    <3>3. /\ Tidy(OpenChunk(u, f.session), f.session) /\ IsOpen(OpenChunk(u, f.session))
      BY <1>1, <3>1, OpenTidy
    <3>4. /\ Contents(OpenChunk(u, f.session)) = Contents(u)
          /\ Counted(OpenChunk(u, f.session)) /\ OpenChunk(u, f.session).batch = <<>>
      BY <1>1, <3>1, <3>2, OpenContents DEF Tidy
    <3>5. Len(<<>>) < batch_size
      BY Sizes
    <3> QED
      BY <2>1, <3>2, <3>3, <3>4, <3>5
  <2>2. CASE ~NeedsChunk(f)
    <3>1. f.session = current_session /\ current_session # 0
      BY <1>1, <2>2 DEF NeedsChunk
    <3> QED
      BY <2>2, <3>1 DEF FilesInv, ContentInv
  <2> QED
    BY <2>1, <2>2
<1>3. files' = AddRow(w, f)
  BY DEF HandleFrame
<1> HIDE DEF w
<1>4. Append(Contents(files), f) = Contents(files) \o <<f>>
  BY <1>1, ContentsType, AppendIsConcat DEF FilesInv, Tidy
<1> QED
  BY <1>1, <1>2, <1>3, <1>4, AddRowContents

LEMMA HandleContent == Types /\ FilesInv /\ ContentInv /\ Handle => ContentInv'
<1> SUFFICES ASSUME Types, FilesInv, ContentInv, Handle PROVE ContentInv'
  OBVIOUS
<1>1. /\ thread = "running" /\ item' = None /\ UNCHANGED <<q, accepted>>
      /\ None \notin Frame
  BY LoggerAssumption DEF Handle, loop
<1>2. /\ Contents(files') = Contents(files) \o OnlyFrame(item)
      /\ Counted(files') /\ Len(files'.batch) < batch_size
  <2>1. CASE HandleFrame
    BY <1>1, <2>1, HandleFrameContent DEF HandleFrame, OnlyFrame
  <2>2. CASE HandleClose \/ HandleSentinel
    <3>1. files' = CloseChunk(files) /\ OnlyFrame(item) = <<>>
      BY <2>2, LoggerAssumption DEF HandleClose, HandleSentinel, OnlyFrame
    <3>2. /\ Contents(CloseChunk(files)) = Contents(files) /\ Counted(CloseChunk(files))
          /\ CloseChunk(files).batch = <<>>
      BY CloseContents, CloseTidy DEF FilesInv, ContentInv
    <3>3. Contents(files) \o <<>> = Contents(files)
      BY ContentsType, ConcatEmptySeq DEF FilesInv, Tidy
    <3>4. Len(<<>>) < batch_size
      BY Sizes
    <3> QED
      BY <3>1, <3>2, <3>3, <3>4
  <2> QED
    BY <2>1, <2>2 DEF Handle
<1>3. (Contents(files) \o OnlyFrame(item)) \o <<>> = Contents(files) \o OnlyFrame(item)
  <2>1. Contents(files) \o OnlyFrame(item) \in Seq(Frame)
    BY ContentsType, OnlyFrameType, ConcatProperties DEF FilesInv, Tidy
  <2> QED
    BY <2>1, ConcatEmptySeq
<1>4. /\ Contents(files)' = Contents(files') /\ Counted(files)' = Counted(files')
      /\ OnlyFrame(item)' = <<>> /\ Frames(q)' = Frames(q)
  BY <1>1 DEF Contents, Counted, Rows, OnlyFrame, Frames
<1> QED
  BY <1>1, <1>2, <1>3, <1>4 DEF ContentInv

LEMMA NextContent == Types /\ FilesInv /\ ContentInv /\ [Next]_vars => ContentInv'
<1> SUFFICES ASSUME Types, FilesInv, ContentInv, [Next]_vars PROVE ContentInv'
  OBVIOUS
<1>1. CASE UNCHANGED <<files, item, q, accepted>>
  BY <1>1 DEF ContentInv, Contents, Counted, Rows, Frames, OnlyFrame
<1>2. CASE /\ files' = Flush(files) \/ files' = CloseChunk(files)
           /\ UNCHANGED <<item, q, accepted>>
  <2>1. Contents(files') = Contents(files) /\ Counted(files') /\ files'.batch = <<>>
    <3>1. Tidy(files, current_session) /\ Counted(files)
      BY DEF FilesInv, ContentInv
    <3>2. CASE files' = Flush(files)
      BY <3>1, <3>2, FlushContents, FlushTidy
    <3>3. CASE files' = CloseChunk(files)
      BY <3>1, <3>3, CloseContents, CloseTidy
    <3> QED
      BY <1>2, <3>2, <3>3
  <2>2. Len(<<>>) < batch_size
    BY Sizes
  <2>3. /\ Contents(files)' = Contents(files') /\ Counted(files)' = Counted(files')
        /\ OnlyFrame(item)' = OnlyFrame(item) /\ Frames(q)' = Frames(q)
    BY <1>2 DEF Contents, Counted, Rows, OnlyFrame, Frames
  <2> QED
    BY <1>2, <2>1, <2>2, <2>3 DEF ContentInv
<1>3. CASE Loop
  BY <1>3, LoopContent
<1>4. CASE Get
  BY <1>4, GetContent
<1>5. CASE Handle
  BY <1>5, HandleContent
<1> QED
  BY <1>1, <1>2, <1>3, <1>4, <1>5
     DEF Next, Writer, IdleFlush, DiskError, Exit, TimePasses, loop, writer, vars


(***************************************************************************)
(* NothingLost, for queues and batches of any size.                        *)
(***************************************************************************)
LEMMA InitContent == Init => ContentInv
<1> SUFFICES ASSUME Init PROVE ContentInv
  OBVIOUS
<1>1. files.batch = <<>> /\ files.disk = <<>> /\ files.written = 0 /\ accepted = <<>>
  BY DEF Init
<1>2. Rows(<<>>) = <<>> /\ Frames(<<>>) = <<>>
  <2>1. /\ [i \in DOMAIN <<>> |-> <<>>[i].rows] = <<>>
        /\ [i \in DOMAIN <<>> |-> OnlyFrame(<<>>[i])] = <<>>
    OBVIOUS
  <2> QED
    BY <2>1, FlattenEmpty DEF Rows, Frames
<1>3. OnlyFrame(item) = <<>> /\ q = <<>>
  BY LoggerAssumption DEF Init, OnlyFrame
<1>4. <<>> \o <<>> = <<>> /\ Len(<<>>) = 0 /\ 0 < batch_size
  BY Sizes
<1> QED
  BY <1>1, <1>2, <1>3, <1>4 DEF ContentInv, Contents, Counted

(* Whatever is dropped, rolled, closed or left behind by an error, the     *)
(* frames in the chunks, the batch, the writer's hand and the queue are,   *)
(* in this order, the frames accepted, and written_frames counts the first *)
(* of them.                                                                *)
THEOREM NoFrameLost == Spec => []NothingLost
<1>1. ContentInv => NothingLost
  BY DEF ContentInv, Contents, Counted, NothingLost, Taken
<1> QED
  BY <1>1, InitInv, NextTypes, NextFilesInv, InitContent, NextContent, PTL DEF Spec

(* A batch is written when it is full, so that what is not yet in a file   *)
(* is less than a batch and the frame at hand.                             *)
THEOREM CsvKeepsAllButABatch == Spec => []CsvKillLosesABatch
<1>1. FilesInv /\ ContentInv => CsvKillLosesABatch
  <2> SUFFICES ASSUME FilesInv, ContentInv PROVE CsvKillLosesABatch
    OBVIOUS
  <2>1. /\ files \in Files /\ Len(Rows(files.disk)) \in Nat /\ Len(files.batch) \in Nat
        /\ Contents(files) \in Seq(Frame)
        /\ Len(Contents(files)) = Len(Rows(files.disk)) + Len(files.batch)
    BY ContentsType DEF FilesInv, Tidy
  <2>2. Len(Taken) = Len(Contents(files)) + Len(OnlyFrame(item))
    BY <2>1, OnlyFrameType, ConcatProperties DEF Taken, Contents
  <2>3. Len(OnlyFrame(item)) \in {0, 1}
    BY DEF OnlyFrame
  <2>4. Readable("csv") = Rows(files.disk)
    <3>1. \A i \in DOMAIN files.disk :
            (IF "csv" = "csv" \/ files.disk[i].closed
             THEN files.disk[i] ELSE [files.disk[i] EXCEPT !.rows = <<>>]) = files.disk[i]
      OBVIOUS
    <3>2. [i \in DOMAIN files.disk |-> files.disk[i]] = files.disk
      BY <2>1 DEF Files
    <3>3. [i \in DOMAIN files.disk |->
             IF "csv" = "csv" \/ files.disk[i].closed
             THEN files.disk[i] ELSE [files.disk[i] EXCEPT !.rows = <<>>]] = files.disk
      BY <3>1, <3>2
    <3> QED
      BY <3>3 DEF Readable
  <2>5. batch_size \in Nat /\ Len(files.batch) < batch_size
    BY Sizes DEF ContentInv
  <2>6. Len(Taken) - Len(Readable("csv")) <= batch_size
    <3> DEFINE r == Len(Rows(files.disk))
               b == Len(files.batch)
               h == Len(OnlyFrame(item))
    <3>1. Len(Taken) = r + b + h /\ Len(Readable("csv")) = r
      BY <2>1, <2>2, <2>4
    <3>2. r \in Nat /\ b \in Nat /\ h \in {0, 1} /\ b < batch_size
      BY <2>1, <2>3, <2>5
    <3> HIDE DEF r, b, h
    <3> QED
      BY <2>5, <3>1, <3>2
  <2> QED
    BY <2>6 DEF CsvKillLosesABatch, KillLosesABatchOf
<1> QED
  BY <1>1, InitInv, NextTypes, NextFilesInv, InitContent, NextContent, PTL DEF Spec

-----------------------------------------------------------------------------
(* Nothing comes after the sentinel, and the writer that has taken it      *)
(* leaves no batch and no open chunk.                                      *)
EndInv ==
  /\ \A k \in 1..Len(q) : q[k] = Sentinel => k = Len(q)
  /\ item = Sentinel => q = <<>>
  /\ thread = "returned" => /\ item = None /\ q = <<>> /\ files.batch = <<>>
                            /\ ~IsOpen(files) /\ pc \in {"joining", "stopped"}

LEMMA LoopEnd == Types /\ SentinelMeansJoin /\ EndInv /\ Loop => EndInv'
<1> SUFFICES ASSUME Types, SentinelMeansJoin, EndInv, Loop PROVE EndInv'
  OBVIOUS
<1>1. UNCHANGED <<files, item, thread>>
  BY DEF Loop, OfferFrame, CloseSession, PutCloseItem, Stop, PutSentinel, Join, JoinTimesOut,
         Call, BlockingPut, writer
<1>2. CASE UNCHANGED q /\ (pc' = pc \/ pc' \in {"joining", "stopped"} \/ pc = "running")
  BY <1>1, <1>2 DEF EndInv, IsOpen
<1>3. ASSUME NEW x, q' = Append(q, x), pc \notin {"joining", "stopped"}
      PROVE  EndInv'
  <2>1. /\ Len(q) \in Nat /\ Len(q') = Len(q) + 1 /\ \A k \in 1..Len(q) : q'[k] = q[k]
    BY <1>3, AppendProperties, LenProperties DEF Types
  <2>2. item # Sentinel /\ \A k \in 1..Len(q) : q[k] # Sentinel
    BY <1>3 DEF SentinelMeansJoin
  <2>3. \A k \in 1..Len(q') : q'[k] = Sentinel => k = Len(q')
    BY <2>1, <2>2
  <2> QED
    BY <1>1, <1>3, <2>2, <2>3 DEF EndInv
<1>4. CASE OfferFrame
  BY <1>2, <1>3, <1>4 DEF OfferFrame, Write
<1>5. CASE PutCloseItem \/ PutSentinel
  BY <1>3, <1>5 DEF PutCloseItem, PutSentinel, BlockingPut
<1>6. CASE CloseSession \/ Stop \/ Join \/ JoinTimesOut
  BY <1>2, <1>6 DEF CloseSession, Stop, Join, JoinTimesOut, Call
<1> QED
  BY <1>4, <1>5, <1>6 DEF Loop

LEMMA WriterEnd == Types /\ FilesInv /\ SentinelMeansJoin /\ EndInv /\ Writer => EndInv'
<1> SUFFICES ASSUME Types, FilesInv, SentinelMeansJoin, EndInv, Writer PROVE EndInv'
  OBVIOUS
<1>1. thread = "running" /\ pc' = pc
  BY DEF Writer, Get, IdleFlush, Handle, loop
<1>2. CASE Get
  <2>1. /\ item' = q[1] /\ Len(q) \in Nat \ {0} /\ Len(q') = Len(q) - 1
        /\ q' \in Seq(QueueItem) /\ \A k \in 1..Len(q') : q'[k] = q[k + 1]
    <3>1. q \in Seq(QueueItem) /\ q # <<>> /\ q' = Tail(q) /\ item' = Head(q)
      BY <1>2 DEF Get, Types
    <3> QED
      BY <3>1, HeadTailProperties, EmptySeq
  <2>2. \A k \in 1..Len(q') : q'[k] = Sentinel => k = Len(q')
    <3>1. \A k \in 1..Len(q') : q[k + 1] = Sentinel => k + 1 = Len(q)
      BY <2>1 DEF EndInv
    <3> QED
      BY <2>1, <3>1
  <2>3. item' = Sentinel => q' = <<>>
    <3>1. 1 \in 1..Len(q)
      BY <2>1
    <3>2. item' = Sentinel => Len(q) = 1
      BY <2>1, <3>1 DEF EndInv
    <3>3. Len(q') = 0 => q' = <<>>
      BY <2>1, EmptySeq
    <3> QED
      BY <2>1, <3>2, <3>3
  <2>4. thread' = thread
    BY <1>2 DEF Get
  <2> QED
    BY <1>1, <2>2, <2>3, <2>4 DEF EndInv
<1>3. CASE IdleFlush
  BY <1>1, <1>3, LoggerAssumption DEF IdleFlush, EndInv
<1>4. CASE Handle
  <2>1. q' = q /\ item' = None /\ None # Sentinel
    BY <1>4, LoggerAssumption DEF Handle
  <2>2. CASE HandleFrame \/ HandleClose
    BY <1>1, <2>1, <2>2 DEF HandleFrame, HandleClose, EndInv
  <2>3. CASE HandleSentinel
    <3>1. q = <<>> /\ pc \in {"joining", "stopped"}
      BY <2>3 DEF HandleSentinel, EndInv, SentinelMeansJoin
    <3>2. files'.batch = <<>> /\ ~IsOpen(files')
      BY <2>3, CloseTidy DEF HandleSentinel, FilesInv
    <3>3. IsOpen(files)' = IsOpen(files')
      BY DEF IsOpen
    <3> QED
      BY <1>1, <2>1, <3>1, <3>2, <3>3 DEF EndInv
  <2> QED
    BY <1>4, <2>2, <2>3 DEF Handle
<1> QED
  BY <1>2, <1>3, <1>4 DEF Writer

LEMMA NextEnd == Types /\ FilesInv /\ SentinelMeansJoin /\ EndInv /\ [Next]_vars => EndInv'
<1> SUFFICES ASSUME Types, FilesInv, SentinelMeansJoin, EndInv, [Next]_vars PROVE EndInv'
  OBVIOUS
<1>1. CASE DiskError \/ Exit
  BY <1>1 DEF DiskError, Exit, loop, EndInv
<1>2. CASE TimePasses \/ UNCHANGED vars
  BY <1>2 DEF TimePasses, loop, writer, vars, EndInv, IsOpen
<1> QED
  BY <1>1, <1>2, LoopEnd, WriterEnd DEF Next

(* A writer that has returned, as it does only for stop(), has written and *)
(* finalized all that was accepted.                                        *)
THEOREM StoppedLogIsComplete == Spec => []StopIsComplete
<1>1. Init => SentinelMeansJoin /\ EndInv
  <2> SUFFICES ASSUME Init PROVE SentinelMeansJoin /\ EndInv
    OBVIOUS
  <2>1. Len(q) = 0 /\ item # Sentinel /\ thread = "running"
    BY LoggerAssumption DEF Init
  <2> QED
    BY <2>1 DEF SentinelMeansJoin, EndInv
<1>2. FilesInv /\ ContentInv /\ EndInv => StopIsComplete
  <2> SUFFICES ASSUME FilesInv, ContentInv, EndInv, thread = "returned"
               PROVE  /\ Rows(files.disk) = accepted
                      /\ \A i \in DOMAIN files.disk : files.disk[i].closed
    BY DEF StopIsComplete
  <2>1. /\ item = None /\ q = <<>> /\ files.batch = <<>> /\ ~IsOpen(files)
        /\ files \in Files /\ LatestOpen(files)
    BY DEF EndInv, FilesInv, Tidy
  <2>2. Rows(files.disk) = accepted
    <3>1. OnlyFrame(item) = <<>>
      BY <2>1, LoggerAssumption DEF OnlyFrame
    <3>2. Frames(q) = <<>>
      <4>1. [i \in DOMAIN <<>> |-> OnlyFrame(<<>>[i])] = <<>>
        OBVIOUS
      <4> QED
        BY <2>1, <4>1, FlattenEmpty DEF Frames
    <3>3. ((Rows(files.disk) \o <<>>) \o <<>>) \o <<>> = Rows(files.disk)
      BY <2>1, ContentsType, ConcatEmptySeq
    <3> QED
      BY <2>1, <3>1, <3>2, <3>3 DEF ContentInv, Contents
  <2>3. ASSUME NEW i \in DOMAIN files.disk PROVE files.disk[i].closed
    <3>1. i \in 1..Len(files.disk) /\ files.disk[i] \in Chunk /\ Len(files.disk) \in Nat
      BY <2>1, OpenMeans DEF Files
    <3>2. CASE i < Len(files.disk)
      BY <2>1, <3>1, <3>2 DEF LatestOpen
    <3>3. CASE i = Len(files.disk)
      <4>1. Len(files.disk) # 0
        BY <3>1
      <4>2. ~(files.disk[Len(files.disk)].closed = FALSE)
        BY <2>1, <4>1, OpenMeans
      <4> QED
        BY <3>1, <3>3, <4>2 DEF Chunk
    <3> QED
      BY <3>1, <3>2, <3>3
  <2> QED
    BY <2>2, <2>3
<1> QED
  BY <1>1, <1>2, InitInv, NextTypes, NextFilesInv, NextSentinel, InitContent, NextContent,
     NextEnd, PTL DEF Spec

=============================================================================

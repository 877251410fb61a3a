-------------------------- MODULE LiveStreamProofs --------------------------
(***************************************************************************)
(* Proofs about RateGate, for every interval and any time stamps, and      *)
(* about LiveStream, for every set of clients and any high-water mark:     *)
(* what the gate lets through, what a stalled client costs, and that       *)
(* boundaries reach everyone.                                              *)
(***************************************************************************)
EXTENDS LiveStream, FiniteSetTheorems, TLAPS

IInv == TypeOK /\ CaughtUp

(* Crediting whole intervals stops short of the time stamp by less than    *)
(* one.                                                                    *)
LEMMA CreditFacts ==
  ASSUME NEW t \in Int, last_sent \in Int
  PROVE  Credit(t) \in Int /\ Credit(t) <= t /\ t - Credit(t) < interval
<1>1. ASSUME NEW d \in Int, NEW i \in Nat \ {0}
      PROVE  d \div i \in Int /\ i * (d \div i) <= d /\ d < i * (d \div i) + i
  BY <1>1, SMTT(30)
<1>2. interval \in Nat \ {0} /\ t - last_sent \in Int
  BY GateAssumption
<1> DEFINE c == interval * ((t - last_sent) \div interval)
<1>3. c \in Int /\ c <= t - last_sent /\ t - last_sent < c + interval
  BY <1>1, <1>2
<1>4. Credit(t) = last_sent + c
  BY DEF Credit
<1> HIDE DEF c
<1> QED
  BY <1>2, <1>3, <1>4

LEMMA InitIInv == Init => IInv
<1> SUFFICES ASSUME Init PROVE IInv
  OBVIOUS
<1>1. set_back \in BOOLEAN
  BY DEF Init
<1>2. TypeOK
  BY <1>1 DEF Init, TypeOK
<1>3. CaughtUp
  BY DEF Init, CaughtUp
<1> QED
  BY <1>2, <1>3 DEF IInv

LEMMA NextIInv == IInv /\ [Next]_vars => IInv'
<1> SUFFICES ASSUME IInv, [Next]_vars PROVE IInv'
  OBVIOUS
<1>1. CASE UNCHANGED vars
  BY <1>1 DEF vars, IInv, TypeOK, CaughtUp
<1>2. CASE Reset
  BY <1>2 DEF Reset, IInv, TypeOK, CaughtUp
<1>3. ASSUME NEW t \in Times, Allow(t) PROVE IInv'
  <2>1. t \in Int /\ interval \in Nat \ {0} /\ latest' = t
    BY <1>3, GateAssumption DEF Allow
  <2>2. CASE Anchor(t)
    <3>1. /\ last_sent' = t /\ anchor' = t /\ slots' = {0} /\ sent' = 1
          /\ set_back' = FALSE
      BY <2>2 DEF Anchor
    <3>2. set_back' \in BOOLEAN
      BY <3>1
    <3>3. TypeOK'
      BY <2>1, <3>1, <3>2 DEF TypeOK
    <3>4. CaughtUp'
      BY <2>1, <3>1 DEF CaughtUp
    <3> QED
      BY <3>3, <3>4 DEF IInv
  <2>3. ASSUME last_sent # None, Observe(t) PROVE
          /\ last_sent \in Int /\ latest \in Int
          /\ slots' \subseteq Int /\ anchor' \in Times \cup {0} /\ set_back' \in BOOLEAN
          /\ ~set_back' => last_sent <= t
    <3>1. last_sent \in Int /\ latest \in Int /\ anchor \in Int
      BY <2>3, GateAssumption DEF IInv, TypeOK
    <3>2. Slot(t) \in Int
      BY <2>1, <3>1 DEF Slot
    <3>3. slots' \subseteq Int /\ anchor' \in Times \cup {0}
      BY <2>3, <3>2 DEF Observe, IInv, TypeOK
    <3>4. set_back' = (set_back \/ t < latest)
      BY <2>3 DEF Observe
    <3>5. set_back' \in BOOLEAN
      BY <3>4
    <3>6. ~set_back' => last_sent <= t
      <4>1. ~set_back => last_sent <= latest
        BY <2>3 DEF IInv, CaughtUp
      <4>2. ~set_back' => ~set_back /\ ~(t < latest)
        BY <3>4
      <4> QED
        BY <2>1, <3>1, <4>1, <4>2
    <3> QED
      BY <3>1, <3>3, <3>5, <3>6
  <2>4. CASE AllowDue(t)
    <3>1. last_sent # None /\ Observe(t) /\ last_sent' = Credit(t) /\ sent' = sent + 1
      BY <2>4 DEF AllowDue
    <3>2. last_sent' \in Int /\ last_sent' <= t /\ t - last_sent' < interval
      BY <2>1, <2>3, <3>1, CreditFacts
    <3>3. TypeOK'
      BY <2>1, <2>3, <3>1, <3>2 DEF IInv, TypeOK
    <3>4. CaughtUp'
      BY <2>1, <3>2 DEF CaughtUp
    <3> QED
      BY <3>3, <3>4 DEF IInv
  <2>5. CASE Refuse(t)
    <3>1. last_sent # None /\ Observe(t) /\ ~Due(t) /\ UNCHANGED <<last_sent, sent>>
      BY <2>5 DEF Refuse
    <3>2. t - last_sent < interval
      BY <2>1, <2>3, <3>1 DEF Due
    <3>3. TypeOK'
      BY <2>1, <2>3, <3>1 DEF IInv, TypeOK
    <3>4. CaughtUp'
      BY <2>1, <2>3, <3>1, <3>2 DEF CaughtUp
    <3> QED
      BY <3>3, <3>4 DEF IInv
  <2>6. Anchor(t) \/ AllowDue(t) \/ Refuse(t)
    BY <1>3 DEF Allow, LetThrough, AllowEvent, AllowFirst
  <2> QED
    BY <2>2, <2>4, <2>5, <2>6
<1> QED
  BY <1>1, <1>2, <1>3 DEF Next

(* allow() keeps the gate within an interval of the frames: whatever their *)
(* rate, it neither falls behind nor, unless the clock was set back, runs  *)
(* ahead.                                                                  *)
THEOREM GateKeepsUp == Spec => []CaughtUp
<1> QED
  BY InitIInv, NextIInv, PTL DEF Spec, IInv

-----------------------------------------------------------------------------
(***************************************************************************)
(* One frame per slot.  The gate stands on the grid of intervals counted   *)
(* from the anchor, at the last slot in which a frame came.                *)
(***************************************************************************)
OnGrid(k) ==
  /\ last_sent = anchor + interval * k
  /\ k \in slots
  /\ \A s \in slots : s <= k

GridInv ==
  /\ IsFiniteSet(slots)
  /\ OnePerSlot
  /\ last_sent # None => \E k \in Int : OnGrid(k)

(* Counted from a point of the grid, slots are counted from that point's.  *)
LEMMA SlotFromGrid ==
  ASSUME NEW i \in Nat \ {0}, NEW a \in Int, NEW t \in Int, NEW k \in Int
  PROVE  (t - a) \div i = k + ((t - (a + i * k)) \div i)
<1>1. ASSUME NEW d \in Int
      PROVE  d \div i \in Int /\ i * (d \div i) <= d /\ d < i * (d \div i) + i
  BY <1>1, SMTT(30)
<1>2. ASSUME NEW m \in Int, i * m < i PROVE m <= 0
  <2>1. m >= 1 => i * m >= i
    BY SMTT(30)
  <2> QED
    BY <1>2, <2>1
<1> DEFINE p == (t - a) \div i
           g == i * k
           q == (t - (a + g)) \div i
<1>3. g \in Int /\ t - a \in Int /\ t - (a + g) \in Int
  OBVIOUS
<1>4. p \in Int /\ i * p <= t - a /\ t - a < i * p + i
  BY <1>1, <1>3
<1>5. q \in Int /\ i * q <= t - (a + g) /\ t - (a + g) < i * q + i
  BY <1>1, <1>3
<1> HIDE DEF p, q
<1>6. i * (p - q - k) < i /\ i * (q + k - p) < i
  <2>1. i * (p - q - k) = i * p - i * q - g /\ i * (q + k - p) = i * q + g - i * p
    BY <1>4, <1>5, SMTT(30)
  <2>2. i * p \in Int /\ i * q \in Int
    BY <1>4, <1>5
  <2> QED
    BY <1>3, <1>4, <1>5, <2>1, <2>2
<1>7. p - q - k <= 0 /\ q + k - p <= 0
  BY <1>2, <1>4, <1>5, <1>6
<1> QED
  BY <1>4, <1>5, <1>7 DEF p, q

(* A frame that is due is in a slot of its own, and the gate moves there;  *)
(* one that is not is in no later slot than the gate.                      *)
LEMMA SlotFacts ==
  ASSUME NEW t \in Int, NEW k \in Int, anchor \in Int, last_sent = anchor + interval * k
  PROVE  /\ Slot(t) \in Int
         /\ Due(t) => Slot(t) > k /\ Credit(t) = anchor + interval * Slot(t)
         /\ ~Due(t) => Slot(t) <= k
         /\ ~Due(t) /\ last_sent <= t => Slot(t) = k
<1>1. interval \in Nat \ {0} /\ last_sent \in Int
  BY GateAssumption
<1> DEFINE q == (t - last_sent) \div interval
<1>2. Slot(t) = k + q
  <2>1. (t - anchor) \div interval = k + ((t - (anchor + interval * k)) \div interval)
    BY <1>1, SlotFromGrid, Zenon
  <2> QED
    BY <2>1, Zenon DEF Slot
<1>3. ASSUME NEW d \in Int
      PROVE  /\ d \div interval \in Int
             /\ interval * (d \div interval) <= d
             /\ d < interval * (d \div interval) + interval
  BY <1>1, <1>3, SMTT(30)
<1>4. q \in Int /\ interval * q <= t - last_sent /\ t - last_sent < interval * q + interval
  BY <1>1, <1>3
<1>5. Credit(t) = last_sent + interval * q
  BY DEF Credit
<1> HIDE DEF q
<1>6. interval * (k + q) = interval * k + interval * q
  BY <1>1, <1>4, SMTT(30)
<1>7. q < 1 => interval * q <= 0
  BY <1>1, <1>4, SMTT(30)
<1>8. q > 0 => interval * q >= interval
  BY <1>1, <1>4, SMTT(30)
<1>9. q < 0 => interval * q + interval <= 0
  BY <1>1, <1>4, SMTT(30)
<1>10. Due(t) => q > 0
  BY <1>1, <1>4, <1>7 DEF Due
<1>11. ~Due(t) => q <= 0
  BY <1>1, <1>4, <1>8 DEF Due
<1>12. ~Due(t) /\ last_sent <= t => q = 0
  BY <1>1, <1>4, <1>9, <1>11
<1> QED
  BY <1>1, <1>2, <1>4, <1>5, <1>6, <1>10, <1>11, <1>12

LEMMA InitGridInv == Init => GridInv
BY FS_EmptySet DEF Init, GridInv, OnePerSlot

LEMMA NextGridInv == IInv /\ GridInv /\ [Next]_vars => GridInv'
<1> SUFFICES ASSUME IInv, GridInv, [Next]_vars PROVE GridInv'
  OBVIOUS
<1>1. CASE UNCHANGED vars
  BY <1>1 DEF vars, GridInv, OnePerSlot, OnGrid
<1>2. CASE Reset
  BY <1>2 DEF Reset, GridInv, OnePerSlot
<1>3. ASSUME NEW t \in Times, Allow(t) PROVE GridInv'
  <2>1. t \in Int /\ interval \in Nat \ {0}
    BY GateAssumption
  <2>2. CASE Anchor(t)
    <3>1. /\ last_sent' = t /\ anchor' = t /\ slots' = {0} /\ sent' = 1
      BY <2>2 DEF Anchor
    <3>2. IsFiniteSet(slots') /\ Cardinality(slots') = 1
      BY <3>1, FS_Singleton
    <3>3. OnGrid(0)'
      BY <2>1, <3>1 DEF OnGrid
    <3> QED
      BY <3>1, <3>2, <3>3 DEF GridInv, OnePerSlot
  <2>3. CASE last_sent # None /\ Observe(t)
    <3>1. PICK k \in Int : OnGrid(k)
      BY <2>3 DEF GridInv
    <3>2. anchor \in Int /\ latest \in Int /\ sent \in Nat /\ slots \subseteq Int
      BY GateAssumption DEF IInv, TypeOK
    <3>3. last_sent = anchor + interval * k /\ k \in slots /\ \A s \in slots : s <= k
      BY <3>1 DEF OnGrid
    <3>4. last_sent \in Int
      BY <2>1, <3>2, <3>3
    <3>5. /\ Slot(t) \in Int
          /\ Due(t) => Slot(t) > k /\ Credit(t) = anchor + interval * Slot(t)
          /\ ~Due(t) => Slot(t) <= k
          /\ ~Due(t) /\ last_sent <= t => Slot(t) = k
      BY <2>1, <3>2, <3>3, SlotFacts
    <3>6. slots' = slots \cup {Slot(t)} /\ anchor' = anchor /\ set_back' = (set_back \/ t < latest)
      BY <2>3 DEF Observe
    <3>7. /\ IsFiniteSet(slots')
          /\ Cardinality(slots) \in Nat
          /\ Cardinality(slots') = IF Slot(t) \in slots THEN Cardinality(slots)
                                                       ELSE Cardinality(slots) + 1
      BY <3>6, FS_AddElement, FS_CardinalityType DEF GridInv
    <3>8. CASE AllowDue(t)
      <4>1. Due(t) /\ last_sent' = Credit(t) /\ sent' = sent + 1
        BY <3>8 DEF AllowDue
      <4>2. Slot(t) \notin slots
        BY <3>2, <3>3, <3>5, <4>1
      <4>3. PICK n \in Int : n = Slot(t)
        BY <3>5
      <4>4. OnGrid(n)'
        <5>1. last_sent' = anchor + interval * n /\ n > k
          BY <3>5, <4>1, <4>3
        <5> QED
          BY <3>2, <3>3, <3>6, <4>3, <5>1 DEF OnGrid
      <4>5. OnePerSlot'
        <5>1. ~set_back' => ~set_back
          BY <3>6
        <5> QED
          BY <3>2, <3>7, <4>1, <4>2, <5>1 DEF OnePerSlot, GridInv
      <4> QED
        BY <3>7, <4>4, <4>5 DEF GridInv
    <3>9. CASE Refuse(t)
      <4>1. ~Due(t) /\ last_sent' = last_sent /\ sent' = sent
        BY <3>9 DEF Refuse
      <4>2. OnGrid(k)'
        BY <3>2, <3>3, <3>5, <3>6, <4>1 DEF OnGrid
      <4>3. ~set_back' => ~set_back /\ Slot(t) \in slots
        <5>1. ~set_back' => ~set_back /\ ~(t < latest)
          BY <3>6
        <5>2. ~set_back => last_sent <= latest
          BY <2>3 DEF IInv, CaughtUp
        <5> QED
          BY <2>1, <3>2, <3>3, <3>4, <3>5, <4>1, <5>1, <5>2
      <4>4. OnePerSlot'
        BY <3>2, <3>7, <4>1, <4>3 DEF OnePerSlot, GridInv
      <4> QED
        BY <3>7, <4>2, <4>4 DEF GridInv
    <3>10. AllowDue(t) \/ Refuse(t) \/ Anchor(t)
      BY <1>3 DEF Allow, LetThrough, AllowEvent, AllowFirst
    <3> QED
      BY <2>2, <3>8, <3>9, <3>10
  <2>4. Anchor(t) \/ (last_sent # None /\ Observe(t))
    BY <1>3 DEF Allow, LetThrough, AllowEvent, AllowFirst, AllowDue, Refuse
  <2> QED
    BY <2>2, <2>3, <2>4
<1> QED
  BY <1>1, <1>2, <1>3 DEF Next

(* Of each interval since the anchor in which frames come, exactly one is  *)
(* sent, and no more where the clock was set back.                         *)
THEOREM OneFramePerSlot == Spec => []OnePerSlot
<1>1. GridInv => OnePerSlot
  BY DEF GridInv
<1> QED
  BY <1>1, InitIInv, NextIInv, InitGridInv, NextGridInv, PTL DEF Spec

-----------------------------------------------------------------------------
(***************************************************************************)
(* The stream of the frames that the gate lets through.                    *)
(***************************************************************************)

(* A broadcast leaves each client with room for one message more, and to   *)
(* whom one with events is owed, its task has not run.                     *)
StreamTypeOK ==
  /\ clients \subseteq Clients
  /\ conn \in [Clients -> {"away", "open", "closed"}]
  /\ buffer \in [Clients -> Nat]
  /\ task \in [Clients -> {"none", "scheduled", "draining"}]
  /\ owed \subseteq Clients

Room ==
  \A c \in Clients :
    /\ conn[c] # "open" => buffer[c] = 0
    /\ task[c] # "draining" => buffer[c] <= HighWater

OwedAreScheduled ==
  \A c \in owed : boundary = TRUE /\ conn[c] = "open" /\ task[c] = "scheduled"

StreamInv == StreamTypeOK /\ Room /\ BoundedBuffer /\ OwedAreScheduled

-----------------------------------------------------------------------------
LEMMA InitStreamInv == LiveInit => StreamInv
BY StreamAssumption
   DEF LiveInit, StreamInv, StreamTypeOK, Room, BoundedBuffer, OwedAreScheduled

(* What _process does next: a broadcast finds every client with room.      *)
LEMMA TakeStreamInv ==
  ASSUME StreamInv, NEW events \in BOOLEAN, Take(events),
         \/ Broadcast(events)
         \/ ~events /\ UNCHANGED <<clients, conn, buffer, task, boundary>>
  PROVE  StreamInv'
<1>1. owed = {}
  BY DEF Take, Idle, StreamInv, StreamTypeOK, OwedAreScheduled
<1>2. CASE Broadcast(events)
  <2>1. StreamTypeOK'
    BY <1>1, <1>2 DEF Broadcast, Take, StreamInv, StreamTypeOK
  <2>2. Room' /\ BoundedBuffer'
    <3>1. \A c \in Clients : task[c] = "none" /\ task'[c] \in {"scheduled", "none"}
      BY <1>2 DEF Broadcast, Take, Idle
    <3> QED
      BY <1>2, <3>1, StreamAssumption
         DEF Broadcast, StreamInv, StreamTypeOK, Room, BoundedBuffer
  <2>3. OwedAreScheduled'
    <3> SUFFICES ASSUME NEW c \in owed'
                 PROVE  boundary' = TRUE /\ conn'[c] = "open" /\ task'[c] = "scheduled"
      BY DEF OwedAreScheduled
    <3>1. events = TRUE /\ c \in clients /\ c \in Open
      BY <1>1 DEF Take
    <3> QED
      BY <1>2, <3>1 DEF Broadcast, Open
  <2> QED
    BY <2>1, <2>2, <2>3 DEF StreamInv
<1>3. CASE ~events /\ UNCHANGED <<clients, conn, buffer, task, boundary>>
  <2>1. owed' = {}
    BY <1>1, <1>3 DEF Take
  <2> QED
    BY <1>3, <2>1 DEF StreamInv, StreamTypeOK, Room, BoundedBuffer, OwedAreScheduled
<1> QED
  BY <1>2, <1>3

LEMMA SendStreamInv ==
  ASSUME StreamInv, NEW c \in Clients, Send(c)
  PROVE  StreamInv'
<1> USE StreamAssumption DEF StreamInv, StreamTypeOK
<1>1. CASE Write(c)
  <2>1. StreamTypeOK'
    BY <1>1 DEF Write
  <2>2. buffer[c] <= HighWater
    BY <1>1 DEF Write, Room
  <2>3. Room' /\ BoundedBuffer'
    BY <1>1, <2>2 DEF Write, Room, BoundedBuffer
  <2>4. OwedAreScheduled'
    <3>1. owed' \subseteq owed \ {c}
      BY <1>1 DEF Write, OwedAreScheduled
    <3> QED
      BY <1>1, <3>1 DEF Write, OwedAreScheduled
  <2> QED
    BY <2>1, <2>3, <2>4
<1>2. CASE Drained(c)
  BY <1>2 DEF Drained, Room, BoundedBuffer, OwedAreScheduled
<1>3. CASE SendRaises(c)
  BY <1>3 DEF SendRaises, Room, BoundedBuffer, OwedAreScheduled
<1> QED
  BY <1>1, <1>2, <1>3 DEF Send

LEMMA ConnectionStreamInv ==
  ASSUME StreamInv, NEW c \in Clients, Connection(c)
  PROVE  StreamInv'
<1> USE StreamAssumption DEF StreamInv, StreamTypeOK
<1>1. CASE Join(c)
  BY <1>1 DEF Join, Room, BoundedBuffer, OwedAreScheduled
<1>2. CASE Unregister(c)
  BY <1>2 DEF Unregister, Room, BoundedBuffer, OwedAreScheduled
<1>3. CASE Read(c)
  BY <1>3 DEF Read, Room, BoundedBuffer, OwedAreScheduled
<1>4. CASE Closed(c)
  BY <1>4 DEF Closed, Room, BoundedBuffer, OwedAreScheduled
<1> QED
  BY <1>1, <1>2, <1>3, <1>4 DEF Connection

LEMMA NextStreamInv == StreamInv /\ [LiveNext]_liveVars => StreamInv'
<1> SUFFICES ASSUME StreamInv, [LiveNext]_liveVars PROVE StreamInv'
  OBVIOUS
<1>1. CASE UNCHANGED liveVars
  BY <1>1 DEF liveVars, streamVars, StreamInv, StreamTypeOK, Room, BoundedBuffer,
              OwedAreScheduled
<1>2. ASSUME NEW t \in Times, NEW events \in BOOLEAN, TakeFrame(t, events)
      PROVE  StreamInv'
  BY <1>2, TakeStreamInv DEF TakeFrame
<1>3. CASE TakeStatus
  BY <1>3, TakeStreamInv DEF TakeStatus
<1>4. ASSUME NEW c \in Clients, Send(c) \/ Connection(c)
      PROVE  StreamInv'
  BY <1>4, SendStreamInv, ConnectionStreamInv
<1> QED
  BY <1>1, <1>2, <1>3, <1>4 DEF LiveNext

-----------------------------------------------------------------------------
(* However many clients stall, each holds at most a message over the mark. *)
THEOREM StalledClientsAreBounded == LiveSpec => []BoundedBuffer
<1>1. StreamInv => BoundedBuffer
  BY DEF StreamInv
<1> QED
  BY <1>1, InitStreamInv, NextStreamInv, PTL DEF LiveSpec

(* A frame with events has been written to every client that was there     *)
(* when it came and is there still, before the next item is taken.         *)
THEOREM BoundariesReachClients == LiveSpec => []NeverMissBoundary
<1>1. StreamInv => NeverMissBoundary
  BY DEF StreamInv, StreamTypeOK, OwedAreScheduled, NeverMissBoundary, Idle
<1> QED
  BY <1>1, InitStreamInv, NextStreamInv, PTL DEF LiveSpec

-----------------------------------------------------------------------------
(* Of the gate, the stream takes the steps of RateGate and no others.      *)
LEMMA StreamStepsGate == [LiveNext]_liveVars => [Next]_vars
<1> SUFFICES ASSUME [LiveNext]_liveVars PROVE [Next]_vars
  OBVIOUS
<1>1. ASSUME NEW t \in Times, NEW events \in BOOLEAN, TakeFrame(t, events)
      PROVE  Allow(t)
  BY <1>1 DEF TakeFrame, Allow
<1>2. CASE TakeStatus
  BY <1>2 DEF TakeStatus, Next
<1>3. ASSUME NEW c \in Clients, Send(c) \/ Connection(c)
      PROVE  UNCHANGED vars
  BY <1>3 DEF Send, Write, Drained, SendRaises, Connection, Join, Unregister, Read, Closed
<1> QED
  BY <1>1, <1>2, <1>3 DEF LiveNext, Next, liveVars

(* In the stream too the gate keeps up with the frames ...                 *)
THEOREM StreamKeepsUp == LiveSpec => []CaughtUp
<1>1. LiveInit => Init
  BY DEF LiveInit
<1> QED
  BY <1>1, StreamStepsGate, GateKeepsUp, PTL DEF LiveSpec, Spec

(* ... and one frame is sent of each interval.                             *)
THEOREM StreamSendsOnePerSlot == LiveSpec => []OnePerSlot
<1>1. LiveInit => Init
  BY DEF LiveInit
<1> QED
  BY <1>1, StreamStepsGate, OneFramePerSlot, PTL DEF LiveSpec, Spec
=============================================================================

--------------------------- MODULE BridgeAppProofs ---------------------------
(***************************************************************************)
(* Proofs about BridgeApp, for every queue size, any back-off times and a  *)
(* simulator that makes any number of frames.                              *)
(***************************************************************************)
EXTENDS BridgeApp, InductionProofs, TLAPS

(* Counts and lines of items, as far as the accounts need their types.     *)
Lines ==
  /\ emitted \in Nat /\ processed \in Nat /\ dropped \in Nat
  /\ callbacks \in Seq(Item) /\ queue \in Seq(Item)

(* A connection that can still send an item has a number. *)
Numbered ==
  /\ connection \in Nat
  /\ capture \in {"connected", "polling", "closing"} => connection # 0

IInv == Lines /\ Numbered /\ Accounted

LEMMA InitIInv == Init => IInv
BY DEF Init, CaptureInit, IInv, Lines, Numbered, Accounted

(* Joining a line makes it longer by one; leaving it, shorter. *)
LEMMA Joining ==
  ASSUME NEW s \in Seq(Item), NEW i \in Item
  PROVE  Append(s, i) \in Seq(Item) /\ Len(Append(s, i)) = Len(s) + 1
OBVIOUS

LEMMA Leaving ==
  ASSUME NEW s \in Seq(Item), s # <<>>
  PROVE  /\ Tail(s) \in Seq(Item) /\ Len(Tail(s)) = Len(s) - 1
         /\ Head(s) \in Item
OBVIOUS

LEMMA LengthIsNat == ASSUME NEW s \in Seq(Item) PROVE Len(s) \in Nat
OBVIOUS

(* What is emitted waits on the loop, unless that is closed. *)
LEMMA EmitAccounted ==
  ASSUME Lines, Accounted, NEW kind \in {"connected", "frame", "disconnected"},
         NEW c \in Nat \ {0}, Emit(kind, c), UNCHANGED <<processed, dropped, queue>>
  PROVE  Lines' /\ Accounted'
<1>1. CASE loop_closed
  BY <1>1 DEF Emit, Lines, Accounted
<1>2. CASE ~loop_closed
  <2>1. [kind |-> kind, connection |-> c] \in Item
    BY DEF Item
  <2>2. /\ callbacks' \in Seq(Item) /\ Len(callbacks') = Len(callbacks) + 1
        /\ emitted' = emitted + 1
    BY <1>2, <2>1, Joining DEF Emit, Lines
  <2> QED
    BY <2>2, LengthIsNat DEF Lines, Accounted
<1> QED
  BY <1>1, <1>2

LEMMA CaptureIInv == IInv /\ CaptureStep /\ UNCHANGED appVars => IInv'
<1> SUFFICES ASSUME IInv, CaptureStep, UNCHANGED appVars PROVE IInv'
  OBVIOUS
<1>1. Lines /\ Numbered /\ Accounted /\ UNCHANGED <<processed, dropped, queue>>
  BY DEF IInv, appVars, ingest, session
<1>2. CASE Top \/ ConnectFails \/ ConnectRaises \/ WaitEnds \/ Poll \/ PollTimesOut \/ PollFails
  <2>1. UNCHANGED <<connection, callbacks, emitted>>
    BY <1>2 DEF line, Top, ConnectFails, ConnectRaises, WaitEnds, Poll, PollTimesOut, PollFails
  <2>2. Lines' /\ Accounted'
    BY <1>1, <2>1 DEF Lines, Accounted
  <2>3. \/ capture' \notin {"connected", "polling", "closing"}
        \/ capture \in {"connected", "polling", "closing"}
    BY <1>2 DEF Top, ConnectFails, ConnectRaises, WaitEnds, Poll, PollTimesOut, PollFails, Goto
  <2> QED
    BY <1>1, <2>1, <2>2, <2>3 DEF IInv, Numbered
<1>3. CASE ConnectSucceeds
  <2>1. Emit("connected", connection + 1) /\ connection' = connection + 1
    BY <1>3 DEF ConnectSucceeds
  <2>2. connection + 1 \in Nat \ {0}
    BY <1>1 DEF Numbered
  <2>3. Lines' /\ Accounted'
    BY <1>1, <2>1, <2>2, EmitAccounted
  <2> QED
    BY <2>1, <2>2, <2>3 DEF IInv, Numbered
<1>4. CASE PollFrame
  <2>1. /\ Emit("frame", connection) /\ connection' = connection
        /\ connection \in Nat \ {0}
    BY <1>1, <1>4 DEF PollFrame, Goto, Numbered
  <2> QED
    BY <1>1, <2>1, EmitAccounted DEF IInv, Numbered
<1>5. CASE CloseAdapter
  <2>1. /\ Emit("disconnected", connection) /\ connection' = connection
        /\ connection \in Nat \ {0}
    BY <1>1, <1>5 DEF CloseAdapter, Goto, Numbered
  <2> QED
    BY <1>1, <2>1, EmitAccounted DEF IInv, Numbered
<1> QED
  BY <1>2, <1>3, <1>4, <1>5 DEF CaptureStep

(* A callback that runs fills the queue or is counted as dropped. *)
LEMMA CallbackIInv == IInv /\ RunCallback => IInv'
<1> SUFFICES ASSUME IInv, RunCallback PROVE IInv'
  OBVIOUS
<1>1. /\ Lines /\ Numbered /\ Accounted
      /\ UNCHANGED <<connection, capture, emitted, processed>>
  BY DEF IInv, RunCallback, session
<1>2. /\ callbacks' \in Seq(Item) /\ Len(callbacks') = Len(callbacks) - 1
      /\ Head(callbacks) \in Item
  BY <1>1, Leaving DEF RunCallback, Put, Lines
<1>3. CASE queue' = Append(queue, Head(callbacks)) /\ dropped' = dropped
  <2>1. queue' \in Seq(Item) /\ Len(queue') = Len(queue) + 1
    BY <1>1, <1>2, <1>3, Joining DEF Lines
  <2> QED
    BY <1>1, <1>2, <1>3, <2>1, LengthIsNat DEF IInv, Lines, Numbered, Accounted
<1>4. CASE queue' = queue /\ dropped' = dropped + 1
  BY <1>1, <1>2, <1>4, LengthIsNat DEF IInv, Lines, Numbered, Accounted
<1> QED
  BY <1>3, <1>4 DEF RunCallback, Put

LEMMA ProcessIInv == IInv /\ Process => IInv'
<1> SUFFICES ASSUME IInv, Process PROVE IInv'
  OBVIOUS
<1>1. /\ Lines /\ Numbered /\ Accounted
      /\ UNCHANGED <<connection, capture, emitted, callbacks, dropped>>
      /\ processed' = processed + 1
  BY DEF IInv, Process, captureVars, line
<1>2. queue' \in Seq(Item) /\ Len(queue') = Len(queue) - 1
  BY <1>1, Leaving DEF Process, Lines
<1> QED
  BY <1>1, <1>2, LengthIsNat DEF IInv, Lines, Numbered, Accounted

LEMMA NextIInv == IInv /\ [Next]_vars => IInv'
<1> SUFFICES ASSUME IInv, [Next]_vars PROVE IInv'
  OBVIOUS
<1>1. ASSUME UNCHANGED <<connection, capture, emitted, callbacks, processed, dropped, queue>>
      PROVE  IInv'
  BY <1>1 DEF IInv, Lines, Numbered, Accounted
<1>2. CASE CaptureStep /\ UNCHANGED appVars
  BY <1>2, CaptureIInv
<1>3. CASE SimChanges /\ UNCHANGED appVars
  BY <1>1, <1>3 DEF SimChanges, line, appVars, ingest, session
<1>4. CASE RunCallback
  BY <1>4, CallbackIInv
<1>5. CASE Process
  BY <1>5, ProcessIInv
<1>6. CASE Sent \/ CallReturns \/ WriterEnds \/ JoinCapture \/ LoggerStopped
  BY <1>1, <1>6 DEF Sent, CallReturns, WriterEnds, JoinCapture, LoggerStopped,
                    captureVars, line, ingest, session
<1>7. CASE CloseLoop \/ Shutdown
  BY <1>1, <1>7 DEF CloseLoop, Shutdown, line, ingest, session
<1>8. CASE UNCHANGED vars
  BY <1>1, <1>8 DEF vars, captureVars, line, appVars, ingest, session
<1> QED
  BY <1>2, <1>3, <1>4, <1>5, <1>6, <1>7, <1>8 DEF Next, LoopStep

(* Whatever the capture thread scheduled on the loop is processed once,    *)
(* counted as dropped, or still in a line, through any reconnection and    *)
(* through the shutdown.                                                   *)
THEOREM NothingLostUncounted == Spec => []Accounted
<1>1. Init => IInv
  BY InitIInv
<1>2. IInv /\ [Next]_vars => IInv'
  BY NextIInv
<1>3. IInv => Accounted
  BY DEF IInv
<1> QED
  BY <1>1, <1>2, <1>3, PTL DEF Spec

-----------------------------------------------------------------------------
(* What Lines leaves of the types: the thread's, the queue's size, the     *)
(* events and flags, and what run() and the task go through.               *)
CaptureTypes ==
  /\ capture \in {"top", "connecting", "waiting", "waiting_unexpected", "connected",
                  "polling", "closing", "ended"}
  /\ backoff \in reconnect_min_s..reconnect_max_s
  /\ connection \in Nat /\ frames \in Nat /\ failures \in Nat
  /\ sim \in {"up", "down", "broken"} /\ changes \in 0..MaxChanges

QueueKeepsSize == Len(queue) <= queue_size

Flags ==
  /\ stop \in BOOLEAN /\ loop_closed \in BOOLEAN /\ known_sim \in BOOLEAN
  /\ lost_disconnect \in BOOLEAN

RunTypes ==
  /\ main \in {"running", "joining", "stopping", "done"}
  /\ processor \in {"getting", "sending", "cancelled"}
  /\ session_origin \in Nat /\ logged \in [origin: Nat, connection: Nat]
  /\ call \in {"running", "closing", "stopping", "joining", "stopped"}
  /\ writer \in {"running", "returned", "dead", "killed"}

Types == CaptureTypes /\ QueueKeepsSize /\ Flags /\ RunTypes

LEMMA Limits ==
  /\ reconnect_min_s \in Nat \ {0} /\ reconnect_max_s \in Nat
  /\ reconnect_min_s <= reconnect_max_s /\ MaxChanges \in Nat
  /\ queue_size \in Nat \ {0}
BY CaptureAssumption, QueueAssumption, Zenon

LEMMA InitTypes == Init => Types
<1> SUFFICES ASSUME Init PROVE Types
  OBVIOUS
<1> USE DEF Init, CaptureInit
<1>1. CaptureTypes /\ QueueKeepsSize
  BY Limits DEF CaptureTypes, QueueKeepsSize
<1>2. Flags
  BY Zenon DEF Flags
<1>3. RunTypes
  BY DEF RunTypes, Log!LogInit
<1> QED
  BY <1>1, <1>2, <1>3 DEF Types

LEMMA NextCaptureTypes == CaptureTypes /\ [Next]_vars => CaptureTypes'
<1> SUFFICES ASSUME CaptureTypes, [Next]_vars PROVE CaptureTypes'
  OBVIOUS
<1>1. CASE Top \/ ConnectFails \/ ConnectRaises \/ Poll \/ PollTimesOut \/ PollFails
  BY <1>1 DEF Top, ConnectFails, ConnectRaises, Poll, PollTimesOut, PollFails, Goto, line,
              simulator, CaptureTypes
<1>2. CASE WaitEnds
  <2>1. backoff' \in reconnect_min_s..reconnect_max_s
    BY <1>2, Limits DEF WaitEnds, NextBackoff, CaptureTypes
  <2> QED
    BY <1>2, <2>1 DEF WaitEnds, Goto, line, simulator, CaptureTypes
<1>3. CASE ConnectSucceeds \/ PollFrame \/ CloseAdapter
  BY <1>3, Limits DEF ConnectSucceeds, PollFrame, CloseAdapter, Goto, simulator, CaptureTypes
<1>4. CASE SimChanges
  BY <1>4, Limits DEF SimChanges, line, CaptureTypes
<1>5. CASE LoopStep \/ WriterEnds \/ UNCHANGED vars
  BY <1>5 DEF LoopStep, RunCallback, Put, Process, Sent, CallReturns, Shutdown, JoinCapture,
              LoggerStopped, CloseLoop, WriterEnds, vars, captureVars, line, simulator,
              CaptureTypes
<1> QED
  BY <1>1, <1>2, <1>3, <1>4, <1>5 DEF Next, CaptureStep

LEMMA NextQueueSize == Lines /\ QueueKeepsSize /\ [Next]_vars => QueueKeepsSize'
<1> SUFFICES ASSUME Lines, QueueKeepsSize, [Next]_vars PROVE QueueKeepsSize'
  OBVIOUS
<1>1. CASE RunCallback
  <2>1. CASE queue' = Append(queue, Head(callbacks)) /\ Len(queue) < queue_size
    <3>1. Head(callbacks) \in Item
      BY <1>1, Leaving DEF RunCallback, Put, Lines
    <3> QED
      BY <2>1, <3>1, Joining, LengthIsNat, Limits DEF QueueKeepsSize, Lines
  <2> QED
    BY <1>1, <2>1 DEF RunCallback, Put, QueueKeepsSize
<1>2. CASE Process
  BY <1>2, Leaving, LengthIsNat, Limits DEF Process, QueueKeepsSize, Lines
<1>3. CASE UNCHANGED queue
  BY <1>3 DEF QueueKeepsSize
<1> QED
  BY <1>1, <1>2, <1>3
     DEF Next, LoopStep, Sent, CallReturns, Shutdown, JoinCapture, LoggerStopped, CloseLoop,
         WriterEnds, vars, appVars, ingest

LEMMA NextFlags == Flags /\ [Next]_vars => Flags'
<1> SUFFICES ASSUME Flags, [Next]_vars PROVE Flags'
  OBVIOUS
<1>1. known_sim' = known_sim
  BY Zenon DEF Next, CaptureStep, Top, ConnectFails, ConnectRaises, WaitEnds,
         ConnectSucceeds, Poll, PollFrame, PollTimesOut, PollFails, CloseAdapter, SimChanges,
         LoopStep, RunCallback, Process, Sent, CallReturns, Shutdown, JoinCapture,
         LoggerStopped, CloseLoop, WriterEnds, vars, captureVars, simulator
<1>2. stop' = stop \/ stop' = TRUE
  BY DEF Next, CaptureStep, SimChanges, LoopStep, RunCallback, Process, Sent, CallReturns,
         Shutdown, JoinCapture, LoggerStopped, CloseLoop, WriterEnds, vars, captureVars
<1>3. loop_closed' = loop_closed \/ loop_closed' = TRUE
  BY DEF Next, CaptureStep, SimChanges, LoopStep, RunCallback, Process, Sent, CallReturns,
         Shutdown, JoinCapture, LoggerStopped, CloseLoop, WriterEnds, vars, captureVars
<1>4. \/ lost_disconnect' = lost_disconnect
      \/ lost_disconnect' = (lost_disconnect \/ Head(callbacks).kind = "disconnected")
  BY DEF Next, LoopStep, RunCallback, Put, Process, Sent, CallReturns, Shutdown, JoinCapture,
         LoggerStopped, CloseLoop, WriterEnds, vars, appVars, ingest
<1> QED
  BY <1>1, <1>2, <1>3, <1>4, Zenon DEF Flags

LEMMA NextRunTypes == Lines /\ RunTypes /\ [Next]_vars => RunTypes'
<1> SUFFICES ASSUME Lines, RunTypes, [Next]_vars PROVE RunTypes'
  OBVIOUS
<1>1. CASE Process
  <2> DEFINE i == Head(queue)
  <2>1. /\ i \in Item /\ main' = main
        /\ ProcessStatus(i) \/ WithholdFrame(i) \/ LogFrame(i)
    BY <1>1, Leaving DEF Process, Lines
  <2> HIDE DEF i
  <2> QED
    BY <2>1 DEF ProcessStatus, WithholdFrame, LogFrame, Item, RunTypes, logVars,
                Log!CallClose, Log!Call
<1>2. CASE RunCallback \/ UNCHANGED vars \/ ((CaptureStep \/ SimChanges) /\ UNCHANGED appVars)
  BY <1>2 DEF RunCallback, vars, appVars, session, logVars, RunTypes
<1>3. CASE Sent \/ CallReturns \/ WriterEnds
  BY <1>3 DEF Sent, CallReturns, WriterEnds, session, logVars, RunTypes, Log!CloseReturns,
              Log!StopPuts, Log!WriterEnds, Log!Call
<1>4. CASE Shutdown \/ JoinCapture \/ LoggerStopped \/ CloseLoop
  BY <1>4 DEF Shutdown, JoinCapture, LoggerStopped, CloseLoop, session, logVars, RunTypes,
              Log!CallStop, Log!StopReturns, Log!Call
<1> QED
  BY <1>1, <1>2, <1>3, <1>4 DEF Next, LoopStep

(* The wiring's variables keep their types: the queue never holds more     *)
(* than queue_size items, and the backoff stays between its two limits.    *)
THEOREM QueueAndBackoffBounded == Spec => []TypeOK
<1>1. Init => IInv /\ Types
  BY InitIInv, InitTypes
<1>2. IInv /\ Types /\ [Next]_vars => (IInv /\ Types)'
  BY NextIInv, NextCaptureTypes, NextQueueSize, NextFlags, NextRunTypes DEF IInv, Types
<1>3. IInv /\ Types => TypeOK
  <2> SUFFICES ASSUME IInv, Types PROVE TypeOK
    OBVIOUS
  <2>1. {stop, loop_closed, known_sim, lost_disconnect} \subseteq BOOLEAN
    BY Zenon DEF Types, Flags
  <2> QED
    BY <2>1 DEF IInv, Lines, Types, CaptureTypes, QueueKeepsSize, RunTypes, TypeOK
<1> QED
  BY <1>1, <1>2, <1>3, PTL DEF Spec

-----------------------------------------------------------------------------
(***************************************************************************)
(* The wait before the next attempt.  Doubled is defined by recursion, so  *)
(* that a function with its equation has to be shown to exist.             *)
(***************************************************************************)
Doubles(f, k) == f = [n \in 0..k |-> IF n = 0 THEN reconnect_min_s ELSE 2 * f[n - 1]]

LEMMA DoublingExists == \A k \in Nat : \E f : Doubles(f, k)
<1> DEFINE S == {k \in Nat : \E f : Doubles(f, k)}
<1>1. 0 \in S
  <2>1. Doubles([n \in 0..0 |-> reconnect_min_s], 0)
    BY DEF Doubles
  <2> QED
    BY <2>1, Zenon
<1>2. ASSUME NEW k \in Nat, k \in S PROVE k + 1 \in S
  <2>1. PICK f : Doubles(f, k)
    BY <1>2
  <2> DEFINE g == [n \in 0..(k + 1) |-> IF n = 0 THEN reconnect_min_s ELSE 2 * f[n - 1]]
  <2>2. ASSUME NEW n \in 0..(k + 1), n # 0 PROVE f[n - 1] = g[n - 1]
    <3>1. n - 1 \in 0..k /\ n - 1 \in 0..(k + 1)
      BY <2>2
    <3>2. f[n - 1] = IF n - 1 = 0 THEN reconnect_min_s ELSE 2 * f[n - 1 - 1]
      <4> DEFINE h == [m \in 0..k |-> IF m = 0 THEN reconnect_min_s ELSE 2 * f[m - 1]]
      <4>1. h[n - 1] = IF n - 1 = 0 THEN reconnect_min_s ELSE 2 * f[n - 1 - 1]
        BY <3>1
      <4>2. f = h
        BY <2>1, Zenon DEF Doubles
      <4> QED
        BY <4>1, <4>2, Zenon
    <3>3. g[n - 1] = IF n - 1 = 0 THEN reconnect_min_s ELSE 2 * f[n - 1 - 1]
      BY <3>1
    <3> QED
      BY <3>2, <3>3, Zenon
  <2>3. g = [n \in 0..(k + 1) |-> IF n = 0 THEN reconnect_min_s ELSE 2 * g[n - 1]]
    <3> HIDE DEF g
    <3> SUFFICES ASSUME NEW n \in 0..(k + 1)
                 PROVE  (IF n = 0 THEN reconnect_min_s ELSE 2 * f[n - 1])
                           = (IF n = 0 THEN reconnect_min_s ELSE 2 * g[n - 1])
      BY Zenon DEF g
    <3> QED
      BY <2>2, Zenon
  <2>4. Doubles(g, k + 1)
    <3> HIDE DEF g
    <3> QED
      BY <2>3, Zenon DEF Doubles
  <2>5. k + 1 \in Nat
    OBVIOUS
  <2> QED
    BY <2>4, <2>5, Zenon
<1>3. Nat \subseteq S
  <2> HIDE DEF S
  <2> QED
    BY <1>1, <1>2, NatSetInduction
<1> QED
  BY <1>3

LEMMA DoubledIs ==
  \A n \in 0..MaxFailures :
    Doubled[n] = IF n = 0 THEN reconnect_min_s ELSE 2 * Doubled[n - 1]
<1> DEFINE D == CHOOSE f : Doubles(f, MaxFailures)
<1>1. Doubles(D, MaxFailures)
  <2>1. \E f : Doubles(f, MaxFailures)
    BY CaptureAssumption, DoublingExists
  <2> QED
    BY <2>1, Zenon
<1>2. Doubled = D
  BY Zenon DEF Doubled, Doubles
<1> HIDE DEF D
<1>3. D = [n \in 0..MaxFailures |-> IF n = 0 THEN reconnect_min_s ELSE 2 * D[n - 1]]
  BY <1>1, Zenon DEF Doubles
<1> DEFINE e == [n \in 0..MaxFailures |-> IF n = 0 THEN reconnect_min_s ELSE 2 * D[n - 1]]
<1>4. \A n \in 0..MaxFailures : e[n] = IF n = 0 THEN reconnect_min_s ELSE 2 * D[n - 1]
  OBVIOUS
<1> QED
  BY <1>2, <1>3, <1>4, Zenon

LEMMA DoubledIsNat == \A n \in 0..MaxFailures : Doubled[n] \in Nat
<1> DEFINE S == {k \in Nat : k \in 0..MaxFailures => Doubled[k] \in Nat}
<1>1. 0 \in S
  BY DoubledIs, Limits
<1>2. ASSUME NEW k \in Nat, k \in S PROVE k + 1 \in S
  <2>1. k + 1 \in 0..MaxFailures => k \in 0..MaxFailures /\ k + 1 # 0 /\ k + 1 - 1 = k
    BY CaptureAssumption
  <2>2. k + 1 \in 0..MaxFailures => Doubled[k + 1] = 2 * Doubled[k]
    BY <2>1, DoubledIs
  <2> QED
    BY <1>2, <2>1, <2>2
<1>3. Nat \subseteq S
  <2> HIDE DEF S
  <2> QED
    BY <1>1, <1>2, NatSetInduction
<1> QED
  BY <1>3

Capped(b) == IF b < reconnect_max_s THEN b ELSE reconnect_max_s

(* The failures that the next wait counts. *)
Counting == IF capture = "waiting" THEN failures - 1 ELSE failures

BackoffInv ==
  /\ failures \in 0..MaxFailures
  /\ capture = "waiting" => failures # 0
  /\ backoff = Capped(Doubled[Counting])

(* One doubling more, up to the limit; and past the count of failures the  *)
(* limit has been reached.                                                 *)
LEMMA OneMore ==
  /\ \A n \in 1..MaxFailures : NextBackoff(Capped(Doubled[n - 1])) = Capped(Doubled[n])
  /\ Capped(Doubled[MaxFailures]) = Capped(Doubled[MaxFailures - 1])
  /\ Capped(Doubled[0]) = reconnect_min_s
<1>1. /\ MaxFailures \in Nat \ {0} /\ reconnect_min_s \in Nat \ {0}
      /\ reconnect_max_s \in Nat \ {0} /\ reconnect_min_s <= reconnect_max_s
      /\ Doubled[MaxFailures - 1] >= reconnect_max_s
  BY CaptureAssumption
<1>2. \A n \in 1..MaxFailures : /\ Doubled[n] = 2 * Doubled[n - 1]
                                /\ Doubled[n - 1] \in Nat
  <2> SUFFICES ASSUME NEW n \in 1..MaxFailures
               PROVE  Doubled[n] = 2 * Doubled[n - 1] /\ Doubled[n - 1] \in Nat
    OBVIOUS
  <2>1. n \in 0..MaxFailures /\ n - 1 \in 0..MaxFailures /\ n # 0
    BY <1>1
  <2> QED
    BY <2>1, DoubledIs, DoubledIsNat
<1>3. Doubled[0] = reconnect_min_s
  <2>1. 0 \in 0..MaxFailures
    BY <1>1
  <2> QED
    BY <2>1, DoubledIs
<1>4. MaxFailures \in 1..MaxFailures
  BY <1>1
<1> QED
  BY <1>1, <1>2, <1>3, <1>4 DEF NextBackoff, Capped

LEMMA NextBackoffInv == BackoffInv /\ [Next]_vars => BackoffInv'
<1> SUFFICES ASSUME BackoffInv, [Next]_vars PROVE BackoffInv'
  OBVIOUS
<1>1. MaxFailures \in Nat \ {0}
  BY CaptureAssumption
<1>2. ASSUME UNCHANGED <<backoff, failures>>, capture # "waiting", capture' # "waiting"
      PROVE  BackoffInv'
  BY <1>2 DEF BackoffInv, Counting, Capped
<1>3. CASE UNCHANGED <<capture, backoff, failures>>
  BY <1>3 DEF BackoffInv, Counting, Capped
<1>4. CASE ConnectFails
  <2>1. CASE failures < MaxFailures
    <3>1. /\ failures' = failures + 1 /\ Counting = failures /\ Counting' = failures
          /\ capture' = "waiting" /\ backoff' = backoff
      BY <1>1, <1>4, <2>1 DEF ConnectFails, Goto, Counting, BackoffInv
    <3> QED
      BY <1>1, <2>1, <3>1 DEF BackoffInv, Capped
  <2>2. CASE ~(failures < MaxFailures)
    <3>1. /\ failures' = MaxFailures /\ Counting = MaxFailures
          /\ Counting' = MaxFailures - 1
          /\ capture' = "waiting" /\ backoff' = backoff
      BY <1>1, <1>4, <2>2 DEF ConnectFails, Goto, Counting, BackoffInv
    <3>2. backoff' = Capped(Doubled[MaxFailures - 1])
      BY <3>1, OneMore DEF BackoffInv
    <3> QED
      BY <1>1, <3>1, <3>2 DEF BackoffInv, Capped
  <2> QED
    BY <2>1, <2>2
<1>5. CASE WaitEnds
  <2>1. CASE Goto("waiting", "top") /\ backoff' = NextBackoff(backoff)
    <3>1. /\ Counting = failures - 1 /\ failures \in 1..MaxFailures
          /\ failures' = failures /\ capture' = "top" /\ Counting' = failures
      BY <1>1, <1>5, <2>1 DEF WaitEnds, Goto, Counting, BackoffInv
    <3>2. backoff' = Capped(Doubled[failures])
      BY <2>1, <3>1, OneMore DEF BackoffInv
    <3> QED
      BY <3>1, <3>2 DEF BackoffInv, Capped
  <2> QED
    BY <1>2, <1>5, <2>1 DEF WaitEnds, Goto
<1>6. CASE ConnectSucceeds
  <2>1. failures' = 0 /\ Counting' = 0 /\ capture' = "connected" /\ backoff' = reconnect_min_s
    BY <1>6 DEF ConnectSucceeds, Goto, Counting
  <2> QED
    BY <1>1, <2>1, OneMore DEF BackoffInv, Capped
<1>7. CASE Top \/ ConnectRaises \/ Poll \/ PollFrame \/ PollTimesOut \/ PollFails \/ CloseAdapter
  BY <1>2, <1>7 DEF Top, ConnectRaises, Poll, PollFrame, PollTimesOut, PollFails, CloseAdapter,
                    Goto
<1>8. CASE SimChanges \/ LoopStep \/ WriterEnds \/ UNCHANGED vars
  BY <1>3, <1>8 DEF SimChanges, LoopStep, RunCallback, Process, Sent, CallReturns, Shutdown,
                    JoinCapture, LoggerStopped, CloseLoop, WriterEnds, vars, captureVars
<1> QED
  BY <1>4, <1>5, <1>6, <1>7, <1>8 DEF Next, CaptureStep

(* Through refused and broken connections, successes and failing polls,    *)
(* the wait is the least one doubled as often as connect() has failed in a *)
(* row, and no longer than the greatest.                                   *)
THEOREM WaitsDouble == Spec => []BackoffIsExponential
<1>1. Init => BackoffInv
  <2> SUFFICES ASSUME Init PROVE BackoffInv
    OBVIOUS
  <2>1. failures = 0 /\ Counting = 0 /\ capture = "top" /\ backoff = reconnect_min_s
    BY DEF Init, CaptureInit, Counting
  <2> QED
    BY <2>1, OneMore, CaptureAssumption DEF BackoffInv
<1>2. BackoffInv => BackoffIsExponential
  BY DEF BackoffInv, Counting, Capped, BackoffIsExponential
<1> QED
  BY <1>1, <1>2, NextBackoffInv, PTL DEF Spec

-----------------------------------------------------------------------------
(***************************************************************************)
(* A session ends with its connection.  The open session, the items ahead  *)
(* of the tracker and the connection whose frame the capture thread will   *)
(* send next stand in one line, and in that line a "disconnected" item     *)
(* comes between any two connections.                                      *)
(***************************************************************************)
(* The connection that position i is of, or 0: the session at 0, then the  *)
(* items of l, and behind them the next frame.                             *)
Owner(l, o, c, i) ==
  IF i = 0 THEN o
  ELSE IF i = Len(l) + 1 THEN c
  ELSE IF l[i].kind = "frame" THEN l[i].connection ELSE 0

InOrder(l, o, c) ==
  \A i, j \in 0..(Len(l) + 1) :
    /\ i < j
    /\ Owner(l, o, c, i) # 0 /\ Owner(l, o, c, j) # 0
    /\ Owner(l, o, c, i) # Owner(l, o, c, j)
    => \E k \in (i + 1)..(j - 1) : l[k].kind = "disconnected"

(* What the loop and the queue hold, first to last. *)
Ahead == queue \o callbacks

NextConnection ==
  IF capture \in {"connected", "polling", "closing"} THEN connection ELSE connection + 1

EndInv ==
  /\ session_origin \in Nat
  /\ \/ lost_disconnect
     \/ /\ SessionOfOneConnection
        /\ loop_closed \/ InOrder(Ahead, session_origin, NextConnection)

(* logger.stop() is called while run() joins, and the loop is closed last: *)
(* then nothing is processed any more, whatever is still emitted.          *)
ShutdownInv ==
  /\ call \in {"stopping", "joining"} => main = "joining"
  /\ loop_closed => main = "done"

-----------------------------------------------------------------------------
(* The line grows at its end: by a frame of the connection or a            *)
(* "connected" item, or by a "disconnected" item, behind which the next    *)
(* connection may be any.                                                  *)
LEMMA GrowsInOrder ==
  ASSUME NEW l \in Seq(Item), NEW x \in Item, NEW o \in Nat, NEW c \in Nat \ {0},
         NEW d \in Nat \ {0}, InOrder(l, o, c),
         \/ x.kind = "disconnected"
         \/ c = d /\ (x.kind = "frame" => x.connection = c)
  PROVE  InOrder(Append(l, x), o, d)
<1> DEFINE m == Append(l, x)
<1>1. /\ Len(l) \in Nat /\ Len(m) = Len(l) + 1
      /\ \A i \in 1..Len(l) : m[i] = l[i]
      /\ m[Len(l) + 1] = x
  BY AppendProperties, LenProperties
<1>2. \A i \in 0..Len(l) : Owner(m, o, d, i) = Owner(l, o, c, i)
  BY <1>1 DEF Owner
<1>3. /\ Owner(l, o, c, Len(l) + 1) = c
      /\ Owner(m, o, d, Len(l) + 1) = IF x.kind = "frame" THEN x.connection ELSE 0
      /\ Owner(m, o, d, Len(l) + 2) = d
  BY <1>1 DEF Owner
<1> HIDE DEF m
<1> SUFFICES ASSUME NEW i \in 0..(Len(l) + 2), NEW j \in 0..(Len(l) + 2), i < j,
                    Owner(m, o, d, i) # 0, Owner(m, o, d, j) # 0,
                    Owner(m, o, d, i) # Owner(m, o, d, j)
             PROVE  \E k \in (i + 1)..(j - 1) : m[k].kind = "disconnected"
  BY <1>1 DEF InOrder, m
<1>4. CASE i <= Len(l) /\ j <= Len(l)
  <2>1. PICK k \in (i + 1)..(j - 1) : l[k].kind = "disconnected"
    BY <1>1, <1>2, <1>4 DEF InOrder
  <2> QED
    BY <1>1, <1>4, <2>1
<1>5. CASE i <= Len(l) /\ j > Len(l) /\ x.kind # "disconnected"
  <2>1. Owner(m, o, d, j) = c
    BY <1>1, <1>3, <1>5
  <2>2. PICK k \in (i + 1)..Len(l) : l[k].kind = "disconnected"
    BY <1>1, <1>2, <1>3, <1>5, <2>1 DEF InOrder
  <2> QED
    BY <1>1, <1>5, <2>2
<1>6. CASE i <= Len(l) /\ j > Len(l) /\ x.kind = "disconnected"
  <2>1. j = Len(l) + 2
    BY <1>1, <1>3, <1>6
  <2> QED
    BY <1>1, <1>6, <2>1
<1>7. CASE i > Len(l)
  <2>1. i = Len(l) + 1 /\ j = Len(l) + 2
    BY <1>1, <1>7
  <2> QED
    BY <1>1, <1>3, <2>1
<1> QED
  BY <1>1, <1>4, <1>5, <1>6, <1>7

(* A line l without its item at p: m. *)
Loses(l, p, m) ==
  /\ p \in 1..Len(l)
  /\ m \in Seq(Item) /\ Len(m) = Len(l) - 1
  /\ \A i \in 1..Len(m) : m[i] = l[IF i < p THEN i ELSE i + 1]

(* An item that is not "disconnected" leaves the line, at its head or      *)
(* further back, and the session is none, as it was, or that of the head.  *)
LEMMA ShrinksInOrder ==
  ASSUME NEW l \in Seq(Item), NEW m, NEW p \in 1..Len(l), Loses(l, p, m),
         NEW o \in Nat, NEW n \in Nat, NEW c \in Nat \ {0}, InOrder(l, o, c),
         \/ l[p].kind # "disconnected" /\ n = o
         \/ p = 1 /\ l[1].kind = "frame" /\ n = l[1].connection
         \/ p = 1 /\ n = 0
  PROVE  InOrder(m, n, c)
<1> DEFINE from(i) == IF i < p /\ (i # 0 \/ n = o) THEN i ELSE i + 1
<1>1. /\ Len(l) \in Nat \ {0} /\ Len(m) \in Nat /\ Len(m) = Len(l) - 1
      /\ \A i \in 1..Len(m) : m[i] = l[IF i < p THEN i ELSE i + 1]
  BY LenProperties DEF Loses
<1>2. \A i \in 0..(Len(m) + 1) :
        Owner(m, n, c, i) # 0 => Owner(m, n, c, i) = Owner(l, o, c, from(i))
  <2> SUFFICES ASSUME NEW i \in 0..(Len(m) + 1), Owner(m, n, c, i) # 0
               PROVE  Owner(m, n, c, i) = Owner(l, o, c, from(i))
    OBVIOUS
  <2>1. CASE i = 0 /\ n = o
    BY <1>1, <2>1 DEF Owner
  <2>2. CASE i = 0 /\ n # o
    <3>1. n # 0
      BY <2>2 DEF Owner
    <3>2. p = 1 /\ l[1].kind = "frame" /\ n = l[1].connection
      BY <2>2, <3>1
    <3>3. from(i) = 1
      BY <2>2
    <3> QED
      BY <1>1, <2>2, <3>2, <3>3 DEF Owner
  <2>3. CASE i = Len(m) + 1
    <3>1. from(i) = Len(l) + 1
      BY <1>1, <2>3
    <3> QED
      BY <1>1, <2>3, <3>1 DEF Owner
  <2>4. CASE i \in 1..Len(m)
    <3>1. from(i) \in 1..Len(l) /\ m[i] = l[from(i)]
      BY <1>1, <2>4
    <3> HIDE DEF from
    <3> QED
      BY <1>1, <2>4, <3>1 DEF Owner
  <2> QED
    BY <1>1, <2>1, <2>2, <2>3, <2>4
<1> SUFFICES ASSUME NEW i \in 0..(Len(m) + 1), NEW j \in 0..(Len(m) + 1), i < j,
                    Owner(m, n, c, i) # 0, Owner(m, n, c, j) # 0,
                    Owner(m, n, c, i) # Owner(m, n, c, j)
             PROVE  \E k \in (i + 1)..(j - 1) : m[k].kind = "disconnected"
  BY DEF InOrder
<1>3. /\ from(i) \in 0..(Len(l) + 1) /\ from(j) \in 0..(Len(l) + 1)
      /\ from(i) < from(j)
  BY <1>1
<1>4. PICK k \in (from(i) + 1)..(from(j) - 1) : l[k].kind = "disconnected"
  BY <1>2, <1>3 DEF InOrder
<1>5. k # p
  <2> SUFFICES ASSUME k = p PROVE FALSE
    OBVIOUS
  <2>1. p = 1 /\ n = 0
    BY <1>4
  <2>2. i # 0
    BY <2>1 DEF Owner
  <2>3. from(i) >= 1 + 1
    BY <2>1, <2>2
  <2> QED
    BY <1>1, <1>3, <1>4, <2>1, <2>3
<1>6. CASE k < p
  BY <1>1, <1>3, <1>4, <1>6
<1>7. CASE k > p
  <2>1. i + 1 <= k - 1 /\ k - 1 <= j - 1
    BY <1>1, <1>3, <1>4, <1>7
  <2>2. k - 1 \in 1..Len(m) /\ ~(k - 1 < p)
    BY <1>1, <1>4, <1>7, <2>1
  <2>3. m[k - 1] = l[k]
    <3>1. m[k - 1] = l[IF k - 1 < p THEN k - 1 ELSE (k - 1) + 1]
      BY <1>1, <2>2
    <3> QED
      BY <1>4, <2>2, <3>1
  <2> QED
    BY <1>4, <2>1, <2>2, <2>3
<1> QED
  BY <1>1, <1>3, <1>5, <1>6, <1>7

(* No "disconnected" item is before the first: it is of the open session.  *)
LEMMA FirstIsOfSession ==
  ASSUME NEW l \in Seq(Item), 1 \in 1..Len(l), NEW o \in Nat, o # 0, NEW c \in Nat \ {0},
         InOrder(l, o, c), l[1].kind = "frame"
  PROVE  l[1].connection = o
<1>1. Len(l) \in Nat \ {0} /\ l[1] \in Item
  BY LenProperties, ElementOfSeq
<1>2. /\ Owner(l, o, c, 0) = o /\ Owner(l, o, c, 1) = l[1].connection
      /\ l[1].connection # 0
  BY <1>1 DEF Owner, Item
<1>3. 0 \in 0..(Len(l) + 1) /\ 1 \in 0..(Len(l) + 1)
  BY <1>1
<1> QED
  BY <1>2, <1>3 DEF InOrder

-----------------------------------------------------------------------------
(* What the steps of the two lines do to the one they make together.       *)
LEMMA AheadIsSeq == Lines => Ahead \in Seq(Item)
BY ConcatProperties DEF Lines, Ahead

LEMMA EmittedIsLast ==
  ASSUME Lines, NEW x \in Item, callbacks' = Append(callbacks, x), queue' = queue
  PROVE  Ahead' = Append(Ahead, x)
<1>1. queue \in Seq(Item) /\ callbacks \in Seq(Item) /\ <<x>> \in Seq(Item)
  BY DEF Lines
<1>2. queue \o (callbacks \o <<x>>) = (queue \o callbacks) \o <<x>>
  BY <1>1, ConcatAssociative
<1>3. Append(callbacks, x) = callbacks \o <<x>>
  BY <1>1, AppendIsConcat
<1>4. Append(Ahead, x) = Ahead \o <<x>>
  BY <1>1, AheadIsSeq, AppendIsConcat
<1> QED
  BY <1>2, <1>3, <1>4 DEF Ahead

LEMMA QueuedStaysAhead ==
  ASSUME Lines, callbacks # <<>>, queue' = Append(queue, Head(callbacks)),
         callbacks' = Tail(callbacks)
  PROVE  Ahead' = Ahead
<1> DEFINE h == Head(callbacks)
           r == Tail(callbacks)
<1>1. /\ queue \in Seq(Item) /\ callbacks \in Seq(Item) /\ h \in Item
      /\ r \in Seq(Item) /\ <<h>> \in Seq(Item)
  BY DEF Lines
<1>2. callbacks = <<h>> \o r
  BY <1>1
<1>3. Append(queue, h) = queue \o <<h>>
  BY <1>1, AppendIsConcat
<1> HIDE DEF h, r
<1>4. (queue \o <<h>>) \o r = queue \o (<<h>> \o r)
  BY <1>1, ConcatAssociative
<1> QED
  BY <1>2, <1>3, <1>4 DEF Ahead, h, r

LEMMA LosesOne ==
  ASSUME NEW s \in Seq(Item), NEW h \in Item, NEW r \in Seq(Item)
  PROVE  /\ Loses(s \o (<<h>> \o r), Len(s) + 1, s \o r)
         /\ (s \o (<<h>> \o r))[Len(s) + 1] = h
<1> DEFINE n == Len(s)
           t == <<h>> \o r
           l == s \o t
           m == s \o r
<1>1. n \in Nat /\ Len(r) \in Nat
  BY LenProperties
<1>2. <<h>> \in Seq(Item) /\ Len(<<h>>) = 1 /\ <<h>>[1] = h
  OBVIOUS
<1>3. /\ t \in Seq(Item) /\ Len(t) = Len(r) + 1
      /\ \A i \in 1..(Len(r) + 1) : t[i] = IF i <= 1 THEN <<h>>[i] ELSE r[i - 1]
  BY <1>1, <1>2, ConcatProperties
<1> HIDE DEF t
<1>4. /\ Len(l) = n + Len(r) + 1
      /\ \A i \in 1..(n + Len(r) + 1) : l[i] = IF i <= n THEN s[i] ELSE t[i - n]
  <2>1. /\ Len(l) = n + Len(t)
        /\ \A i \in 1..(n + Len(t)) : l[i] = IF i <= n THEN s[i] ELSE t[i - n]
    BY <1>3, ConcatProperties
  <2>2. n + Len(t) = n + Len(r) + 1
    BY <1>1, <1>3
  <2> QED
    BY <2>1, <2>2
<1>5. /\ m \in Seq(Item) /\ Len(m) = n + Len(r)
      /\ \A i \in 1..(n + Len(r)) : m[i] = IF i <= n THEN s[i] ELSE r[i - n]
  BY <1>1, ConcatProperties
<1> HIDE DEF n, l, m
<1>6. n + 1 \in 1..Len(l) /\ l[n + 1] = h
  <2>1. n + 1 \in 1..(n + Len(r) + 1) /\ ~(n + 1 <= n) /\ (n + 1) - n = 1
    BY <1>1
  <2>2. l[n + 1] = t[1]
    BY <1>4, <2>1
  <2>3. t[1] = h
    BY <1>1, <1>2, <1>3
  <2> QED
    BY <1>4, <2>1, <2>2, <2>3
<1>7. ASSUME NEW i \in 1..Len(m)
      PROVE  m[i] = l[IF i < n + 1 THEN i ELSE i + 1]
  <2>1. i \in 1..(n + Len(r)) /\ i \in 1..(n + Len(r) + 1) /\ i + 1 \in 1..(n + Len(r) + 1)
    BY <1>1, <1>5
  <2>2. CASE i < n + 1
    <3>1. m[i] = s[i] /\ l[i] = s[i]
      BY <1>1, <1>4, <1>5, <2>1, <2>2
    <3> QED
      BY <2>2, <3>1
  <2>3. CASE ~(i < n + 1)
    <3>1. m[i] = r[i - n]
      BY <1>1, <1>5, <2>1, <2>3
    <3>2. l[i + 1] = t[(i + 1) - n] /\ (i + 1) - n \in 1..(Len(r) + 1) /\ ~((i + 1) - n <= 1)
      BY <1>1, <1>4, <2>1, <2>3
    <3>3. t[(i + 1) - n] = r[((i + 1) - n) - 1] /\ ((i + 1) - n) - 1 = i - n
      BY <1>1, <1>3, <2>1, <3>2
    <3> QED
      BY <2>3, <3>1, <3>2, <3>3
  <2> QED
    BY <2>2, <2>3
<1> QED
  BY <1>1, <1>4, <1>5, <1>6, <1>7 DEF Loses, l, m, n, t

LEMMA HeadAndTail ==
  ASSUME NEW s \in Seq(Item), s # <<>>
  PROVE  Head(s) \in Item /\ Tail(s) \in Seq(Item) /\ s = <<Head(s)>> \o Tail(s)
OBVIOUS

LEMMA DroppedLeavesLine ==
  ASSUME Lines, callbacks # <<>>, queue' = queue, callbacks' = Tail(callbacks)
  PROVE  Loses(Ahead, Len(queue) + 1, Ahead') /\ Ahead[Len(queue) + 1] = Head(callbacks)
<1>1. queue \in Seq(Item) /\ callbacks \in Seq(Item)
  BY DEF Lines
<1>2. /\ Head(callbacks) \in Item /\ Tail(callbacks) \in Seq(Item)
      /\ callbacks = <<Head(callbacks)>> \o Tail(callbacks)
  BY <1>1, HeadAndTail
<1>3. Ahead = queue \o (<<Head(callbacks)>> \o Tail(callbacks)) /\ Ahead' = queue \o Tail(callbacks)
  BY <1>2 DEF Ahead
<1> QED
  BY <1>1, <1>2, <1>3, LosesOne

LEMMA TakenIsFirst ==
  ASSUME Lines, queue # <<>>, queue' = Tail(queue), callbacks' = callbacks
  PROVE  Loses(Ahead, 1, Ahead') /\ Ahead[1] = Head(queue)
<1> DEFINE h == Head(queue)
           r == Tail(queue)
<1>1. queue \in Seq(Item) /\ callbacks \in Seq(Item)
  BY DEF Lines
<1>2. h \in Item /\ <<h>> \in Seq(Item) /\ r \in Seq(Item) /\ queue = <<h>> \o r
  BY <1>1, HeadAndTail
<1> HIDE DEF h, r
<1>3. (<<h>> \o r) \o callbacks = <<h>> \o (r \o callbacks)
  BY <1>1, <1>2, ConcatAssociative
<1>4. Ahead' = r \o callbacks /\ Ahead' \in Seq(Item)
  BY <1>1, <1>2, ConcatProperties DEF Ahead, r
<1>5. /\ <<>> \o Ahead' = Ahead' /\ <<>> \o (<<h>> \o Ahead') = <<h>> \o Ahead'
      /\ <<>> \in Seq(Item) /\ Len(<<>>) + 1 = 1
  BY <1>2, <1>4, ConcatEmptySeq, ConcatProperties, EmptySeq
<1>6. Ahead = <<h>> \o Ahead'
  BY <1>2, <1>3, <1>4 DEF Ahead
<1>7. /\ Loses(<<>> \o (<<h>> \o Ahead'), Len(<<>>) + 1, <<>> \o Ahead')
      /\ (<<>> \o (<<h>> \o Ahead'))[Len(<<>>) + 1] = h
  BY <1>2, <1>4, <1>5, LosesOne
<1> QED
  BY <1>5, <1>6, <1>7 DEF h

-----------------------------------------------------------------------------
LEMMA InitEndInv == Init => EndInv
<1> SUFFICES ASSUME Init PROVE EndInv
  OBVIOUS
<1>1. Ahead = <<>> /\ session_origin = 0
  BY DEF Init, CaptureInit, Ahead
<1>2. InOrder(<<>>, 0, NextConnection)
  BY DEF InOrder, Owner
<1> QED
  BY <1>1, <1>2 DEF Init, CaptureInit, EndInv, SessionOfOneConnection

(* The number of the connection whose frame is the next sent. *)
LEMMA NextIsNumbered ==
  /\ Numbered => NextConnection \in Nat \ {0}
  /\ Numbered' => NextConnection' \in Nat \ {0}
BY DEF Numbered, NextConnection

(* A step that keeps the line, the session and what the next frame is of.  *)
LEMMA QuietEndInv ==
  ASSUME EndInv, Ahead' = Ahead, NextConnection' = NextConnection,
         UNCHANGED <<session_origin, logged, lost_disconnect, loop_closed>> \/ CloseLoop
  PROVE  EndInv'
BY DEF EndInv, SessionOfOneConnection, CloseLoop, session, ingest

(* What the capture thread emits goes to the end of the line. *)
LEMMA EmitEndInv ==
  ASSUME Lines, Numbered, Numbered', EndInv,
         NEW kind \in {"connected", "frame", "disconnected"}, NEW c \in Nat \ {0},
         Emit(kind, c), UNCHANGED <<loop_closed, appVars>>,
         \/ kind = "disconnected"
         \/ NextConnection' = NextConnection /\ c = NextConnection
  PROVE  EndInv'
<1>1. UNCHANGED <<session_origin, logged, lost_disconnect, main, queue, loop_closed>>
  BY DEF appVars, ingest, session
<1>2. CASE lost_disconnect \/ loop_closed
  BY <1>1, <1>2 DEF EndInv, SessionOfOneConnection
<1>3. CASE ~lost_disconnect /\ ~loop_closed
  <2> DEFINE x == [kind |-> kind, connection |-> c]
  <2>1. x \in Item
    BY DEF Item
  <2>2. Ahead' = Append(Ahead, x)
    BY <1>1, <1>3, <2>1, EmittedIsLast DEF Emit
  <2>3. InOrder(Ahead, session_origin, NextConnection)
    BY <1>3 DEF EndInv
  <2>4. InOrder(Append(Ahead, x), session_origin, NextConnection')
    <3>1. /\ NextConnection \in Nat \ {0} /\ NextConnection' \in Nat \ {0}
          /\ Ahead \in Seq(Item) /\ session_origin \in Nat
      BY NextIsNumbered, AheadIsSeq DEF EndInv
    <3>2. \/ x.kind = "disconnected"
          \/ /\ NextConnection = NextConnection'
             /\ x.kind = "frame" => x.connection = NextConnection
      OBVIOUS
    <3> QED
      BY <2>1, <2>3, <3>1, <3>2, GrowsInOrder
  <2> QED
    BY <1>1, <1>3, <2>2, <2>4 DEF EndInv, SessionOfOneConnection
<1> QED
  BY <1>2, <1>3

LEMMA CaptureEndInv == IInv /\ EndInv /\ CaptureStep /\ UNCHANGED appVars => EndInv'
<1> SUFFICES ASSUME IInv, EndInv, CaptureStep, UNCHANGED appVars PROVE EndInv'
  OBVIOUS
<1>1. /\ Lines /\ Numbered /\ Numbered' /\ UNCHANGED loop_closed
      /\ UNCHANGED <<session_origin, logged, lost_disconnect, main, queue>>
  BY CaptureIInv DEF IInv, CaptureStep, appVars, ingest, session
<1>2. CASE Top \/ ConnectFails \/ ConnectRaises \/ WaitEnds \/ Poll \/ PollTimesOut \/ PollFails
  <2>1. UNCHANGED <<connection, callbacks>>
    BY <1>2 DEF line, Top, ConnectFails, ConnectRaises, WaitEnds, Poll, PollTimesOut, PollFails
  <2>2. capture' \in {"connected", "polling", "closing"}
          <=> capture \in {"connected", "polling", "closing"}
    BY <1>2 DEF Top, ConnectFails, ConnectRaises, WaitEnds, Poll, PollTimesOut, PollFails, Goto
  <2>3. Ahead' = Ahead /\ NextConnection' = NextConnection
    BY <1>1, <2>1, <2>2 DEF Ahead, NextConnection
  <2> QED
    BY <1>1, <2>3, QuietEndInv
<1>3. CASE ConnectSucceeds
  <2>1. /\ Emit("connected", connection + 1) /\ connection + 1 \in Nat \ {0}
        /\ NextConnection' = NextConnection /\ NextConnection = connection + 1
    BY <1>1, <1>3 DEF ConnectSucceeds, Goto, Numbered, NextConnection
  <2> QED
    BY <1>1, <2>1, EmitEndInv
<1>4. CASE PollFrame
  <2>1. /\ Emit("frame", connection) /\ connection \in Nat \ {0}
        /\ NextConnection' = NextConnection /\ NextConnection = connection
    BY <1>1, <1>4 DEF PollFrame, Goto, Numbered, NextConnection
  <2> QED
    BY <1>1, <2>1, EmitEndInv
<1>5. CASE CloseAdapter
  <2>1. Emit("disconnected", connection) /\ connection \in Nat \ {0}
    BY <1>1, <1>5 DEF CloseAdapter, Goto, Numbered
  <2> QED
    BY <1>1, <2>1, EmitEndInv
<1> QED
  BY <1>2, <1>3, <1>4, <1>5 DEF CaptureStep

(* The queue takes the head of the callbacks, or it is dropped: no loss to *)
(* the order, unless it is a "disconnected" item, and that is remembered.  *)
LEMMA CallbackEndInv == IInv /\ EndInv /\ RunCallback => EndInv'
<1> SUFFICES ASSUME IInv, EndInv, RunCallback PROVE EndInv'
  OBVIOUS
<1>1. /\ Lines /\ Numbered /\ callbacks # <<>> /\ callbacks' = Tail(callbacks)
      /\ UNCHANGED <<session_origin, logged, loop_closed, main>>
      /\ NextConnection' = NextConnection
  BY DEF IInv, RunCallback, Put, session, NextConnection
<1>2. CASE queue' = Append(queue, Head(callbacks)) /\ UNCHANGED lost_disconnect
  BY <1>1, <1>2, QueuedStaysAhead, QuietEndInv
<1>3. CASE /\ queue' = queue
           /\ lost_disconnect' = (lost_disconnect \/ Head(callbacks).kind = "disconnected")
  <2>1. CASE lost_disconnect \/ Head(callbacks).kind = "disconnected"
    BY <1>1, <1>3, <2>1 DEF EndInv
  <2>2. CASE loop_closed /\ ~lost_disconnect
    BY <1>1, <1>3, <2>2 DEF EndInv, SessionOfOneConnection
  <2>3. CASE /\ ~loop_closed /\ ~lost_disconnect
             /\ Head(callbacks).kind # "disconnected"
    <3>1. InOrder(Ahead, session_origin, NextConnection) /\ session_origin \in Nat
      BY <2>3 DEF EndInv
    <3>2. /\ Loses(Ahead, Len(queue) + 1, Ahead') /\ Len(queue) + 1 \in 1..Len(Ahead)
          /\ Ahead[Len(queue) + 1].kind # "disconnected"
          /\ Ahead \in Seq(Item) /\ NextConnection \in Nat \ {0}
      BY <1>1, <1>3, <2>3, DroppedLeavesLine, AheadIsSeq, NextIsNumbered DEF Loses
    <3>3. InOrder(Ahead', session_origin, NextConnection)
      BY <3>1, <3>2, ShrinksInOrder
    <3> QED
      BY <1>1, <1>3, <2>3, <3>3 DEF EndInv, SessionOfOneConnection
  <2> QED
    BY <2>1, <2>2, <2>3
<1> QED
  BY <1>2, <1>3 DEF RunCallback, Put

(* The tracker's session is none, as it was, or of the item taken; and if  *)
(* a frame is logged in it as it was, then it was of that frame's          *)
(* connection.                                                             *)
LEMMA ProcessEndInv == IInv /\ ShutdownInv /\ EndInv /\ Process => EndInv'
<1> SUFFICES ASSUME IInv, ShutdownInv, EndInv, Process PROVE EndInv'
  OBVIOUS
<1> DEFINE item == Head(queue)
<1>1. /\ Lines /\ Numbered /\ queue # <<>> /\ queue' = Tail(queue)
      /\ UNCHANGED <<callbacks, loop_closed, main, lost_disconnect>>
      /\ NextConnection' = NextConnection /\ main = "running" /\ session_origin \in Nat
      /\ ProcessStatus(item) \/ WithholdFrame(item) \/ LogFrame(item)
  BY DEF IInv, EndInv, Process, Running, captureVars, line, NextConnection
<1>2. ~loop_closed
  BY <1>1 DEF ShutdownInv
<1>3. item \in Item
  BY <1>1, Leaving DEF Lines
<1>4. session_origin' \in Nat
  BY <1>1, <1>3 DEF ProcessStatus, WithholdFrame, LogFrame, Item
<1>5. CASE lost_disconnect
  BY <1>1, <1>2, <1>4, <1>5 DEF EndInv
<1>6. CASE ~lost_disconnect
  <2>1. SessionOfOneConnection /\ InOrder(Ahead, session_origin, NextConnection)
    BY <1>2, <1>6 DEF EndInv
  <2>2. /\ Loses(Ahead, 1, Ahead') /\ 1 \in 1..Len(Ahead) /\ Ahead[1] = item
        /\ Ahead \in Seq(Item)
        /\ NextConnection \in Nat \ {0}
    BY <1>1, TakenIsFirst, AheadIsSeq, NextIsNumbered DEF Loses
  <2>3. item.kind = "frame" /\ session_origin # 0 => item.connection = session_origin
    BY <1>1, <2>1, <2>2, FirstIsOfSession
  <2>4. SessionOfOneConnection'
    BY <1>1, <2>1, <2>3 DEF ProcessStatus, WithholdFrame, LogFrame, SessionOfOneConnection
  <2>5. \/ item.kind # "disconnected" /\ session_origin' = session_origin
        \/ item.kind = "frame" /\ session_origin' = item.connection
        \/ session_origin' = 0
    BY <1>1 DEF ProcessStatus, WithholdFrame, LogFrame
  <2>6. InOrder(Ahead', session_origin', NextConnection)
    BY <1>4, <1>1, <2>1, <2>2, <2>5, ShrinksInOrder
  <2> QED
    BY <1>1, <1>2, <1>4, <2>4, <2>6 DEF EndInv
<1> QED
  BY <1>5, <1>6

LEMMA NextEndInv == IInv /\ ShutdownInv /\ EndInv /\ [Next]_vars => EndInv'
<1> SUFFICES ASSUME IInv, ShutdownInv, EndInv, [Next]_vars PROVE EndInv'
  OBVIOUS
<1>1. ASSUME UNCHANGED <<connection, capture, callbacks, queue>>,
             UNCHANGED <<session_origin, logged, lost_disconnect, loop_closed>> \/ CloseLoop
      PROVE  EndInv'
  <2>1. Ahead' = Ahead /\ NextConnection' = NextConnection
    BY <1>1 DEF Ahead, NextConnection
  <2> QED
    BY <1>1, <2>1, QuietEndInv
<1>2. CASE CaptureStep /\ UNCHANGED appVars
  BY <1>2, CaptureEndInv
<1>3. CASE SimChanges /\ UNCHANGED appVars
  BY <1>1, <1>3 DEF SimChanges, line, appVars, ingest, session
<1>4. CASE RunCallback
  BY <1>4, CallbackEndInv
<1>5. CASE Process
  BY <1>5, ProcessEndInv
<1>6. CASE Sent \/ CallReturns \/ WriterEnds \/ JoinCapture \/ LoggerStopped
  BY <1>1, <1>6 DEF Sent, CallReturns, WriterEnds, JoinCapture, LoggerStopped,
                    captureVars, line, ingest, session
<1>7. CASE Shutdown \/ CloseLoop
  BY <1>1, <1>7 DEF Shutdown, CloseLoop, line, ingest, session
<1>8. CASE UNCHANGED vars
  BY <1>1, <1>8 DEF vars, captureVars, line, appVars, ingest, session
<1> QED
  BY <1>2, <1>3, <1>4, <1>5, <1>6, <1>7, <1>8 DEF Next, LoopStep

LEMMA NextShutdownInv == ShutdownInv /\ [Next]_vars => ShutdownInv'
<1> SUFFICES ASSUME ShutdownInv, [Next]_vars PROVE ShutdownInv'
  OBVIOUS
<1> USE DEF ShutdownInv
<1>1. CASE CaptureStep /\ UNCHANGED appVars
  BY <1>1 DEF CaptureStep, appVars, logVars
<1>2. CASE SimChanges /\ UNCHANGED appVars
  BY <1>2 DEF SimChanges, appVars, logVars
<1>3. CASE RunCallback
  BY <1>3 DEF RunCallback, logVars
<1>4. CASE Process
  BY <1>4 DEF Process, Running, captureVars, ProcessStatus, WithholdFrame, LogFrame, logVars,
              Log!CallClose, Log!Call
<1>5. CASE Sent \/ CallReturns \/ WriterEnds
  BY <1>5 DEF Sent, CallReturns, WriterEnds, captureVars, logVars, Log!CloseReturns,
              Log!StopPuts, Log!WriterEnds, Log!Call
<1>6. CASE Shutdown \/ JoinCapture \/ LoggerStopped \/ CloseLoop
  BY <1>6 DEF Shutdown, Running, JoinCapture, LoggerStopped, CloseLoop, captureVars, logVars,
              Log!CallStop, Log!StopReturns, Log!Call
<1>7. CASE UNCHANGED vars
  BY <1>7 DEF vars, captureVars, appVars, logVars
<1> QED
  BY <1>1, <1>2, <1>3, <1>4, <1>5, <1>6, <1>7 DEF Next, LoopStep

(* A frame is logged in a session of its own connection, for any queue     *)
(* size, unless a "disconnected" item found the queue full.                *)
THEOREM SessionsEndWithConnections == Spec => []SessionEndsWithConnection
<1>1. Init => IInv /\ ShutdownInv /\ EndInv
  BY InitIInv, InitEndInv DEF Init, CaptureInit, ShutdownInv, Log!LogInit
<1>2. IInv /\ ShutdownInv /\ EndInv /\ [Next]_vars => (IInv /\ ShutdownInv /\ EndInv)'
  BY NextIInv, NextShutdownInv, NextEndInv
<1>3. IInv /\ ShutdownInv /\ EndInv => SessionEndsWithConnection
  BY DEF EndInv, SessionEndsWithConnection
<1> QED
  BY <1>1, <1>2, <1>3, PTL DEF Spec
=============================================================================

------------------------- MODULE KunosAdapterProofs -------------------------
(***************************************************************************)
(* Proofs about KunosAdapter, for any time-outs and any delays.            *)
(***************************************************************************)
EXTENDS KunosAdapter, TLAPS

Connected == pc \notin {"closed", "failed"}

(* Once a sim that has ended gave a frame, the physics page is old news    *)
(* and the status is read as it stays; once it gave two, so is the status. *)
Spent ==
  Connected /\ ~running =>
    /\ dead_frames >= 1 =>
         ~physics_new /\ (pc \in {"clock", "physics", "check"} => seen_status = status)
    /\ dead_frames = 2 => last_status = status

IInv == dead_frames \in 0..2 /\ Spent

LEMMA InitIInv == Init => IInv
BY DEF Init, IInv, Spent, Connected

(* A frame of a sim that has ended is the first, or all it had left. *)
LEMMA ReturnFrameIInv == IInv /\ ReturnFrame => IInv'
<1> SUFFICES ASSUME IInv, ReturnFrame PROVE IInv'
  OBVIOUS
<1>1. /\ Connected /\ pc = "check" /\ pc' = "idle"
      /\ last_status' = seen_status /\ ~physics_new'
      /\ UNCHANGED <<running, status>>
  BY DEF ReturnFrame, Return, Connected, sim
<1>2. CASE running
  BY <1>1, <1>2 DEF ReturnFrame, IInv, Spent
<1>3. CASE ~running
  <2>1. dead_frames' = dead_frames + 1
    BY <1>3 DEF ReturnFrame
  <2>2. dead_frames # 2
    BY <1>1, <1>3 DEF ReturnFrame, IsNew, IInv, Spent
  <2>3. dead_frames = 1 => seen_status = status
    BY <1>1, <1>3 DEF IInv, Spent
  <2> QED
    BY <1>1, <1>3, <2>1, <2>2, <2>3 DEF IInv, Spent
<1> QED
  BY <1>2, <1>3

(* The other steps of the adapter. *)
LEMMA AdapterIInv ==
  IInv /\ (Connect \/ Close \/ ReadGraphics \/ ReadClock \/ CopyPhysics \/ CheckAgain \/ ReturnNone)
    => IInv'
<1> SUFFICES ASSUME IInv, \/ Connect \/ Close \/ ReadGraphics \/ ReadClock
                          \/ CopyPhysics \/ CheckAgain \/ ReturnNone
             PROVE  IInv'
  OBVIOUS
<1>1. CASE Connect
  BY <1>1 DEF Connect, IInv, Spent
<1>2. CASE Close
  BY <1>2 DEF Close, IInv, Spent, Connected, history
<1>3. CASE ReadGraphics
  BY <1>3 DEF ReadGraphics, IInv, Spent, Connected, sim
<1>4. CASE ReadClock
  BY <1>4 DEF ReadClock, IInv, Spent, Connected, history, sim
<1>5. CASE CopyPhysics \/ CheckAgain
  BY <1>5 DEF CopyPhysics, CheckAgain, IInv, Spent, Connected, history, sim, gfx
<1>6. CASE ReturnNone
  BY <1>6 DEF ReturnNone, Return, IInv, Spent, Connected, sim
<1> QED
  BY <1>1, <1>2, <1>3, <1>4, <1>5, <1>6

(* A sim that runs promises nothing; the count begins when it ends. *)
LEMMA SimIInv == IInv /\ SimStep => IInv'
<1> SUFFICES ASSUME IInv, SimStep PROVE IInv'
  OBVIOUS
<1>1. CASE SimEnds
  BY <1>1 DEF SimEnds, IInv, Spent
<1>2. ASSUME running', dead_frames' \in {0, dead_frames} PROVE IInv'
  BY <1>2 DEF IInv, Spent
<1>3. CASE SimStarts \/ WriteGraphicsPacket \/ WritePhysics \/ \E s \in Status : WriteStatus(s)
  BY <1>2, <1>3
  DEF SimStarts, WriteGraphicsPacket, WritePhysics, WriteStatus, adapter, history
<1> QED
  BY <1>1, <1>3 DEF SimStep

LEMMA NextIInv == IInv /\ [Next]_vars => IInv'
<1> SUFFICES ASSUME IInv, [Next]_vars PROVE IInv'
  OBVIOUS
<1>1. CASE Tick
  BY <1>1 DEF Tick, IInv, Spent, Connected, history, gfx
<1>2. CASE UNCHANGED vars
  BY <1>2 DEF vars, sim, adapter, gfx, history, IInv, Spent, Connected
<1> QED
  BY <1>1, <1>2, ReturnFrameIInv, AdapterIInv, SimIInv DEF Next, PollStep

(* However the sim ends, its pages give at most two frames more in a       *)
(* connection, so a dead sim is never reported on and on.                  *)
THEOREM DeadPagesStayQuiet == Spec => []DeadPagesGoQuiet
<1>1. Init => IInv
  BY InitIInv
<1>2. IInv /\ [Next]_vars => IInv'
  BY NextIInv
<1>3. IInv => DeadPagesGoQuiet
  BY DEF IInv, DeadPagesGoQuiet
<1> QED
  BY <1>1, <1>2, <1>3, PTL DEF Spec

-----------------------------------------------------------------------------
(* Times, as the proof below needs them. *)
LEMMA TypeInit == Init => TypeOK
BY KunosAssumption DEF Init, TypeOK, Status

LEMMA TypeNext == TypeOK /\ [Next]_vars => TypeOK'
<1> SUFFICES ASSUME TypeOK, [Next]_vars PROVE TypeOK'
  OBVIOUS
<1> USE KunosAssumption
<1>1. CASE Connect
  BY <1>1 DEF Connect, TypeOK, sim, gfx
<1>2. CASE Close
  BY <1>2 DEF Close, TypeOK, Status, gfx
<1>3. CASE ReadGraphics
  BY <1>3 DEF ReadGraphics, TypeOK, sim
<1>4. CASE ReadClock
  BY <1>4 DEF ReadClock, TypeOK, sim
<1>5. CASE CopyPhysics \/ CheckAgain
  BY <1>5 DEF CopyPhysics, CheckAgain, TypeOK, sim, gfx
<1>6. CASE ReturnFrame
  BY <1>6 DEF ReturnFrame, Return, TypeOK, Status, sim
<1>7. CASE ReturnNone
  BY <1>7 DEF ReturnNone, Return, TypeOK, Status, sim
<1>8. CASE SimStep
  BY <1>8 DEF SimStep, SimStarts, SimEnds, WriteStatus, WriteGraphicsPacket, WritePhysics,
              TypeOK, Status, adapter, gfx
<1>9. CASE Tick
  <2>1. silence' \in 0..MaxSilence /\ delay' \in 0..MaxDelay
    BY <1>9 DEF Tick, TypeOK
  <2>2. age' \in 0..stale_timeout_s + 1
    BY <1>9 DEF Tick, TypeOK, Capped
  <2> QED
    BY <1>9, <2>1, <2>2 DEF Tick, TypeOK, gfx
<1>10. CASE UNCHANGED vars
  BY <1>10 DEF vars, sim, adapter, gfx, TypeOK
<1> QED
  BY <1>1, <1>2, <1>3, <1>4, <1>5, <1>6, <1>7, <1>8, <1>9, <1>10 DEF Next, PollStep

(* While the sim has been alive since its page was last new, the age of    *)
(* that news is bounded by the sim's silence, until the page is new again  *)
(* - and, where that happens behind the back of a poll that has read the   *)
(* page already, by the longest silence and the delay of that poll.        *)
AliveInTime ==
  ~was_down =>
    /\ running
    /\ ~graphics_new /\ ~(pc = "clock" /\ seen_new) => age <= silence
    /\ pc = "clock" /\ ~seen_new => age <= MaxSilence + delay

LEMMA AliveInit == Init => AliveInTime
BY DEF Init, AliveInTime

LEMMA AliveNext == TypeOK /\ TypeOK' /\ AliveInTime /\ [Next]_vars => AliveInTime'
<1> SUFFICES ASSUME TypeOK, TypeOK', AliveInTime, [Next]_vars PROVE AliveInTime'
  OBVIOUS
<1>t. /\ silence \in Nat /\ silence <= MaxSilence /\ silence' \in Nat
      /\ age \in Nat /\ delay \in Nat /\ age' \in Nat
      /\ MaxSilence \in Nat /\ MaxDelay \in Nat /\ stale_timeout_s \in Nat
  BY KunosAssumption DEF TypeOK
<1>1. CASE Connect
  BY <1>1 DEF Connect, AliveInTime, sim
<1>2. CASE Close
  BY <1>2 DEF Close, AliveInTime, gfx, history
<1>3. CASE CopyPhysics \/ CheckAgain
  BY <1>3 DEF CopyPhysics, CheckAgain, AliveInTime, sim, history
<1>4. CASE ReadGraphics
  <2>1. /\ pc = "idle" /\ pc' = "clock" /\ delay' = delay
        /\ seen_new' = graphics_new /\ ~graphics_new'
        /\ was_down' = (was_down /\ ~(running /\ graphics_new))
        /\ UNCHANGED <<running, silence, age>>
    BY <1>4 DEF ReadGraphics, sim
  <2>2. CASE graphics_new
    BY <2>1, <2>2 DEF AliveInTime
  <2>3. CASE ~graphics_new
    <3>1. ASSUME ~was_down'
          PROVE  running' /\ age' <= silence' /\ age' <= MaxSilence + delay'
      <4>1. ~was_down
        BY <2>1, <2>3, <3>1, Zenon
      <4>2. running /\ age <= silence
        BY <2>1, <2>3, <4>1 DEF AliveInTime
      <4> QED
        BY <2>1, <4>2, <1>t
    <3> QED
      BY <3>1 DEF AliveInTime
  <2> QED
    BY <2>2, <2>3
<1>5. CASE ReadClock
  BY <1>5, <1>t DEF ReadClock, AliveInTime, sim, history
<1>6. CASE ReturnFrame
  BY <1>6 DEF ReturnFrame, Return, AliveInTime, sim
<1>7. CASE ReturnNone
  BY <1>7 DEF ReturnNone, Return, AliveInTime, sim
<1>8. CASE SimStarts
  BY <1>8 DEF SimStarts, AliveInTime
<1>9. CASE SimEnds
  BY <1>9 DEF SimEnds, AliveInTime
<1>10. CASE WritePhysics \/ \E s \in Status : WriteStatus(s)
  BY <1>10 DEF WritePhysics, WriteStatus, AliveInTime, adapter, gfx, history
<1>11. CASE WriteGraphicsPacket
  BY <1>11 DEF WriteGraphicsPacket, AliveInTime, adapter, gfx, history
<1>12. CASE Tick
  <2>1. age' <= age + 1
    BY <1>12, <1>t DEF Tick, Capped
  <2> QED
    BY <1>12, <1>t, <2>1 DEF Tick, AliveInTime, gfx, history
<1>13. CASE UNCHANGED vars
  BY <1>13 DEF vars, sim, adapter, gfx, history, AliveInTime
<1> QED
  BY <1>1, <1>2, <1>3, <1>4, <1>5, <1>6, <1>7, <1>8, <1>9, <1>10, <1>11, <1>12, <1>13
  DEF Next, PollStep, SimStep

LEMMA NoFalseAlarmStep ==
  TypeOK /\ AliveInTime /\ [Next]_vars => [pc # "failed" /\ pc' = "failed" => was_down]_vars
<1> SUFFICES ASSUME TypeOK, AliveInTime, [Next]_vars, pc # "failed", pc' = "failed"
             PROVE  was_down
  BY DEF vars
<1>1. ReadClock
  BY DEF Next, PollStep, SimStep, Connect, Close, ReadGraphics, ReadClock, CopyPhysics, CheckAgain,
         ReturnFrame, ReturnNone, Return, SimStarts, SimEnds, WriteStatus, WriteGraphicsPacket,
         WritePhysics, Tick, adapter, vars
<1>2. pc = "clock" /\ ~seen_new /\ age > stale_timeout_s
  BY <1>1 DEF ReadClock, IsStale
<1>3. age > MaxSilence + delay
  BY <1>2, KunosAssumption DEF TypeOK
<1> QED
  BY <1>2, <1>3, KunosAssumption DEF AliveInTime, TypeOK

(* poll() does not give up on a sim that was alive since its page was last *)
(* new, for any time-out that leaves room for the sim's silence and the    *)
(* delay between the reads of page and clock.                              *)
THEOREM LiveSimIsKept == Spec => NoFalseAlarm
<1>1. Init => TypeOK /\ AliveInTime
  BY TypeInit, AliveInit
<1>2. TypeOK /\ AliveInTime /\ [Next]_vars => TypeOK' /\ AliveInTime'
  BY TypeNext, AliveNext
<1>3. TypeOK /\ AliveInTime /\ [Next]_vars
        => [pc # "failed" /\ pc' = "failed" => was_down]_vars
  BY NoFalseAlarmStep
<1> QED
  BY <1>1, <1>2, <1>3, PTL DEF Spec, NoFalseAlarm

-----------------------------------------------------------------------------
(* If packetId is written last, a torn copy has the packetId of before a   *)
(* write that goes on, or of before one that has ended.                    *)
TornInPassing ==
  /\ id_first \in BOOLEAN /\ writing \in BOOLEAN /\ torn \in BOOLEAN /\ moved \in BOOLEAN
  /\ pc = "check" /\ torn /\ ~id_first => writing \/ moved

LEMMA TornInit == Init => TornInPassing
BY DEF Init, TornInPassing

LEMMA TornNext == TornInPassing /\ [Next]_vars => TornInPassing'
<1> SUFFICES ASSUME TornInPassing, [Next]_vars PROVE TornInPassing'
  OBVIOUS
<1> USE DEF TornInPassing
<1>1. CASE Connect \/ Close \/ ReadGraphics \/ ReadClock
  BY <1>1 DEF Connect, Close, ReadGraphics, ReadClock, sim, rigid, phys
<1>2. CASE CopyPhysics
  BY <1>2 DEF CopyPhysics, sim, rigid
<1>3. CASE CheckAgain
  <2>1. moved /\ torn' = writing /\ UNCHANGED <<id_first, writing>> /\ moved' = FALSE
    BY <1>3 DEF CheckAgain, Done, KeptIsTorn, sim, rigid
  <2> QED
    BY <2>1
<1>4. CASE ReturnFrame \/ ReturnNone
  BY <1>4 DEF ReturnFrame, ReturnNone, Return, sim, rigid
<1>5. CASE WritePhysics
  <2>1. writing' = ~writing /\ UNCHANGED <<id_first, torn, pc>>
    BY <1>5 DEF WritePhysics, rigid
  <2>2. CASE id_first
    BY <1>5, <2>1, <2>2 DEF WritePhysics
  <2>3. CASE ~id_first /\ writing'
    BY <1>5, <2>1, <2>3 DEF WritePhysics
  <2>4. CASE ~id_first /\ ~writing'
    <3>1. moved' = (pc = "check")
      BY <1>5, <2>1, <2>4 DEF WritePhysics
    <3> QED
      BY <2>1, <2>4, <3>1
  <2> QED
    BY <2>2, <2>3, <2>4
<1>6. CASE SimStarts \/ SimEnds \/ WriteGraphicsPacket \/ Tick \/ \E s \in Status : WriteStatus(s)
  BY <1>6 DEF SimStarts, SimEnds, WriteGraphicsPacket, Tick, WriteStatus, adapter, rigid, phys
<1>7. CASE UNCHANGED vars
  BY <1>7 DEF vars, sim, rigid, adapter, phys
<1> QED
  BY <1>1, <1>2, <1>3, <1>4, <1>5, <1>6, <1>7 DEF Next, PollStep, SimStep

(* "Tear-resistant": behind a sim that writes packetId last, a frame is    *)
(* torn only while the write that tears it goes on, however often the page *)
(* is written during the copies.                                           *)
THEOREM TornFramesPass == Spec => TornOnlyInPassing
<1>1. TornInPassing => [ReturnFrame /\ KeptIsTorn => writing \/ id_first]_vars
  <2> SUFFICES ASSUME TornInPassing, ReturnFrame, KeptIsTorn PROVE writing \/ id_first
    OBVIOUS
  <2>1. pc = "check"
    BY DEF ReturnFrame, Return
  <2>2. CASE moved
    BY <2>2 DEF KeptIsTorn
  <2>3. CASE ~moved
    BY <2>1, <2>3 DEF KeptIsTorn, TornInPassing
  <2> QED
    BY <2>2, <2>3
<1> QED
  BY <1>1, TornInit, TornNext, PTL DEF Spec, TornOnlyInPassing
=============================================================================

----------------------------- MODULE KunosAdapter -----------------------------
(***************************************************************************)
(* The adapter of the Kunos sims (telemetry_bridge/adapters/               *)
(* kunos_common.py): it polls the memory the sim shares, reports a frame   *)
(* when the physics page or the status is new, and gives up when the       *)
(* graphics page has been still for too long.                              *)
(*                                                                         *)
(* A packetId is only compared with the one seen before, so a page carries *)
(* whether it was written since the adapter last looked (new).  The sim is *)
(* external.  It writes the fields of its pages one by one, at any moment; *)
(* while paused it leaves the physics page alone, and while it runs it     *)
(* never leaves the graphics page alone for longer than MaxSilence.        *)
(*                                                                         *)
(* A copy of a page is one step.  read_struct copies until two copies have *)
(* the same packetId: the graphics page is used field by field, so that    *)
(* only when the copy kept was made matters; a physics page of which only  *)
(* the packetId or only the rest has been written yet is torn.             *)
(***************************************************************************)
EXTENDS Integers

CONSTANTS
  stale_timeout_s,  (* in some unit of time, as the next two                *)
  MaxSilence,       (* between two writes of the graphics page by a live sim*)
  MaxDelay,         (* between the read of that page and that of the clock  *)
  None              (* "not set"                                            *)

Status == {"OFF", "REPLAY", "LIVE", "PAUSE"}

ASSUME KunosAssumption ==
  /\ stale_timeout_s \in Nat /\ MaxSilence \in Nat \ {0} /\ MaxDelay \in Nat
  /\ MaxSilence + MaxDelay <= stale_timeout_s
  /\ None \notin Status

(* How many further copies read_struct makes. *)
MaxChecks == 3

VARIABLES
  running,        (* the sim is                                             *)
  held_open,      (* another program keeps the mapping alive; rigid         *)
  id_first,       (* the sim writes packetId first, not last; rigid         *)
  blank,          (* both packetIds are zero                                *)
  status,         (* on the graphics page                                   *)
  graphics_new, physics_new,
  writing,        (* the physics page is half written                       *)
  silence,        (* since the live sim wrote the graphics page             *)
  pc,             (* closed, idle, the next step of poll(), or failed       *)
  last_status,    (* of the latest frame of this connection, or None        *)
  seen_status, seen_new,  (* gfx, the snapshot of the graphics page         *)
  torn,           (* phys, the snapshot of the physics page, is             *)
  moved,          (* its packetId is no longer that of the page             *)
  checks,         (* how many copies it was compared with                   *)
  age,            (* now - _last_gfx_change, counted up to stale            *)
  delay,          (* since the graphics page was read                       *)
  dead_frames,    (* history: frames of this connection since the sim ended *)
  was_down        (* history: the sim was not running at some time since    *)
                  (* the graphics page was last seen to be new              *)

rigid == <<held_open, id_first>>
sim == <<running, rigid, blank, status, writing, silence>>
gfx == <<seen_status, seen_new>>
phys == <<torn, moved, checks>>
history == <<dead_frames, was_down>>
adapter == <<pc, last_status, gfx, phys, age, delay, history>>
vars == <<sim, graphics_new, physics_new, adapter>>

(* The mapping goes when the sim has ended and nobody else holds it. *)
Unmapped == ~running /\ ~held_open

-----------------------------------------------------------------------------
(* connect(), unless the pages are empty: then it raises and lets go.  It  *)
(* sets _last_packet and _last_gfx_packet to None, so both pages are new.  *)
Connect ==
  /\ pc = "closed" /\ ~(blank /\ status = "OFF")
  /\ pc' = "idle"
  /\ graphics_new' = TRUE /\ physics_new' = TRUE
  /\ last_status' = None
  /\ age' = 0 /\ dead_frames' = 0
  /\ UNCHANGED <<sim, gfx, phys, delay, was_down>>

(* close(), when the bridge stops or when poll() has raised. *)
Close ==
  /\ pc \in {"idle", "failed"}
  /\ pc' = "closed"
  /\ blank' = (blank \/ Unmapped)
  /\ status' = IF Unmapped THEN "OFF" ELSE status
  /\ UNCHANGED <<running, rigid, writing, silence, graphics_new, physics_new, last_status,
                 gfx, phys, age, delay, history>>

(* Where poll() begins, and where its loop goes round.                     *)
ReadGraphics ==
  /\ pc = "idle"
  /\ pc' = "clock"
  /\ seen_status' = status /\ seen_new' = graphics_new
  /\ graphics_new' = FALSE
  /\ was_down' = (was_down /\ ~(running /\ graphics_new))
  /\ UNCHANGED <<sim, physics_new, last_status, phys, age, delay, dead_frames>>

(* time.monotonic(), read after the page. *)
IsStaleInTime == age >= stale_timeout_s
IsStale == age > stale_timeout_s

ReadClockAnew ==
  /\ pc = "clock"
  /\ age' = 0 /\ pc' = "physics"
  /\ seen_new' = FALSE /\ delay' = 0
  /\ UNCHANGED <<sim, graphics_new, physics_new, last_status, seen_status, phys, history>>
ReadClock ==
  /\ pc = "clock"
  /\ \/ seen_new /\ age' = 0 /\ pc' = "physics"
     \/ ~seen_new /\ ~IsStale /\ pc' = "physics" /\ UNCHANGED age
     \/ ~seen_new /\ IsStale /\ pc' = "failed" /\ UNCHANGED age
  /\ seen_new' = FALSE /\ delay' = 0
  /\ UNCHANGED <<sim, graphics_new, physics_new, last_status, seen_status, phys, history>>

-----------------------------------------------------------------------------
(* read_struct on the physics page: the first copy ...                     *)
CopyPhysics ==
  /\ pc = "physics"
  /\ pc' = "check"
  /\ torn' = writing /\ moved' = FALSE /\ checks' = 0
  /\ UNCHANGED <<sim, graphics_new, physics_new, last_status, gfx, age, delay, history>>

(* ... is compared with a further one, and replaced by it if that has      *)
(* another packetId.                                                       *)
KeptIsFirst == torn
KeptIsTorn == IF moved THEN writing ELSE torn

Done == ~moved \/ checks + 1 = MaxChecks

CheckAgain ==
  /\ pc = "check" /\ ~Done
  /\ torn' = KeptIsTorn /\ moved' = FALSE /\ checks' = checks + 1
  /\ UNCHANGED <<sim, graphics_new, physics_new, pc, last_status, gfx, age, delay, history>>

IsNewByPacket == physics_new
IsNew == physics_new \/ seen_status # last_status

(* The snapshot is done.  A frame is returned if there is news, else poll()*)
(* returns None or, before its deadline, goes round.  gfx and phys are     *)
(* forgotten.                                                              *)
Return ==
  /\ pc = "check" /\ Done
  /\ pc' = "idle"
  /\ seen_status' = "OFF"
  /\ torn' = FALSE /\ moved' = FALSE /\ checks' = 0
  /\ UNCHANGED <<sim, graphics_new, seen_new, age, delay, was_down>>

ReturnFrameForgetting ==
  /\ Return /\ IsNew
  /\ last_status' = seen_status
  /\ dead_frames' = IF running THEN dead_frames ELSE dead_frames + 1
  /\ UNCHANGED physics_new
ReturnFrame ==
  /\ Return /\ IsNew
  /\ last_status' = seen_status
  /\ dead_frames' = IF running THEN dead_frames ELSE dead_frames + 1
  /\ physics_new' = FALSE

ReturnNone ==
  /\ Return /\ ~IsNew
  /\ UNCHANGED <<physics_new, last_status, dead_frames>>

-----------------------------------------------------------------------------
(* The sim, which ends with its page written whole, and the clock. *)
SimStarts ==
  /\ ~running
  /\ running' = TRUE
  /\ silence' = 0 /\ dead_frames' = 0
  /\ UNCHANGED <<rigid, blank, status, writing, graphics_new, physics_new, pc, last_status,
                 gfx, phys, age, delay, was_down>>

SimEnds ==
  /\ running /\ ~writing
  /\ running' = FALSE
  /\ silence' = 0
  /\ LET unmapped == pc = "closed" /\ ~held_open IN
       /\ blank' = (blank \/ unmapped)
       /\ status' = IF unmapped THEN "OFF" ELSE status
  /\ was_down' = TRUE /\ dead_frames' = 0
  /\ UNCHANGED <<rigid, writing, graphics_new, physics_new, pc, last_status, gfx, phys,
                 age, delay>>

WriteStatus(s) ==
  /\ running
  /\ status' = s
  /\ UNCHANGED <<running, rigid, blank, writing, silence, graphics_new, physics_new, adapter>>

WriteGraphicsPacket ==
  /\ running
  /\ graphics_new' = TRUE
  /\ silence' = 0
  /\ blank' = FALSE
  /\ UNCHANGED <<running, rigid, status, writing, physics_new, adapter>>

(* Half of the physics page: its packetId, or the rest.                    *)
WritePhysics ==
  /\ running /\ (status # "PAUSE" \/ writing)
  /\ writing' = ~writing
  /\ IF id_first = writing'
     THEN physics_new' = TRUE /\ blank' = FALSE /\ moved' = (pc = "check")
     ELSE UNCHANGED <<physics_new, blank, moved>>
  /\ UNCHANGED <<running, rigid, status, silence, graphics_new, pc, last_status, gfx, torn,
                 checks, age, delay, history>>

Capped(t, most) == IF t < most THEN t + 1 ELSE t

Tick ==
  /\ running => silence < MaxSilence
  /\ pc = "clock" => delay < MaxDelay
  /\ silence' = IF running THEN silence + 1 ELSE silence
  /\ delay' = IF pc = "clock" THEN delay + 1 ELSE delay
  /\ age' = Capped(age, stale_timeout_s + 1)
  /\ UNCHANGED <<running, rigid, blank, status, writing, graphics_new, physics_new, pc,
                 last_status, gfx, phys, history>>

-----------------------------------------------------------------------------
Init ==
  /\ running = FALSE /\ held_open \in BOOLEAN /\ id_first \in BOOLEAN
  /\ blank = TRUE /\ status = "OFF" /\ writing = FALSE /\ silence = 0
  /\ graphics_new = FALSE /\ physics_new = FALSE
  /\ pc = "closed" /\ last_status = None
  /\ seen_status = "OFF" /\ seen_new = FALSE
  /\ torn = FALSE /\ moved = FALSE /\ checks = 0
  /\ age = 0 /\ delay = 0
  /\ dead_frames = 0 /\ was_down = TRUE

PollStep ==
  \/ ReadGraphics \/ ReadClock
  \/ CopyPhysics \/ CheckAgain \/ ReturnFrame \/ ReturnNone
SimStep ==
  \/ SimStarts \/ SimEnds \/ WriteGraphicsPacket \/ WritePhysics
  \/ \E s \in Status : WriteStatus(s)

Next == Connect \/ Close \/ PollStep \/ SimStep \/ Tick

(* The capture thread polls as long as it is connected, and time passes. *)
Fairness == WF_vars(PollStep) /\ WF_vars(Tick)

Spec == Init /\ [][Next]_vars /\ Fairness

-----------------------------------------------------------------------------
(***************************************************************************)
(* Properties.                                                             *)
(***************************************************************************)

(* The clocks keep to their bounds: a live sim is never silent for longer  *)
(* than MaxSilence, nor the reads of page and clock further apart than     *)
(* MaxDelay.                                                               *)
TypeOK ==
  /\ status \in Status /\ seen_status \in Status /\ last_status \in Status \cup {None}
  /\ pc \in {"closed", "idle", "clock", "physics", "check", "failed"}
  /\ silence \in 0..MaxSilence /\ delay \in 0..MaxDelay
  /\ age \in 0..stale_timeout_s + 1

(* "The sim is gone": poll() never gives up on a sim that was alive since  *)
(* its page was last new, though the clock is read later than the page,    *)
(* and the thread may be held up for any time elsewhere.                   *)
NoFalseAlarm == [][pc # "failed" /\ pc' = "failed" => was_down]_vars

(* A sim that has ended is noticed, unless it starts again in time. *)
DeadSimNoticed == ~running ~> running \/ pc \in {"failed", "closed"}

(* "We must still surface the pause transition": once a status stays, the  *)
(* latest frame has it, though the physics page never changes again.       *)
StatusSurfaces ==
  \A s \in Status :
     <>[](status = s /\ pc \notin {"closed", "failed"}) => <>[](last_status = s)

(* The pages of a sim that has ended give at most two frames more: one for *)
(* what it wrote last, and one if it ended between the reads of two pages. *)
DeadPagesGoQuiet == dead_frames <= 2

(* "Tear-resistant": a frame is torn only if the very write is still going *)
(* on, or if the sim writes packetId before the rest: then two copies may  *)
(* have the same packetId although the rest was written in between.        *)
TornOnlyInPassing == [][ReturnFrame /\ KeptIsTorn => writing \/ id_first]_vars
=============================================================================

------------------------------ MODULE RateGate ------------------------------
(***************************************************************************)
(* The rate limiter of the live stream, telemetry_bridge/throttle.py.      *)
(*                                                                         *)
(* The gate sees the wall-clock time stamp of each tagged frame and whether*)
(* it carries events.  Nothing is assumed of the time stamps: frames come  *)
(* at any rate, and the wall clock may be set back between two of them.    *)
(***************************************************************************)
EXTENDS Integers, FiniteSets

CONSTANTS
  interval,  (* 1 / rate_hz, in clock ticks                                 *)
  Times,     (* the time stamps                                             *)
  None       (* Python's None                                               *)

ASSUME GateAssumption ==
  /\ interval \in Nat \ {0}
  /\ Times \subseteq Int
  /\ None \notin Int

VARIABLES
  last_sent,  (* _last_sent                                                 *)
  latest,     (* history: the time stamp of the latest call                 *)
  anchor,     (* history: that of the latest call that set the gate anew    *)
  slots,      (* history: the intervals since then in which a frame came    *)
  sent,       (* history: how many frames were let through since then       *)
  set_back    (* history: the clock was set back since then                 *)

vars == <<last_sent, latest, anchor, slots, sent, set_back>>

(* The interval, counted from the anchor, in which a time stamp falls. *)
Slot(t) == (t - anchor) \div interval

DueLate(t) == t - last_sent > interval
Due(t) == t - last_sent >= interval

CreditToNow(t) == t
CreditOne(t) == last_sent + interval
(* Whole intervals are credited, not the time that has passed. *)
Credit(t) == last_sent + interval * ((t - last_sent) \div interval)

(* The gate starts counting at t: an event, or the first frame. *)
Anchor(t) ==
  /\ last_sent' = t
  /\ anchor' = t
  /\ slots' = {0}
  /\ sent' = 1
  /\ set_back' = FALSE

AllowEvent(t) == Anchor(t)

AllowFirst(t) == last_sent = None /\ Anchor(t)

Observe(t) ==
  /\ slots' = slots \cup {Slot(t)}
  /\ set_back' = (set_back \/ t < latest)
  /\ UNCHANGED anchor

AllowDue(t) ==
  /\ last_sent # None
  /\ Due(t)
  /\ last_sent' = Credit(t)
  /\ sent' = sent + 1
  /\ Observe(t)

Refuse(t) ==
  /\ last_sent # None
  /\ ~Due(t)
  /\ UNCHANGED <<last_sent, sent>>
  /\ Observe(t)

(* allow(), with its three ways to return True. *)
LetThrough(t, has_events) ==
  \/ has_events /\ AllowEvent(t)
  \/ ~has_events /\ (AllowFirst(t) \/ AllowDue(t))

Allow(t) ==
  /\ (\E has_events \in BOOLEAN : LetThrough(t, has_events)) \/ Refuse(t)
  /\ latest' = t

(* reset(): the sim disconnected *)
Reset ==
  /\ last_sent' = None
  /\ UNCHANGED <<latest, anchor, slots, sent, set_back>>

Init ==
  /\ last_sent = None
  /\ latest = 0 /\ anchor = 0
  /\ slots = {} /\ sent = 0
  /\ set_back = FALSE

Next == (\E t \in Times : Allow(t)) \/ Reset

Spec == Init /\ [][Next]_vars

-----------------------------------------------------------------------------
(* Every variable has its type. *)
TypeOK ==
  /\ last_sent \in Int \cup {None}
  /\ latest \in Times \cup {0} /\ anchor \in Times \cup {0}
  /\ slots \subseteq Int
  /\ sent \in Nat
  /\ set_back \in BOOLEAN

(* The stream has the target rate whatever the rate of the frames: of each *)
(* interval since the anchor in which frames come, exactly one is sent, so *)
(* 120 Hz frames through a 60 Hz gate neither overshoot nor undershoot.  A *)
(* clock set back can only make it fewer.                                  *)
OnePerSlot ==
  /\ sent <= Cardinality(slots)
  /\ set_back \/ sent = Cardinality(slots)

(* The gate is never more than an interval behind the frames, and is ahead *)
(* of them, refusing them all, only after the clock was set back.          *)
CaughtUp ==
  last_sent # None => /\ latest - last_sent < interval
                      /\ set_back \/ last_sent <= latest
=============================================================================

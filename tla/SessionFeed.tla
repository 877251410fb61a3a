----------------------------- MODULE SessionFeed -----------------------------
(***************************************************************************)
(* What the session tracker promises to the history log and to the live    *)
(* stream, with nothing of how it gets there: no tick counters, no replay, *)
(* no pauses.  A feed is a series of sessions, numbered as they begin.     *)
(* Each result is one tagged frame or nothing.                             *)
(***************************************************************************)
EXTENDS Integers

CONSTANTS
  Frame,  (* the frames an adapter can deliver; each has a lap              *)
  Event,  (* the names of the lifecycle events                              *)
  None    (* the result that stands for "no frame is passed on"             *)

VARIABLES
  current,  (* the number of the latest session, 0 before the first         *)
  open,     (* whether that session can still get frames                    *)
  lap,      (* the lap its latest frame was tagged with                     *)
  out       (* the latest result                                            *)

feedVars == <<current, open, lap, out>>

TaggedFrame ==
  [frame: Frame, session_id: Nat \ {0}, lap_id: Int, events: SUBSET Event]

FeedInit ==
  /\ current = 0
  /\ open = FALSE
  /\ lap = 0
  /\ out = None

(* Nothing is passed on.  The session may end here, unannounced. *)
Withhold ==
  /\ out' = None
  /\ open' \in {open, FALSE}
  /\ UNCHANGED <<current, lap>>

(* The first frame of a new session: it announces the session, and the end *)
(* of the one before if that was still open.  Lap ids start at the sim's.  *)
Begin(t) ==
  /\ t.session_id = current + 1
  /\ "session_start" \in t.events
  /\ "session_end" \in t.events <=> open
  /\ "lap_complete" \notin t.events
  /\ t.lap_id = t.frame.lap

(* A further frame of the open session: its lap id never goes back, and a  *)
(* lap is announced exactly when the lap id advances.                      *)
Continue(t) ==
  /\ open
  /\ t.session_id = current
  /\ {"session_start", "session_end"} \cap t.events = {}
  /\ t.lap_id >= lap
  /\ "lap_complete" \in t.events <=> t.lap_id > lap

Pass ==
  /\ out' \in TaggedFrame
  /\ Begin(out') \/ Continue(out')
  /\ current' = out'.session_id
  /\ lap' = out'.lap_id
  /\ open' = TRUE

FeedNext == Withhold \/ Pass

FeedSpec == FeedInit /\ [][FeedNext]_feedVars
=============================================================================

---------------------------- MODULE MCKunosAdapter ----------------------------
(* A small instance of KunosAdapter for TLC: a live sim writes the graphics *)
(* page in each unit of time, and the page may be a unit older than the     *)
(* clock reading it is compared with.                                       *)
EXTENDS KunosAdapter
=============================================================================

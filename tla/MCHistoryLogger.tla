--------------------------- MODULE MCHistoryLogger ---------------------------
(* A small instance of HistoryLogger for TLC.                              *)
EXTENDS HistoryLogger
=============================================================================

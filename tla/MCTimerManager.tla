--------------------------- MODULE MCTimerManager ---------------------------
(* Instances of TimerManager for TLC.                                      *)
EXTENDS TimerManager

MCDelays == {1, 2}
=============================================================================

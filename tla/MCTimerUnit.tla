----------------------------- MODULE MCTimerUnit -----------------------------
(* A small instance of TimerUnit for TLC.                                    *)
EXTENDS TimerUnit

MCPermPayloads == {"folder", "nothing", "script"}

MCPackagePayloads == {"command", "script"}
=============================================================================

---------------------------- MODULE MCUpdateLock ----------------------------
(***************************************************************************)
(* Small instances of UpdateLock: four runs of the script, so that one     *)
(* that hangs, one that overtakes it and two that find the lock deleted    *)
(* can meet, and a lock time of two ticks, so that a lock can be new, old  *)
(* and expired.                                                            *)
(***************************************************************************)
EXTENDS UpdateLock, TLC
=============================================================================

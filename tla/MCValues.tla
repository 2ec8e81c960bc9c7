------------------------------ MODULE MCValues ------------------------------
(***************************************************************************)
(* Small instances of Values.  Two values make containers in containers,   *)
(* circles and memory that is used again; liveness is checked, so symmetry *)
(* is not used.                                                            *)
(***************************************************************************)
EXTENDS Values
=============================================================================

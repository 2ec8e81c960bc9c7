---------------------------- MODULE MCAbyssServer ----------------------------
(***************************************************************************)
(* Small instances of AbyssServer.  Two clients and room for one           *)
(* connection make the server full while a client waits; liveness is       *)
(* checked, so symmetry is not used.                                       *)
(***************************************************************************)
EXTENDS AbyssServer
=============================================================================

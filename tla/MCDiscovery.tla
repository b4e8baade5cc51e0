---------------------------- MODULE MCDiscovery ----------------------------
(***************************************************************************)
(* Discovery on small instances.                                           *)
(***************************************************************************)
EXTENDS Discovery
=============================================================================

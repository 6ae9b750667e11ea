---------------------------- MODULE MCRhinoScripts ----------------------------
(***************************************************************************)
(* A runner that journals a dispatch, sends the run and dies, while another *)
(* process judges the run by what it read before.                          *)
(***************************************************************************)
EXTENDS RhinoScripts
=============================================================================

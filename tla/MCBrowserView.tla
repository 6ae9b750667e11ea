---------------------------- MODULE MCBrowserView ----------------------------
(***************************************************************************)
(* One tab that selects another thread while it is disconnected.           *)
(***************************************************************************)
EXTENDS BrowserConnection
=============================================================================

-------------------------- MODULE MCBrowserSession --------------------------
(* One browser and its conversation on a small instance. *)
EXTENDS BrowserSession
=============================================================================

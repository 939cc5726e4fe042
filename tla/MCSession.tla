-------------------------------- MODULE MCSession --------------------------------
(* A session with one lost connection and one reconnection that fails. *)
EXTENDS Session
=============================================================================

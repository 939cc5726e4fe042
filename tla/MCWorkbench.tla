----------------------------- MODULE MCWorkbench -----------------------------
(* The full-screen program with three sessions. *)
EXTENDS Workbench
=============================================================================

------------------------------- MODULE MCWizard -------------------------------
(* A host and a guest of the interactive program. *)
EXTENDS Wizard
=============================================================================

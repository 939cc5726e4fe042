--------------------------------- MODULE MCCli ---------------------------------
(* The command-line peers with a pool of two or three connections. *)
EXTENDS Cli
=============================================================================

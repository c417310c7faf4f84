---------------------------- MODULE MCRabbitClient ----------------------------
(***************************************************************************)
(* RabbitClient for TLC.                                                   *)
(***************************************************************************)
EXTENDS RabbitClient
===============================================================================

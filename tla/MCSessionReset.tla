---------------------------- MODULE MCSessionReset ---------------------------
(* SessionReset with as many session IDs as can be referred to at once. *)
EXTENDS MCSessionLife, SessionReset
===============================================================================

---------------------------- MODULE MCSessionLife ----------------------------
(* SessionLife with as many session IDs as can be referred to at once. *)
EXTENDS SessionLife

CONSTANTS s1, s2, s3, s4

MCSessions == {s1, s2, s3, s4}
===============================================================================

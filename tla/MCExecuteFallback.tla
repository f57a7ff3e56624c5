-------------------------- MODULE MCExecuteFallback --------------------------
(* ExecuteFallback with two workers, two keys and four credentials, two of them
   full logins of different length. *)
EXTENDS ExecuteFallback

CONSTANTS wA, wB, i1, i2, i3, i4

MCWorkers == {wA, wB}
MCCreds == <<"login", "unusable", "token", "login">>
MCSizeOf == [n \in 1 .. 6 |-> IF n = 3 THEN 2 ELSE 1]
MCInodes == {i1, i2, i3, i4}
===============================================================================

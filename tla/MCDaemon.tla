------------------------------ MODULE MCDaemon ------------------------------
(* Daemon for TLC. *)
EXTENDS Daemon, MCAlgorithms

Limit(c, u, e) == [commands |-> c, updates |-> u, ends |-> e]

\* Two commands about the configuration at once and the end of the process; one
\* of them and an update; only updates and ends.
MCLimits == {Limit(2, 0, 1), Limit(1, 1, 1), Limit(0, 2, 2)}
=============================================================================

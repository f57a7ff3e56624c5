------------------------------ MODULE Heartbeat ------------------------------
(***************************************************************************)
(* The quiet windows of the heartbeat (internal/scheduler/heartbeat.go):   *)
(* at a tick the prompt is only submitted when no window holds the local   *)
(* time.  Times are minutes since midnight; of the text of a time the hour *)
(* and the minute are kept, or that it has none.                           *)
(***************************************************************************)
EXTENDS Integers

CONSTANT Unreadable    \* a text that is not of the form "15:04"

Day     == 24 * 60
Minutes == 0 .. Day - 1
Clock   == [hour : 0 .. 23, minute : 0 .. 59]

ASSUME UnreadableAssumption == Unreadable \notin Clock

TimeOfDay(t) == t.hour * 60 + t.minute

\* time.Parse refuses "24:00" and "12:60" as well as what is no time.
ParseTimeOfDay(text) == IF text \in Clock THEN TimeOfDay(text) ELSE 0

InWindow(current, start, end) ==
    IF start <= end THEN current >= start /\ current < end
                    ELSE current >= start \/ current < end

IsQuietTime(t, windows) ==
    \E w \in windows :
        InWindow(TimeOfDay(t), ParseTimeOfDay(w.start), ParseTimeOfDay(w.end))

-----------------------------------------------------------------------------
(* The reference: on the circle of the day the window is the arc that      *)
(* starts at start and goes on to end, clockwise, without end.             *)

Ahead(from, to) == (to - from) % Day
OnArc(current, start, end) == Ahead(start, current) < Ahead(start, end)

=============================================================================

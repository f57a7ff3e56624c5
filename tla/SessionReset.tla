----------------------------- MODULE SessionReset -----------------------------
(***************************************************************************)
(* SessionLife with history variables for what a summary promises: the end *)
(* of maybeSummarizeSession in internal/bot/dispatcher.go.                 *)
(***************************************************************************)
EXTENDS SessionLife

VARIABLES
    summarized,  \* the session that the last successful summary was written in
    owedFresh    \* a summary has reset the session, no user job has begun since

resetVars == <<vars, summarized, owedFresh>>

\* The summary is written, its goroutine has yet to end the reset with os.Remove.
Resetting == clearer["summary"] \in {"delete", "remove"}

\* Get returns to execute, in a job of the user.
UserGets == job = "user" /\ (GetCached \/ Load) /\ step' # "load"

ResetInit == Init /\ summarized = NoSession /\ owedFresh = FALSE

(* A summary that resumes no session has none to reset, nor has one whose goroutine
   ends with the process.  The claude CLI never gives out the ID of a summarized
   session again. *)
ResetNext ==
    /\ Next
    /\ newSid' \in {newSid, sid, NoSession} \/ newSid' # summarized
    /\ summarized' = IF Answer /\ job = "summarize" /\ ok
                     THEN IF sid = NoSession THEN NoSession ELSE newSid
                     ELSE IF Restart /\ Resetting THEN NoSession ELSE summarized
    /\ owedFresh' = IF RemoveFile("summary") THEN TRUE
                    ELSE IF UserGets THEN FALSE ELSE owedFresh

ResetSpec == ResetInit /\ [][ResetNext]_resetVars

(* maybeSummarizeSession "summarizes the conversation into memory.md and resets the
   session"; "The next conversation starts from a fresh session": no message is answered in the summarized session
   once it has been reset. *)
FreshAfterSummary ==
    [][UserGets /\ summarized # NoSession /\ ~Resetting => sid' # summarized]_resetVars

(* The Clear of the summary does not overlap with a job. *)
ResetsAlone == clearer["summary"] = "remove" => ~Executing

(* No Clear overlaps with a job, and no job of the housekeeping comes between the
   reset and the user's next message. *)
Undisturbed == ~overlap /\ (owedFresh /\ Executing => job = "user")
===============================================================================

----------------------------- MODULE SessionLife -----------------------------
(***************************************************************************)
(* The Claude session of one chat topic: the in-memory cache and the file  *)
(* that session.Manager keeps (internal/session/session.go), the worker    *)
(* that looks the session up before each job and stores it afterwards      *)
(* (internal/runner/runner.go), the housekeeping jobs the dispatcher       *)
(* submits behind the user's back and the reset after a summary            *)
(* (internal/bot/dispatcher.go), /clear, and restarts of the daemon.       *)
(*                                                                         *)
(* The cache is under a mutex, the file is not, and no lock spans both:    *)
(* each access to either is a step.  The jobs of the topic form one line   *)
(* and are executed one at a time (RunnerQueue).  Topics share nothing but *)
(* the counter that triggers compression, so one topic is looked at.       *)
(***************************************************************************)
EXTENDS Integers, Sequences, FiniteSets

CONSTANTS
    Sessions,              \* session IDs of the claude CLI
    NoSession,             \* the empty session ID
    MemoryUpdateInterval,  \* config: memory_update_interval, 0 turns it off
    MaxInFlight            \* bound: user jobs arrive while fewer jobs are about

ASSUME NoSessionAssumption == NoSession \notin Sessions
ASSUME IntervalAssumption  == MemoryUpdateInterval \in Nat
ASSUME InFlightAssumption  == MaxInFlight \in Nat

VARIABLES
    cache,            \* Manager.sessions of the topic
    file,             \* the sessionId in the topic's session file
    line,             \* the jobs of the topic that wait, oldest first
    step,             \* where the worker is in execute
    job,              \* what kind of job it executes
    sid,              \* execute's sessionID: what Get returned
    seen,             \* what touchLastUsed has read from the file
    newSid,           \* the session ID the claude CLI reported
    ok,               \* whether the job succeeded
    replied,          \* dispatchJob goroutines about to call maybeUpdateMemory
    checking,         \* dispatchJob goroutines about to call maybeSummarizeSession
    updated,          \* maybeUpdateMemory goroutines about to call maybeCompressMemory
    completions,      \* completionCounts, modulo the interval
    summarizeActive,  \* summarizeActive of the topic
    clearer,          \* progress of who may call Clear: the user, the summary goroutine
    \* History, read by no action:
    expected,         \* the session of the last job, NoSession after a Clear
    overlap           \* a Clear has overlapped with a job (or with a restart)

storeVars  == <<cache, file>>
workVars   == <<step, job, sid, seen, newSid, ok>>
afterVars  == <<replied, checking, updated, completions, summarizeActive>>
history    == <<expected, overlap>>
vars == <<storeVars, line, workVars, afterVars, clearer, history>>

Kinds == {"user", "update", "compress", "summarize"}
Steps == {"idle", "get", "load", "fill", "touch", "rewrite", "claude", "set", "save", "answer"}
Clearers == {"user", "summary"}

SomeSession == Sessions \cup {NoSession}
Executing == step # "idle"
Clearing == \E c \in Clearers : clearer[c] = "remove"
InFlight == Len(line) + replied + checking + updated + (IF Executing THEN 1 ELSE 0)

Init ==
    /\ cache = NoSession /\ file = NoSession
    /\ line = <<>>
    /\ step = "idle" /\ job = "user" /\ ok = FALSE
    /\ sid = NoSession /\ seen = NoSession /\ newSid = NoSession
    /\ replied = 0 /\ checking = 0 /\ updated = 0
    /\ completions = 0
    /\ summarizeActive = FALSE
    /\ clearer = [c \in Clearers |-> "off"]
    /\ expected = NoSession /\ overlap = FALSE

-----------------------------------------------------------------------------
(* Seeded faults.  No specification uses these: each is a plausible slip in the
   action it is named after, and shows that a property would notice it. *)

(* Clear forgets the cache only. *)
RemoveFile_Stays(c) ==
    /\ clearer[c] = "remove"
    /\ clearer' = [clearer EXCEPT ![c] = IF c = "user" THEN "off" ELSE "release"]
    /\ overlap' = (overlap \/ Executing)
    /\ UNCHANGED <<storeVars, line, workVars, afterVars, expected>>

(* The failure path of a memory update counts it as well, a second time. *)
CompressMemory_CountsTwice(due) ==
    /\ updated' = updated - 1
    /\ line' = IF due THEN Append(line, "compress") ELSE line
    /\ UNCHANGED <<storeVars, workVars, replied, checking, completions,
                   summarizeActive, clearer, history>>

(* The topic is not marked. *)
Summarize_Unmarked(long) ==
    /\ checking > 0
    /\ long /\ ~summarizeActive
    /\ checking' = checking - 1
    /\ line' = Append(line, "summarize")
    /\ clearer' = [clearer EXCEPT !["summary"] = "waiting"]
    /\ UNCHANGED <<storeVars, workVars, replied, updated, completions,
                   summarizeActive, history>>

(* A summary is treated like any other reply. *)
Answer_SummaryIsReply ==
    /\ step = "answer"
    /\ step' = "idle"
    /\ sid' = NoSession /\ newSid' = NoSession
    /\ replied' = replied + (IF ok /\ job \in {"user", "summarize"} THEN 1 ELSE 0)
    /\ updated' = updated + (IF ok /\ job = "update" THEN 1 ELSE 0)
    /\ clearer' = IF job = "summarize"
                  THEN [clearer EXCEPT !["summary"] = IF ok THEN "delete" ELSE "release"]
                  ELSE clearer
    /\ UNCHANGED <<storeVars, line, job, seen, ok, checking, completions,
                   summarizeActive, history>>

(* A failed summary returns without the deferred release. *)
Answer_KeepsMark ==
    /\ step = "answer"
    /\ step' = "idle"
    /\ sid' = NoSession /\ newSid' = NoSession
    /\ replied' = replied + (IF ok /\ job = "user" THEN 1 ELSE 0)
    /\ updated' = updated + (IF ok /\ job = "update" THEN 1 ELSE 0)
    /\ clearer' = IF job = "summarize"
                  THEN [clearer EXCEPT !["summary"] = IF ok THEN "delete" ELSE "off"]
                  ELSE clearer
    /\ UNCHANGED <<storeVars, line, job, seen, ok, checking, completions,
                   summarizeActive, history>>

-----------------------------------------------------------------------------
(* The worker: session.Get *)

UserJob ==
    /\ InFlight < MaxInFlight
    /\ line' = Append(line, "user")
    /\ UNCHANGED <<storeVars, workVars, afterVars, clearer, history>>

Begin ==
    /\ step = "idle"
    /\ line # <<>>
    /\ step' = "get"
    /\ job' = Head(line)
    /\ line' = Tail(line)
    /\ overlap' = (overlap \/ Clearing)
    /\ UNCHANGED <<storeVars, sid, seen, newSid, ok, afterVars, clearer, expected>>

(* Get finds the ID in the cache, or has to look at the disk. *)
GetCached ==
    /\ step = "get"
    /\ sid' = cache
    /\ step' = IF cache # NoSession THEN "touch" ELSE "load"
    /\ UNCHANGED <<storeVars, line, job, seen, newSid, ok, afterVars, clearer, history>>

Load ==
    /\ step = "load"
    /\ sid' = file
    /\ step' = IF file # NoSession THEN "fill" ELSE "claude"
    /\ UNCHANGED <<storeVars, line, job, seen, newSid, ok, afterVars, clearer, history>>

Fill ==
    /\ step = "fill"
    /\ cache' = sid
    /\ step' = "touch"
    /\ UNCHANGED <<file, line, job, sid, seen, newSid, ok, afterVars, clearer, history>>

(* touchLastUsed reads the file, and writes back what it has read. *)
TouchRead ==
    /\ step = "touch"
    /\ seen' = file
    /\ step' = IF file # NoSession THEN "rewrite" ELSE "claude"
    /\ UNCHANGED <<storeVars, line, job, sid, newSid, ok, afterVars, clearer, history>>

TouchWrite ==
    /\ step = "rewrite"
    /\ file' = seen
    /\ seen' = NoSession
    /\ step' = "claude"
    /\ UNCHANGED <<cache, line, job, sid, newSid, ok, afterVars, clearer, history>>

-----------------------------------------------------------------------------
(* The worker: the claude CLI and session.Set *)

(* An ID the CLI has not given out: nothing refers to it. *)
Unused(s) == s \notin {cache, file, sid}

(* Success.  The CLI resumes under the same ID or a new one; without --resume
   (no session, or forced by a credential swap) the ID is new.  Without any ID
   in its output nothing is stored: s = sid stands for that too. *)
ClaudeSucceeds(s) ==
    /\ step = "claude"
    /\ s = sid \/ (s \in Sessions /\ Unused(s))
    /\ newSid' = s
    /\ ok' = TRUE
    /\ step' = IF s # sid THEN "set" ELSE "answer"
    /\ UNCHANGED <<storeVars, line, job, sid, seen, afterVars, clearer, history>>

(* An error or a cancellation: nothing is stored. *)
ClaudeFails ==
    /\ step = "claude"
    /\ ok' = FALSE
    /\ step' = "answer"
    /\ UNCHANGED <<storeVars, line, job, sid, seen, newSid, afterVars, clearer, history>>

SetCache ==
    /\ step = "set"
    /\ cache' = newSid
    /\ step' = "save"
    /\ UNCHANGED <<file, line, job, sid, seen, newSid, ok, afterVars, clearer, history>>

Save ==
    /\ step = "save"
    /\ file' = newSid
    /\ step' = "answer"
    /\ expected' = newSid
    /\ UNCHANGED <<cache, line, job, sid, seen, newSid, ok, afterVars, clearer, overlap>>

(* The result wakes up the goroutine that waits for it.  A user's job that
   failed, or was cancelled all the same, is followed by nothing. *)
Answer ==
    /\ step = "answer"
    /\ step' = "idle"
    /\ sid' = NoSession /\ newSid' = NoSession
    /\ \/ job = "user" /\ ok /\ replied' = replied + 1
       \/ UNCHANGED replied
    /\ updated' = updated + (IF ok /\ job = "update" THEN 1 ELSE 0)
    /\ clearer' = IF job = "summarize"
                  THEN [clearer EXCEPT !["summary"] = IF ok THEN "delete" ELSE "release"]
                  ELSE clearer
    /\ UNCHANGED <<storeVars, line, job, seen, ok, checking, completions,
                   summarizeActive, history>>

-----------------------------------------------------------------------------
(* What follows a reply: housekeeping jobs in the same topic *)

(* maybeUpdateMemory: every so many completions a job of its own. *)
UpdateMemory ==
    /\ replied > 0
    /\ replied' = replied - 1
    /\ checking' = checking + 1
    /\ IF MemoryUpdateInterval = 0
       THEN UNCHANGED <<completions, line>>
       ELSE /\ completions' = (completions + 1) % MemoryUpdateInterval
            /\ line' = IF completions' = 0 THEN Append(line, "update") ELSE line
    /\ UNCHANGED <<storeVars, workVars, updated, summarizeActive, clearer, history>>

(* maybeCompressMemory counts the updates of all topics, so that for one topic
   either outcome is possible. *)
CompressMemory(due) ==
    /\ updated > 0
    /\ updated' = updated - 1
    /\ line' = IF due THEN Append(line, "compress") ELSE line
    /\ UNCHANGED <<storeVars, workVars, replied, checking, completions,
                   summarizeActive, clearer, history>>

(* maybeSummarizeSession with a result below the token limit, or while a summary
   of the topic is already under way. *)
SkipSummary(long) ==
    /\ checking > 0
    /\ ~long \/ summarizeActive
    /\ checking' = checking - 1
    /\ UNCHANGED <<storeVars, line, workVars, replied, updated, completions,
                   summarizeActive, clearer, history>>

Summarize(long) ==
    /\ checking > 0
    /\ long /\ ~summarizeActive
    /\ checking' = checking - 1
    /\ summarizeActive' = TRUE
    /\ line' = Append(line, "summarize")
    /\ clearer' = [clearer EXCEPT !["summary"] = "waiting"]
    /\ UNCHANGED <<storeVars, workVars, replied, updated, completions, history>>

(* The deferred end of the summary's goroutine. *)
ReleaseSummary ==
    /\ clearer["summary"] = "release"
    /\ clearer' = [clearer EXCEPT !["summary"] = "off"]
    /\ summarizeActive' = FALSE
    /\ UNCHANGED <<storeVars, line, workVars, replied, checking, updated,
                   completions, history>>

-----------------------------------------------------------------------------
(* session.Clear, for /clear (also /set, /unset, /model) and after a summary *)

ClearCache(c) ==
    /\ clearer[c] = IF c = "user" THEN "off" ELSE "delete"
    /\ clearer' = [clearer EXCEPT ![c] = "remove"]
    /\ cache' = NoSession
    /\ expected' = NoSession
    /\ overlap' = Executing
    /\ UNCHANGED <<file, line, workVars, afterVars>>

RemoveFile(c) ==
    /\ clearer[c] = "remove"
    /\ clearer' = [clearer EXCEPT ![c] = IF c = "user" THEN "off" ELSE "release"]
    /\ file' = NoSession
    /\ overlap' = (overlap \/ Executing)
    /\ UNCHANGED <<cache, line, workVars, afterVars, expected>>

-----------------------------------------------------------------------------
(* The process ends and is started again: only the file is left. *)
Restart ==
    /\ cache' = NoSession
    /\ line' = <<>>
    /\ step' = "idle" /\ job' = "user" /\ ok' = FALSE
    /\ sid' = NoSession /\ seen' = NoSession /\ newSid' = NoSession
    /\ replied' = 0 /\ checking' = 0 /\ updated' = 0
    /\ completions' = 0
    /\ summarizeActive' = FALSE
    /\ clearer' = [c \in Clearers |-> "off"]
    /\ overlap' = (overlap \/ Clearing)
    /\ UNCHANGED <<file, expected>>

-----------------------------------------------------------------------------
WorkerStep ==
    \/ Begin \/ GetCached \/ Load \/ Fill \/ TouchRead \/ TouchWrite
    \/ (\E s \in SomeSession : ClaudeSucceeds(s)) \/ ClaudeFails
    \/ SetCache \/ Save \/ Answer

FollowUp ==
    \/ UpdateMemory
    \/ \E b \in BOOLEAN : CompressMemory(b) \/ SkipSummary(b) \/ Summarize(b)

SummaryStep == ClearCache("summary") \/ RemoveFile("summary") \/ ReleaseSummary

Next ==
    \/ UserJob \/ WorkerStep \/ FollowUp \/ SummaryStep
    \/ ClearCache("user") \/ RemoveFile("user") \/ Restart

Spec == Init /\ [][Next]_vars

(* Goroutines run on; the user and the restarts owe nothing. *)
Fairness == WF_vars(WorkerStep) /\ WF_vars(FollowUp) /\ WF_vars(SummaryStep)

FairSpec == Spec /\ Fairness

-----------------------------------------------------------------------------
(* Properties *)

TypeOK ==
    /\ cache \in SomeSession /\ file \in SomeSession
    /\ line \in Seq(Kinds)
    /\ step \in Steps /\ job \in Kinds /\ ok \in BOOLEAN
    /\ sid \in SomeSession /\ seen \in SomeSession /\ newSid \in SomeSession
    /\ replied \in Nat /\ checking \in Nat /\ updated \in Nat
    /\ completions \in Nat
    /\ summarizeActive \in BOOLEAN
    /\ clearer \in [Clearers -> {"off", "waiting", "delete", "remove", "release"}]
    /\ expected \in SomeSession /\ overlap \in BOOLEAN

(* Unless a Clear has overlapped with a job, a job runs in exactly the session
   the last successful one ended in, and in a fresh one after a Clear: through
   cache hits, cache misses, failed jobs, failed summaries and restarts at any
   moment, the one between the two writes of Set included. *)
ResumesLastSession == step = "claude" /\ ~overlap => sid = expected

(* At most one summary of the topic is waiting, executing or about to clear the
   session, so that no summary's Clear hits a session begun after another's. *)
Summaries ==
    Cardinality({i \in DOMAIN line : line[i] = "summarize"})
      + (IF Executing /\ job = "summarize" THEN 1 ELSE 0)
      + (IF clearer["summary"] \in {"delete", "remove"} THEN 1 ELSE 0)

OneSummaryAtATime == Summaries <= 1

(* maybeSummarizeSession's comment names the hazard: a summary whose own reply
   asks for a summary never ends.  When the user is silent and the daemon stays
   up, the topic comes to rest. *)
ComesToRest ==
    <>[][~UserJob /\ ~Restart]_vars => <>[](line = <<>> /\ ~Executing)

(* The summary's goroutine always gives summarizeActive back, whatever became of
   its job: a topic never loses its ability to be summarized. *)
SummariesEnd == summarizeActive ~> ~summarizeActive
===============================================================================

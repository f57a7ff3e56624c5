----------------------------- MODULE RunnerQueue -----------------------------
(***************************************************************************)
(* runner.Manager: one buffered channel and one worker goroutine per queue *)
(* key, the count of executing jobs, and the re-exec that the last worker  *)
(* to become idle performs when SIGUSR1 has asked for a restart            *)
(* (internal/runner/runner.go, internal/daemon/daemon.go), under run.sh,   *)
(* which starts the daemon again whenever it ends.                         *)
(*                                                                         *)
(* A worker step is one shared-memory operation: receiving from the        *)
(* channel, each atomic operation on activeJobs, the read of               *)
(* pendingRestart, and the exec are separate, so that workers of different *)
(* keys, the signal handler and the cancellations interleave between them. *)
(***************************************************************************)
EXTENDS Integers, Sequences, FiniteSets

CONSTANTS
    Keys, Jobs, KeyOf,   \* as in JobService
    NoJob,               \* what an idle worker holds
    QueueCap,            \* capacity of the job channel (32 in the code)
    MaxLives             \* bound: how many process images are looked at

ASSUME KeyOfAssumption    == KeyOf \in [Jobs -> Keys]
ASSUME NoJobAssumption    == NoJob \notin Jobs
ASSUME KeysAssumption     == IsFiniteSet(Keys)
ASSUME QueueCapAssumption == QueueCap \in Nat \ {0}
ASSUME MaxLivesAssumption == MaxLives \in Nat \ {0}

VARIABLES
    caller,          \* caller[j]: progress of the goroutine that submits j
    ctxDone,         \* jobs whose context has been cancelled
    queue,           \* queue[k]: content of the job channel of key k
    worker,          \* worker[k]: program counter of runQueue for key k
    cur,             \* cur[k]: the job runQueue holds
    verdict,         \* verdict[k]: what execute returned
    answer,          \* answer[j]: what was sent on the job's ResultCh
    activeJobs,      \* Manager.activeJobs
    pendingRestart,  \* daemon.pendingRestart
    process,         \* "up", "draining" (one SIGUSR1 consumed) or "stopping"
    execFailed,      \* syscall.Exec has failed in this process image
    lives            \* process images so far

runnerVars == <<queue, worker, cur, verdict, activeJobs>>
callerVars == <<caller, ctxDone, answer>>
processVars == <<pendingRestart, process, execFailed, lives>>
vars == <<runnerVars, callerVars, processVars>>

WorkerStates == {"absent", "idle", "got", "starting", "running", "sending",
                 "leaving", "checking", "reexec"}
Counted == {"starting", "running", "sending", "leaving"}    \* inside activeJobs
Holding == {"got", "starting", "running", "sending"}        \* job not answered yet
NoAnswer == "none"

(* The caller is inside Submit, or blocked on its empty ResultCh. *)
Unanswered(j) == caller[j] \in {"submitting", "waiting"} /\ answer[j] = NoAnswer

Init ==
    /\ caller = [j \in Jobs |-> "idle"]
    /\ ctxDone = {}
    /\ queue = [k \in Keys |-> <<>>]
    /\ worker = [k \in Keys |-> "absent"]
    /\ cur = [k \in Keys |-> NoJob]
    /\ verdict = [k \in Keys |-> NoAnswer]
    /\ answer = [j \in Jobs |-> NoAnswer]
    /\ activeJobs = 0
    /\ pendingRestart = FALSE
    /\ process = "up"
    /\ execFailed = FALSE
    /\ lives = 1

-----------------------------------------------------------------------------
(* Seeded faults.  No specification uses these: each is a plausible slip in the
   action it is named after, and shows that a property would notice it. *)

(* The error return of execute counts the job out, and runQueue does so again. *)
StartFails_CountsOutTwice(k) ==
    /\ worker[k] = "starting"
    /\ worker' = [worker EXCEPT ![k] = "sending"]
    /\ verdict' = [verdict EXCEPT ![k] = "error"]
    /\ activeJobs' = activeJobs - 1
    /\ UNCHANGED <<queue, cur, callerVars, processVars>>

(* On an error the loop goes on to the next job before Add(-1). *)
StartFails_SkipsCountOut(k) ==
    /\ worker[k] = "starting"
    /\ worker' = [worker EXCEPT ![k] = "idle"]
    /\ answer' = [answer EXCEPT ![cur[k]] = "error"]
    /\ cur' = [cur EXCEPT ![k] = NoJob]
    /\ UNCHANGED <<queue, verdict, activeJobs, caller, ctxDone, processVars>>

(* Submit logs the cancelled context and returns without a Result. *)
Reject_WithoutResult(j) ==
    /\ caller[j] = "submitting"
    /\ j \in ctxDone
    /\ caller' = [caller EXCEPT ![j] = "waiting"]
    /\ UNCHANGED <<ctxDone, answer, runnerVars, processVars>>

(* Submit reports the cancelled context and goes on to hand the job over. *)
Reject_WithoutReturn(j) ==
    /\ caller[j] = "submitting"
    /\ j \in ctxDone
    /\ answer' = [answer EXCEPT ![j] = "refused"]
    /\ caller' = [caller EXCEPT ![j] = "waiting"]
    /\ queue' = [queue EXCEPT ![KeyOf[j]] = Append(@, j)]
    /\ UNCHANGED <<ctxDone, worker, cur, verdict, activeJobs, processVars>>

(* The result of a failed job is not sent. *)
Send_OnlyOutputs(k) ==
    /\ worker[k] = "sending"
    /\ answer' = IF verdict[k] = "ok" THEN [answer EXCEPT ![cur[k]] = "ok"] ELSE answer
    /\ worker' = [worker EXCEPT ![k] = "leaving"]
    /\ cur' = [cur EXCEPT ![k] = NoJob]
    /\ verdict' = [verdict EXCEPT ![k] = NoAnswer]
    /\ UNCHANGED <<queue, activeJobs, caller, ctxDone, processVars>>

(* The restart is decided on the count before Add(-1). *)
CountOut_TestsOldCount(k) ==
    /\ worker[k] = "leaving"
    /\ activeJobs' = activeJobs - 1
    /\ worker' = [worker EXCEPT ![k] = IF activeJobs = 0 THEN "checking" ELSE "idle"]
    /\ UNCHANGED <<queue, cur, verdict, callerVars, processVars>>

-----------------------------------------------------------------------------
(* Submission: the caller's side of Manager.Submit *)

(* Submit is called: getOrCreateQueue starts the worker of a key on first use.
   The job's context derives from the root context. *)
Submit(j) ==
    /\ caller[j] = "idle"
    /\ caller' = [caller EXCEPT ![j] = "submitting"]
    /\ ctxDone' = IF process = "stopping" THEN ctxDone \cup {j} ELSE ctxDone
    /\ worker' = [worker EXCEPT ![KeyOf[j]] = IF @ = "absent" THEN "idle" ELSE @]
    /\ UNCHANGED <<answer, queue, cur, verdict, activeJobs, processVars>>

(* The select's send case: there is room in the channel. *)
Enqueue(j) ==
    /\ caller[j] = "submitting"
    /\ Len(queue[KeyOf[j]]) < QueueCap
    /\ queue' = [queue EXCEPT ![KeyOf[j]] = Append(@, j)]
    /\ caller' = [caller EXCEPT ![j] = "waiting"]
    /\ UNCHANGED <<ctxDone, answer, worker, cur, verdict, activeJobs, processVars>>

(* The select's Done case.  When both cases are ready Go picks either. *)
Reject(j) ==
    /\ caller[j] = "submitting"
    /\ j \in ctxDone
    /\ answer' = [answer EXCEPT ![j] = "refused"]
    /\ caller' = [caller EXCEPT ![j] = "waiting"]
    /\ UNCHANGED <<ctxDone, runnerVars, processVars>>

(* A reaction cancels a job's context.  Once the job is answered that has no
   effect on the runner any more. *)
Cancel(j) ==
    /\ Unanswered(j)
    /\ j \notin ctxDone
    /\ ctxDone' = ctxDone \cup {j}
    /\ UNCHANGED <<caller, answer, runnerVars, processVars>>

-----------------------------------------------------------------------------
(* The worker goroutine: runQueue *)

Receive(k) ==
    /\ worker[k] = "idle"
    /\ queue[k] # <<>>
    /\ cur' = [cur EXCEPT ![k] = Head(queue[k])]
    /\ queue' = [queue EXCEPT ![k] = Tail(@)]
    /\ worker' = [worker EXCEPT ![k] = "got"]
    /\ UNCHANGED <<verdict, activeJobs, callerVars, processVars>>

(* activeJobs.Add(1) *)
CountIn(k) ==
    /\ worker[k] = "got"
    /\ activeJobs' = activeJobs + 1
    /\ worker' = [worker EXCEPT ![k] = "starting"]
    /\ UNCHANGED <<queue, cur, verdict, callerVars, processVars>>

(* exec.CommandContext refuses to start a process under a cancelled context;
   starting it may also fail by itself. *)
StartFails(k) ==
    /\ worker[k] = "starting"
    /\ worker' = [worker EXCEPT ![k] = "sending"]
    /\ verdict' = [verdict EXCEPT ![k] = "error"]
    /\ UNCHANGED <<queue, cur, activeJobs, callerVars, processVars>>

Start(k) ==
    /\ worker[k] = "starting"
    /\ cur[k] \notin ctxDone
    /\ worker' = [worker EXCEPT ![k] = "running"]
    /\ UNCHANGED <<queue, cur, verdict, activeJobs, callerVars, processVars>>

(* The claude process ends: with an output, or with an error (its own, or
   because a cancelled context killed it). *)
Finish(k, v) ==
    /\ worker[k] = "running"
    /\ worker' = [worker EXCEPT ![k] = "sending"]
    /\ verdict' = [verdict EXCEPT ![k] = v]
    /\ UNCHANGED <<queue, cur, activeJobs, callerVars, processVars>>

(* ToolEventCh is closed and the result is put in the one-place ResultCh. *)
Send(k) ==
    /\ worker[k] = "sending"
    /\ answer' = [answer EXCEPT ![cur[k]] = verdict[k]]
    /\ worker' = [worker EXCEPT ![k] = "leaving"]
    /\ cur' = [cur EXCEPT ![k] = NoJob]
    /\ verdict' = [verdict EXCEPT ![k] = NoAnswer]
    /\ UNCHANGED <<queue, activeJobs, caller, ctxDone, processVars>>

(* remaining := activeJobs.Add(-1) *)
CountOut(k) ==
    /\ worker[k] = "leaving"
    /\ activeJobs' = activeJobs - 1
    /\ worker' = [worker EXCEPT ![k] = IF activeJobs' = 0 THEN "checking" ELSE "idle"]
    /\ UNCHANGED <<queue, cur, verdict, callerVars, processVars>>

(* remaining == 0: read PendingRestart *)
Check(k) ==
    /\ worker[k] = "checking"
    /\ worker' = [worker EXCEPT ![k] = IF pendingRestart THEN "reexec" ELSE "idle"]
    /\ UNCHANGED <<queue, cur, verdict, activeJobs, callerVars, processVars>>

-----------------------------------------------------------------------------
(* The life of the process: signals, ReExec, exit and the run.sh loop *)

(* A fresh process image: every channel, goroutine and counter is new.  What
   callers were waiting for is gone with them. *)
FreshImage ==
    /\ queue' = [k \in Keys |-> <<>>]
    /\ worker' = [k \in Keys |-> "absent"]
    /\ cur' = [k \in Keys |-> NoJob]
    /\ verdict' = [k \in Keys |-> NoAnswer]
    /\ activeJobs' = 0
    /\ caller' = [j \in Jobs |-> IF Unanswered(j) THEN "gone" ELSE caller[j]]
    /\ ctxDone' = {}
    /\ UNCHANGED answer
    /\ pendingRestart' = FALSE
    /\ process' = "up"
    /\ execFailed' = FALSE
    /\ lives' = lives + 1

ReExec(k) ==
    /\ worker[k] = "reexec"
    /\ FreshImage

(* os.Executable or syscall.Exec fails: ReExec returns and the loop goes on. *)
ReExecFails(k) ==
    /\ worker[k] = "reexec"
    /\ execFailed' = TRUE
    /\ worker' = [worker EXCEPT ![k] = "idle"]
    /\ UNCHANGED <<queue, cur, verdict, activeJobs, callerVars,
                   pendingRestart, process, lives>>

(* WaitForShutdown receives its first signal and it is SIGUSR1. *)
FirstSigusr1 ==
    /\ process = "up"
    /\ lives < MaxLives
    /\ pendingRestart' = TRUE
    /\ process' = "draining"
    /\ UNCHANGED <<execFailed, lives, runnerVars, callerVars>>

(* A terminating signal, or any signal after SIGUSR1: cancel() ends the root
   context and with it every job's context. *)
Shutdown ==
    /\ process \in {"up", "draining"}
    /\ lives < MaxLives
    /\ process' = "stopping"
    /\ ctxDone' = ctxDone \cup {j \in Jobs : Unanswered(j)}
    /\ UNCHANGED <<pendingRestart, execFailed, lives, runnerVars, caller, answer>>

(* main returns, nothing waits for the workers; run.sh starts the daemon again. *)
Exit ==
    /\ process = "stopping"
    /\ FreshImage

-----------------------------------------------------------------------------
Next ==
    \/ \E j \in Jobs : Submit(j) \/ Enqueue(j) \/ Reject(j) \/ Cancel(j)
    \/ \E k \in Keys :
          \/ Receive(k) \/ CountIn(k) \/ StartFails(k) \/ Start(k)
          \/ \E v \in {"ok", "error"} : Finish(k, v)
          \/ Send(k) \/ CountOut(k) \/ Check(k) \/ ReExec(k) \/ ReExecFails(k)
    \/ FirstSigusr1 \/ Shutdown \/ Exit

(* Goroutines that can run do run, and a started claude process ends.  No
   fairness on new submissions, cancellations or signals. *)
WorkerStep(k) ==
    \/ Receive(k) \/ CountIn(k) \/ StartFails(k) \/ Start(k)
    \/ \E v \in {"ok", "error"} : Finish(k, v)
    \/ Send(k) \/ CountOut(k) \/ Check(k) \/ ReExec(k) \/ ReExecFails(k)

CallerStep(j) == Enqueue(j) \/ Reject(j)

Fairness ==
    /\ \A k \in Keys : WF_vars(WorkerStep(k))
    /\ \A j \in Jobs : SF_vars(CallerStep(j))
    /\ WF_vars(Exit)

Spec == Init /\ [][Next]_vars
FairSpec == Spec /\ Fairness

-----------------------------------------------------------------------------
(* Properties *)

TypeOK ==
    /\ caller \in [Jobs -> {"idle", "submitting", "waiting", "gone"}]
    /\ ctxDone \subseteq Jobs
    /\ queue \in [Keys -> Seq(Jobs)]
    /\ worker \in [Keys -> WorkerStates]
    /\ cur \in [Keys -> Jobs \cup {NoJob}]
    /\ verdict \in [Keys -> {NoAnswer, "ok", "error"}]
    /\ answer \in [Jobs -> {NoAnswer, "ok", "error", "refused"}]
    /\ activeJobs \in Nat
    /\ pendingRestart \in BOOLEAN
    /\ process \in {"up", "draining", "stopping"}
    /\ execFailed \in BOOLEAN
    /\ lives \in Nat

(* The counter that decides about a restart is exact: activeJobs is the number
   of workers between their Add(1) and their Add(-1), in every interleaving and
   across process images. *)
ActiveJobsExact == activeJobs = Cardinality({k \in Keys : worker[k] \in Counted})

(* The unanswered jobs of a key, oldest first: the one its worker holds, then
   the channel. *)
Line(k) == IF worker[k] \in Holding THEN <<cur[k]>> \o queue[k] ELSE queue[k]

Accepted(j) == caller[j] = "waiting" /\ answer[j] = NoAnswer

(* A caller blocked on its ResultCh is owed an answer that is on its way, once:
   its job is at exactly one place of its key's line, and no job that was
   answered, refused or never handed over is in any line.  Nobody waits for a
   job the runner has dropped, and no job runs twice. *)
OwedOnce ==
    \A j \in Jobs, k \in Keys :
        Cardinality({i \in 1 .. Len(Line(k)) : Line(k)[i] = j})
            = IF Accepted(j) /\ k = KeyOf[j] THEN 1 ELSE 0

(* The runner is a JobService. *)
Outcome(j) ==
    IF answer[j] # NoAnswer THEN answer[j]
    ELSE IF caller[j] = "waiting" THEN "accepted"
    ELSE IF caller[j] = "gone" THEN "lost"
    ELSE "new"

Service == INSTANCE JobService
    WITH pending <- [k \in Keys |-> Line(k)],
         outcome <- [j \in Jobs |-> Outcome(j)]

(* Per key the jobs are answered in the order they were lined up, each at most
   once, whatever the workers of other keys, cancellations and restarts do. *)
ImplementsJobService == Service!Spec

(* Every submission settles: its caller gets an answer, even when the channel
   was full or its context was cancelled, unless the process ends first. *)
EverySubmissionSettles ==
    \A j \in Jobs : caller[j] = "submitting" ~> (answer[j] # NoAnswer \/ caller[j] = "gone")

(* A restart asked for while a job executes does happen: whichever worker
   counts out last sees the flag, in every order of the counting and the
   signal (or the exec itself fails, or the process ends another way, which
   also clears the flag). *)
BusyRestartHappens ==
    (pendingRestart /\ activeJobs > 0) ~> (~pendingRestart \/ execFailed)

(* daemon.go: "SetPendingRestart marks the daemon for restart after current
   jobs complete"; runner.go logs "all jobs complete" before ReExec.  No job
   that is executing is cut off by the re-exec. *)
NoJobCutOffByReExec ==
    [][\A k \in Keys : ReExec(k) => \A other \in Keys : worker[other] \notin Counted]_vars
===============================================================================

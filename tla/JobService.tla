------------------------------ MODULE JobService ------------------------------
(***************************************************************************)
(* What the runner promises the rest of the daemon.  Jobs handed over for  *)
(* one queue key (workspace, bot, chat, topic) wait in one line; the       *)
(* oldest one is answered first and every job is answered at most once,    *)
(* with an output or an error.  A job may also be refused instead of being *)
(* lined up (its context was cancelled first), and the end of the process  *)
(* forgets everything that was not answered.                               *)
(*                                                                         *)
(* RunnerQueue implements this specification; TopicDispatch is built on    *)
(* it.                                                                     *)
(***************************************************************************)
EXTENDS Integers, Sequences

CONSTANTS
    Keys,       \* queue keys: runner.go's queueKey
    Jobs,       \* the jobs that are ever submitted
    KeyOf       \* the queue key of each job: a function in [Jobs -> Keys]

VARIABLES
    pending,    \* pending[k]: accepted jobs of key k without an answer, oldest first
    outcome     \* outcome[j]: what became of job j

vars == <<pending, outcome>>

Answers  == {"ok", "error"}
Outcomes == Answers \cup {"new", "accepted", "refused", "lost"}

TypeOK ==
    /\ pending \in [Keys -> Seq(Jobs)]
    /\ outcome \in [Jobs -> Outcomes]

Init ==
    /\ pending = [k \in Keys |-> <<>>]
    /\ outcome = [j \in Jobs |-> "new"]

(* The job is lined up behind the others of its key. *)
Accept(j) ==
    /\ outcome[j] = "new"
    /\ pending' = [pending EXCEPT ![KeyOf[j]] = Append(@, j)]
    /\ outcome' = [outcome EXCEPT ![j] = "accepted"]

(* The job's context ended before there was room for it. *)
Refuse(j) ==
    /\ outcome[j] = "new"
    /\ outcome' = [outcome EXCEPT ![j] = "refused"]
    /\ UNCHANGED pending

(* The oldest job of a key is answered. *)
Resolve(k, answer) ==
    /\ pending[k] # <<>>
    /\ outcome' = [outcome EXCEPT ![Head(pending[k])] = answer]
    /\ pending' = [pending EXCEPT ![k] = Tail(@)]

(* The process image is replaced: nothing unanswered survives.  A job whose
   hand-over had not finished (still "new") goes the same way, or was never
   made. *)
Forget ==
    /\ pending' = [k \in Keys |-> <<>>]
    /\ \E gone \in SUBSET {j \in Jobs : outcome[j] = "new"} :
          outcome' = [j \in Jobs |-> IF outcome[j] = "accepted" \/ j \in gone
                                     THEN "lost" ELSE outcome[j]]

Next ==
    \/ \E j \in Jobs : Accept(j) \/ Refuse(j)
    \/ \E k \in Keys, answer \in Answers : Resolve(k, answer)
    \/ Forget

Spec == Init /\ [][Next]_vars

-----------------------------------------------------------------------------
(* Properties *)

(* The lines hold the accepted jobs, each exactly once and in its key's line:
   no accepted job is missing from its line, none is in a line twice or in the
   line of another key, and no job waits that is already settled. *)
LinesAreExact ==
    /\ \A k \in Keys : \A i \in 1 .. Len(pending[k]) :
          /\ outcome[pending[k][i]] = "accepted"
          /\ KeyOf[pending[k][i]] = k
    /\ \A k \in Keys : \A i, n \in 1 .. Len(pending[k]) :
          pending[k][i] = pending[k][n] => i = n
    /\ \A j \in Jobs : outcome[j] = "accepted" =>
          \E i \in 1 .. Len(pending[KeyOf[j]]) : pending[KeyOf[j]][i] = j

(* What a caller was told stays true: an answered, refused or lost job never
   gets another outcome, so no caller sees its job answered twice. *)
OutcomeIsFinal ==
    [][\A j \in Jobs : outcome[j] \notin {"new", "accepted"} => outcome'[j] = outcome[j]]_vars
===============================================================================

-------------------------- MODULE RunnerQueue_proofs --------------------------
(***************************************************************************)
(* Proofs about RunnerQueue, for any finite set of queue keys, any jobs    *)
(* and any channel capacity.                                               *)
(***************************************************************************)
EXTENDS RunnerQueue, FiniteSetTheorems, TLAPS

(* What is proved of the service, for the runner's lines and outcomes. *)
Lines == INSTANCE JobService_proofs
    WITH pending <- [k \in Keys |-> Line(k)],
         outcome <- [j \in Jobs |-> Outcome(j)]

(* The types, and which values go with which program counter. *)
Coherent ==
    /\ \A k \in Keys : worker[k] \in Holding => cur[k] \in Jobs
    /\ \A k \in Keys : worker[k] = "sending" => verdict[k] \in {"ok", "error"}
    /\ \A j \in Jobs : caller[j] \in {"idle", "submitting"} => answer[j] = NoAnswer

(* A process image starts with well-typed channels and workers. *)
LEMMA EmptyRunner ==
    /\ [k \in Keys |-> <<>>] \in [Keys -> Seq(Jobs)]
    /\ [k \in Keys |-> "absent"] \in [Keys -> WorkerStates]
    /\ [k \in Keys |-> NoJob] \in [Keys -> Jobs \cup {NoJob}]
    /\ [k \in Keys |-> NoAnswer] \in [Keys -> {NoAnswer, "ok", "error"}]
<1>1. <<>> \in Seq(Jobs)
  OBVIOUS
<1> QED BY <1>1 DEF WorkerStates

(* The state variables start with their types ... *)
LEMMA TypeInit == Init => TypeOK
<1> USE DEF TypeOK, NoAnswer
<1> SUFFICES ASSUME Init PROVE TypeOK
  OBVIOUS
<1>1. /\ caller \in [Jobs -> {"idle", "submitting", "waiting", "gone"}]
      /\ answer \in [Jobs -> {NoAnswer, "ok", "error", "refused"}]
  BY DEF Init
<1>2. /\ ctxDone \subseteq Jobs /\ activeJobs \in Nat /\ lives \in Nat
      /\ process \in {"up", "draining", "stopping"}
  BY DEF Init
<1>3. pendingRestart \in BOOLEAN /\ execFailed \in BOOLEAN
  BY Zenon DEF Init
<1>4. /\ queue = [k \in Keys |-> <<>>] /\ worker = [k \in Keys |-> "absent"]
      /\ cur = [k \in Keys |-> NoJob] /\ verdict = [k \in Keys |-> NoAnswer]
  BY DEF Init
<1>5. /\ queue \in [Keys -> Seq(Jobs)] /\ worker \in [Keys -> WorkerStates]
      /\ cur \in [Keys -> Jobs \cup {NoJob}]
      /\ verdict \in [Keys -> {NoAnswer, "ok", "error"}]
  BY ONLY <1>4, EmptyRunner
<1> QED BY ONLY <1>1, <1>2, <1>3, <1>5 DEF TypeOK

(* ... and keep them.  That activeJobs stays a natural number rests on its being
   exact: a worker that counts out has been counted in. *)
LEMMA TypeStep ==
    ASSUME TypeOK, ActiveJobsExact, [Next]_vars
    PROVE  TypeOK'
<1> USE DEF TypeOK, NoAnswer
<1>1. ASSUME NEW j \in Jobs, Submit(j) PROVE TypeOK'
  <2>1. KeyOf[j] \in Keys
    BY KeyOfAssumption
  <2>2. worker' \in [Keys -> WorkerStates]
    BY <1>1, <2>1 DEF Submit, WorkerStates
  <2> QED BY <1>1, <2>2 DEF Submit, processVars
<1>2. ASSUME NEW j \in Jobs, Enqueue(j) PROVE TypeOK'
  <2>1. KeyOf[j] \in Keys
    BY KeyOfAssumption
  <2>2. queue' \in [Keys -> Seq(Jobs)]
    BY <1>2, <2>1 DEF Enqueue
  <2> QED BY <1>2, <2>2 DEF Enqueue, processVars
<1>3. ASSUME NEW j \in Jobs, Reject(j) PROVE TypeOK'
  BY <1>3 DEF Reject, processVars, runnerVars
<1>4. ASSUME NEW j \in Jobs, Cancel(j) PROVE TypeOK'
  BY <1>4 DEF Cancel, processVars, runnerVars
<1>5. ASSUME NEW k \in Keys, Receive(k) PROVE TypeOK'
  <2>1. Head(queue[k]) \in Jobs /\ Tail(queue[k]) \in Seq(Jobs)
    BY <1>5 DEF Receive
  <2> QED BY <1>5, <2>1 DEF Receive, processVars, callerVars, WorkerStates
<1>6. ASSUME NEW k \in Keys, CountIn(k) PROVE TypeOK'
  BY <1>6 DEF CountIn, processVars, callerVars, WorkerStates
<1>7. ASSUME NEW k \in Keys, StartFails(k) PROVE TypeOK'
  BY <1>7 DEF StartFails, processVars, callerVars, WorkerStates
<1>8. ASSUME NEW k \in Keys, Start(k) PROVE TypeOK'
  BY <1>8 DEF Start, processVars, callerVars, WorkerStates
<1>9. ASSUME NEW k \in Keys, NEW v \in {"ok", "error"}, Finish(k, v) PROVE TypeOK'
  BY <1>9 DEF Finish, processVars, callerVars, WorkerStates
<1>10. ASSUME NEW k \in Keys, Send(k) PROVE TypeOK'
  <2>1. answer' \in [Jobs -> {NoAnswer, "ok", "error", "refused"}]
    BY <1>10 DEF Send
  <2> QED BY <1>10, <2>1 DEF Send, processVars, WorkerStates
<1>11. ASSUME NEW k \in Keys, CountOut(k) PROVE TypeOK'
  <2> DEFINE Busy == {l \in Keys : worker[l] \in Counted}
  <2>1. k \in Busy
    BY <1>11 DEF CountOut, Counted
  <2>2. IsFiniteSet(Busy)
    BY KeysAssumption, FS_Subset
  <2>3. Cardinality(Busy) # 0
    <3> HIDE DEF Busy
    <3> QED BY <2>1, <2>2, FS_EmptySet
  <2>4. activeJobs > 0
    BY <2>3 DEF ActiveJobsExact
  <2> QED BY <1>11, <2>4 DEF CountOut, processVars, callerVars, WorkerStates
<1>12. ASSUME NEW k \in Keys, Check(k) PROVE TypeOK'
  BY <1>12 DEF Check, processVars, callerVars, WorkerStates
<1>13. CASE FreshImage
  <2>1. caller' \in [Jobs -> {"idle", "submitting", "waiting", "gone"}]
    BY <1>13 DEF FreshImage
  <2>2. /\ ctxDone' \subseteq Jobs /\ activeJobs' \in Nat /\ lives' \in Nat
        /\ process' \in {"up", "draining", "stopping"} /\ answer' = answer
    BY <1>13 DEF FreshImage
  <2>3. pendingRestart' \in BOOLEAN /\ execFailed' \in BOOLEAN
    BY <1>13, Zenon DEF FreshImage
  <2>4. /\ queue' = [k \in Keys |-> <<>>] /\ worker' = [k \in Keys |-> "absent"]
        /\ cur' = [k \in Keys |-> NoJob] /\ verdict' = [k \in Keys |-> NoAnswer]
    BY <1>13 DEF FreshImage
  <2>5. /\ queue' \in [Keys -> Seq(Jobs)] /\ worker' \in [Keys -> WorkerStates]
        /\ cur' \in [Keys -> Jobs \cup {NoJob}]
        /\ verdict' \in [Keys -> {NoAnswer, "ok", "error"}]
    BY ONLY <2>4, EmptyRunner
  <2> QED BY ONLY TypeOK, <2>1, <2>2, <2>3, <2>5 DEF TypeOK
<1>14. ASSUME NEW k \in Keys, ReExecFails(k) PROVE TypeOK'
  BY <1>14 DEF ReExecFails, callerVars, WorkerStates
<1>15. CASE FirstSigusr1
  BY <1>15 DEF FirstSigusr1, callerVars, runnerVars
<1>16. CASE Shutdown
  BY <1>16 DEF Shutdown, runnerVars
<1>17. CASE UNCHANGED vars
  BY <1>17 DEF vars, runnerVars, callerVars, processVars
<1> QED
  BY <1>1, <1>2, <1>3, <1>4, <1>5, <1>6, <1>7, <1>8, <1>9, <1>10, <1>11, <1>12, <1>13,
     <1>14, <1>15, <1>16, <1>17 DEF Next, ReExec, Exit

(* The counter follows the workers: CountIn and CountOut change both, nothing
   else changes either. *)
LEMMA CounterStep ==
    ASSUME TypeOK, ActiveJobsExact, [Next]_vars
    PROVE  ActiveJobsExact'
<1> DEFINE Busy == {k \in Keys : worker[k] \in Counted}
<1>1. IsFiniteSet(Busy) /\ Cardinality(Busy) \in Nat /\ activeJobs = Cardinality(Busy)
  BY KeysAssumption, FS_Subset, FS_CardinalityType DEF ActiveJobsExact
<1>2. ASSUME NEW k \in Keys, CountIn(k) PROVE ActiveJobsExact'
  <2>1. Busy' = Busy \cup {k} /\ k \notin Busy /\ activeJobs' = activeJobs + 1
    BY <1>2 DEF CountIn, Counted, TypeOK
  <2>2. Cardinality(Busy \cup {k}) = Cardinality(Busy) + 1
    BY <1>1, <2>1, FS_AddElement
  <2> QED BY <1>1, <2>1, <2>2 DEF ActiveJobsExact
<1>3. ASSUME NEW k \in Keys, CountOut(k) PROVE ActiveJobsExact'
  <2>1. Busy' = Busy \ {k} /\ k \in Busy /\ activeJobs' = activeJobs - 1
    BY <1>3 DEF CountOut, Counted, TypeOK
  <2>2. Cardinality(Busy \ {k}) = Cardinality(Busy) - 1
    BY <1>1, <2>1, FS_RemoveElement
  <2> QED BY <1>1, <2>1, <2>2 DEF ActiveJobsExact
<1>4. CASE FreshImage
  <2>1. Busy' = {} /\ activeJobs' = 0
    BY <1>4 DEF FreshImage, Counted
  <2> QED BY <2>1, FS_EmptySet DEF ActiveJobsExact
<1>5. ASSUME Busy' = Busy, activeJobs' = activeJobs PROVE ActiveJobsExact'
  BY <1>1, <1>5 DEF ActiveJobsExact
<1>6. ASSUME NEW k \in Keys,
             \/ Receive(k) \/ StartFails(k) \/ Start(k)
             \/ \E v \in {"ok", "error"} : Finish(k, v)
             \/ Send(k) \/ Check(k) \/ ReExecFails(k)
      PROVE  ActiveJobsExact'
  <2>1. activeJobs' = activeJobs
        /\ \A l \in Keys : worker'[l] \in Counted <=> worker[l] \in Counted
    BY <1>6 DEF Receive, StartFails, Start, Finish, Send, Check, ReExecFails, Counted, TypeOK
  <2>2. Busy' = Busy
    BY <2>1
  <2> QED BY <1>5, <2>1, <2>2
<1>7. ASSUME NEW j \in Jobs, Submit(j) PROVE ActiveJobsExact'
  <2>1. activeJobs' = activeJobs
        /\ \A l \in Keys : worker'[l] \in Counted <=> worker[l] \in Counted
    BY <1>7, KeyOfAssumption DEF Submit, Counted, TypeOK
  <2>2. Busy' = Busy
    BY <2>1
  <2> QED BY <1>5, <2>1, <2>2
<1>8. ASSUME NEW j \in Jobs, Enqueue(j) \/ Reject(j) \/ Cancel(j) PROVE ActiveJobsExact'
  BY <1>5, <1>8 DEF Enqueue, Reject, Cancel, runnerVars
<1>9. CASE FirstSigusr1 \/ Shutdown \/ UNCHANGED vars
  BY <1>5, <1>9 DEF FirstSigusr1, Shutdown, vars, runnerVars
<1> QED
  BY <1>2, <1>3, <1>4, <1>6, <1>7, <1>8, <1>9 DEF Next, ReExec, Exit

(* The restart decision counts right: after every step of any worker, activeJobs
   is the number of workers between their Add(1) and their Add(-1). *)
THEOREM CounterExact == Spec => [](TypeOK /\ ActiveJobsExact)
<1>1. Init => ActiveJobsExact
  <2> SUFFICES ASSUME Init PROVE ActiveJobsExact
    OBVIOUS
  <2>1. {k \in Keys : worker[k] \in Counted} = {}
    BY DEF Init, Counted
  <2>2. activeJobs = 0
    BY DEF Init
  <2> QED BY <2>1, <2>2, FS_EmptySet DEF ActiveJobsExact
<1> QED BY <1>1, TypeInit, TypeStep, CounterStep, PTL DEF Spec

(* The state variables keep their types; in particular the count of executing
   jobs never drops below zero. *)
THEOREM TypeCorrect == Spec => []TypeOK
BY CounterExact, PTL

-----------------------------------------------------------------------------
(* The lines of the runner, and the service's steps in its terms *)

(* What the proofs about Line need of sequences. *)
LEMMA LineShape ==
    ASSUME NEW q \in Seq(Jobs), NEW c \in Jobs
    PROVE  /\ <<c>> \o q \in Seq(Jobs) /\ <<c>> \o q # <<>>
           /\ Head(<<c>> \o q) = c /\ Tail(<<c>> \o q) = q /\ (<<c>> \o q)[1] = c
           /\ 1 \in 1 .. Len(<<c>> \o q)
           /\ \A j \in Jobs : Append(<<c>> \o q, j) = <<c>> \o Append(q, j)
           /\ q # <<>> => <<Head(q)>> \o Tail(q) = q
OBVIOUS

(* A line is a sequence of jobs, and the runner's outcomes are the service's. *)
LEMMA ServiceTyped ==
    ASSUME TypeOK, Coherent
    PROVE  Service!TypeOK /\ (\A k \in Keys : Line(k) \in Seq(Jobs))
<1>1. ASSUME NEW k \in Keys PROVE Line(k) \in Seq(Jobs)
  BY LineShape DEF TypeOK, Coherent, Line
<1>2. ASSUME NEW j \in Jobs PROVE Outcome(j) \in Service!Outcomes
  BY DEF TypeOK, Outcome, Service!Outcomes, Service!Answers
<1> QED BY <1>1, <1>2 DEF Service!TypeOK

(* The service's steps, written with Line and Outcome. *)
LEMMA StutterForm ==
    ASSUME \A k \in Keys : Line(k)' = Line(k),
           \A j \in Jobs : Outcome(j)' = Outcome(j)
    PROVE  UNCHANGED Service!vars
BY DEF Service!vars

(* The hand-over of a job. *)
LEMMA AcceptForm ==
    ASSUME NEW j \in Jobs, Outcome(j) = "new",
           \A k \in Keys : Line(k)' = IF k = KeyOf[j] THEN Append(Line(k), j) ELSE Line(k),
           \A m \in Jobs : Outcome(m)' = IF m = j THEN "accepted" ELSE Outcome(m)
    PROVE  Service!Accept(j)
BY KeyOfAssumption DEF Service!Accept

(* The refusal of a job. *)
LEMMA RefuseForm ==
    ASSUME NEW j \in Jobs, Outcome(j) = "new",
           \A k \in Keys : Line(k)' = Line(k),
           \A m \in Jobs : Outcome(m)' = IF m = j THEN "refused" ELSE Outcome(m)
    PROVE  Service!Refuse(j)
BY DEF Service!Refuse

(* The answer to the oldest job of a line. *)
LEMMA ResolveForm ==
    ASSUME NEW k \in Keys, NEW a \in {"ok", "error"}, NEW c \in Jobs,
           Line(k) # <<>>, Head(Line(k)) = c,
           \A l \in Keys : Line(l)' = IF l = k THEN Tail(Line(l)) ELSE Line(l),
           \A m \in Jobs : Outcome(m)' = IF m = c THEN a ELSE Outcome(m)
    PROVE  Service!Resolve(k, a)
BY DEF Service!Resolve

(* The end of a process image. *)
LEMMA ForgetForm ==
    ASSUME NEW gone \in SUBSET Jobs,
           \A j \in gone : Outcome(j) = "new",
           \A k \in Keys : Line(k)' = <<>>,
           \A m \in Jobs : Outcome(m)' = IF Outcome(m) = "accepted" \/ m \in gone
                                         THEN "lost" ELSE Outcome(m)
    PROVE  Service!Forget
<1>1. gone \in SUBSET {j \in Jobs : [m \in Jobs |-> Outcome(m)][j] = "new"}
  OBVIOUS
<1>2. [k \in Keys |-> Line(k)]' = [k \in Keys |-> <<>>]
  OBVIOUS
<1>3. [m \in Jobs |-> Outcome(m)]'
        = [j \in Jobs |-> IF [m \in Jobs |-> Outcome(m)][j] = "accepted" \/ j \in gone
                          THEN "lost" ELSE [m \in Jobs |-> Outcome(m)][j]]
  OBVIOUS
<1> QED BY <1>1, <1>2, <1>3 DEF Service!Forget

-----------------------------------------------------------------------------
(* Every step of the runner is a step of the service or a stutter. *)

(* The steps of callers.  Only Enqueue and Reject show: the job they concern
   was new, and becomes the last of its line or is refused. *)
LEMMA CallerSimulates ==
    ASSUME TypeOK, Coherent, NEW j \in Jobs,
           Submit(j) \/ Enqueue(j) \/ Reject(j) \/ Cancel(j)
    PROVE  Service!Next \/ UNCHANGED Service!vars
<1> USE DEF TypeOK
<1>0. KeyOf[j] \in Keys
  BY KeyOfAssumption
<1>1. CASE Submit(j)
  <2>1. \A k \in Keys : Line(k)' = Line(k)
    BY <1>1, <1>0 DEF Submit, Line, Holding
  <2>2. \A m \in Jobs : Outcome(m)' = Outcome(m)
    BY <1>1 DEF Submit, Outcome
  <2> QED BY <2>1, <2>2, StutterForm
<1>2. CASE Enqueue(j)
  <2>1. Outcome(j) = "new"
    BY <1>2 DEF Enqueue, Outcome, Coherent
  <2>2. ASSUME NEW k \in Keys
        PROVE  Line(k)' = IF k = KeyOf[j] THEN Append(Line(k), j) ELSE Line(k)
    <3>1. queue' = [queue EXCEPT ![KeyOf[j]] = Append(queue[KeyOf[j]], j)]
          /\ worker' = worker /\ cur' = cur
      BY <1>2 DEF Enqueue
    <3>2. CASE worker[k] \in Holding
      <4>1. cur[k] \in Jobs /\ queue[k] \in Seq(Jobs)
        BY <3>2 DEF Coherent
      <4>2. Line(k) = <<cur[k]>> \o queue[k] /\ Line(k)' = <<cur[k]>> \o queue'[k]
        BY <3>1, <3>2 DEF Line
      <4>3. queue'[k] = IF k = KeyOf[j] THEN Append(queue[k], j) ELSE queue[k]
        BY <3>1, <1>0
      <4> QED BY <4>1, <4>2, <4>3, LineShape
    <3>3. CASE worker[k] \notin Holding
      BY <3>1, <3>3, <1>0 DEF Line
    <3> QED BY <3>2, <3>3
  <2>3. \A m \in Jobs : Outcome(m)' = IF m = j THEN "accepted" ELSE Outcome(m)
    BY <1>2 DEF Enqueue, Outcome, Coherent
  <2>4. Service!Accept(j)
    BY <2>1, <2>2, <2>3, AcceptForm
  <2> QED BY <2>4 DEF Service!Next
<1>3. CASE Reject(j)
  <2>1. Outcome(j) = "new"
    BY <1>3 DEF Reject, Outcome, Coherent
  <2>2. \A k \in Keys : Line(k)' = Line(k)
    BY <1>3 DEF Reject, Line, runnerVars
  <2>3. \A m \in Jobs : Outcome(m)' = IF m = j THEN "refused" ELSE Outcome(m)
    BY <1>3 DEF Reject, Outcome, NoAnswer
  <2>4. Service!Refuse(j)
    BY <2>1, <2>2, <2>3, RefuseForm
  <2> QED BY <2>4 DEF Service!Next
<1>4. CASE Cancel(j)
  BY <1>4, StutterForm DEF Cancel, Line, Outcome, runnerVars
<1> QED BY <1>1, <1>2, <1>3, <1>4

(* The steps of a worker.  Only Send shows: it answers the head of the line. *)
LEMMA WorkerSimulates ==
    ASSUME TypeOK, Coherent, NEW k \in Keys,
           \/ Receive(k) \/ CountIn(k) \/ StartFails(k) \/ Start(k)
           \/ \E v \in {"ok", "error"} : Finish(k, v)
           \/ Send(k) \/ CountOut(k) \/ Check(k) \/ ReExecFails(k)
    PROVE  Service!Next \/ UNCHANGED Service!vars
<1> USE DEF TypeOK
<1>1. CASE Receive(k)
  <2>1. Head(queue[k]) \in Jobs /\ Tail(queue[k]) \in Seq(Jobs)
        /\ <<Head(queue[k])>> \o Tail(queue[k]) = queue[k]
    BY <1>1 DEF Receive
  <2>2. \A l \in Keys : Line(l)' = Line(l)
    BY <1>1, <2>1 DEF Receive, Line, Holding
  <2>3. \A m \in Jobs : Outcome(m)' = Outcome(m)
    BY <1>1 DEF Receive, Outcome, callerVars
  <2> QED BY <2>2, <2>3, StutterForm
<1>2. CASE Send(k)
  <2>1. worker[k] \in Holding /\ cur[k] \in Jobs /\ verdict[k] \in {"ok", "error"}
    BY <1>2 DEF Send, Coherent, Holding
  <2>2. Line(k) = <<cur[k]>> \o queue[k]
    BY <2>1 DEF Line
  <2>3. Line(k) # <<>> /\ Head(Line(k)) = cur[k] /\ Tail(Line(k)) = queue[k]
    BY <2>1, <2>2, LineShape
  <2>4. \A l \in Keys : Line(l)' = IF l = k THEN Tail(Line(l)) ELSE Line(l)
    <3>1. worker' = [worker EXCEPT ![k] = "leaving"] /\ queue' = queue
          /\ cur' = [cur EXCEPT ![k] = NoJob]
      BY <1>2 DEF Send
    <3>2. Line(k)' = queue[k]
      BY <3>1 DEF Line, Holding
    <3>3. \A l \in Keys \ {k} : Line(l)' = Line(l)
      BY <3>1 DEF Line
    <3> QED BY <3>2, <3>3, <2>3
  <2>5. \A m \in Jobs : Outcome(m)' = IF m = cur[k] THEN verdict[k] ELSE Outcome(m)
    BY <1>2, <2>1 DEF Send, Outcome, NoAnswer
  <2>6. ASSUME NEW c \in Jobs, NEW a \in {"ok", "error"}, c = cur[k], a = verdict[k]
        PROVE  Service!Resolve(k, a)
    BY <2>3, <2>4, <2>5, <2>6, ResolveForm
  <2>7. Service!Resolve(k, verdict[k])
    BY <2>1, <2>6
  <2> QED BY <2>1, <2>7 DEF Service!Next, Service!Answers
<1>3. CASE \/ CountIn(k) \/ StartFails(k) \/ Start(k)
           \/ \E v \in {"ok", "error"} : Finish(k, v)
           \/ CountOut(k) \/ Check(k) \/ ReExecFails(k)
  <2>1. /\ queue' = queue /\ cur' = cur /\ caller' = caller /\ answer' = answer
        /\ \A l \in Keys : worker'[l] \in Holding <=> worker[l] \in Holding
    BY <1>3 DEF CountIn, StartFails, Start, Finish, CountOut, Check, ReExecFails,
                callerVars, Holding
  <2>2. \A l \in Keys : Line(l)' = Line(l)
    BY <2>1 DEF Line
  <2>3. \A m \in Jobs : Outcome(m)' = Outcome(m)
    BY <2>1 DEF Outcome
  <2> QED BY <2>2, <2>3, StutterForm
<1> QED BY <1>1, <1>2, <1>3

(* A fresh image forgets: everything accepted is lost, and so is the job of a
   caller that was still submitting. *)
LEMMA FreshImageSimulates ==
    ASSUME TypeOK, Coherent, FreshImage
    PROVE  Service!Next
<1> USE DEF TypeOK
<1> DEFINE gone == {j \in Jobs : caller[j] = "submitting"}
<1>1. \A j \in gone : Outcome(j) = "new"
  BY DEF Outcome, Coherent
<1>2. \A k \in Keys : Line(k)' = <<>>
  BY DEF FreshImage, Line, Holding
<1>3. ASSUME NEW m \in Jobs
      PROVE  Outcome(m)' = IF Outcome(m) = "accepted" \/ m \in gone THEN "lost" ELSE Outcome(m)
  <2>1. answer'[m] = answer[m]
        /\ caller'[m] = IF Unanswered(m) THEN "gone" ELSE caller[m]
    BY DEF FreshImage
  <2> QED BY <2>1 DEF Outcome, Unanswered, Coherent, NoAnswer
<1>4. Service!Forget
  BY <1>1, <1>2, <1>3, ForgetForm
<1> QED BY <1>4 DEF Service!Next

(* All steps together. *)
LEMMA StepSimulates ==
    ASSUME TypeOK, Coherent, [Next]_vars
    PROVE  Service!Next \/ UNCHANGED Service!vars
<1>1. CASE FirstSigusr1 \/ Shutdown \/ UNCHANGED vars
  <2>1. UNCHANGED <<queue, worker, cur, caller, answer>>
    BY <1>1 DEF FirstSigusr1, Shutdown, vars, runnerVars, callerVars, processVars
  <2>2. \A l \in Keys : Line(l)' = Line(l)
    BY <2>1 DEF Line
  <2>3. \A m \in Jobs : Outcome(m)' = Outcome(m)
    BY <2>1 DEF Outcome
  <2> QED BY <2>2, <2>3, StutterForm
<1> QED BY <1>1, CallerSimulates, WorkerSimulates, FreshImageSimulates DEF Next, ReExec, Exit

-----------------------------------------------------------------------------
(* The inductive invariant: the values held at each program counter, and the
   service's exact lines.  Coherent alone is not inductive: that Send answers no
   job whose caller is still submitting follows from the exact lines, and those
   are kept because every step is a step of the service. *)
Sound == TypeOK /\ Coherent /\ Service!LinesAreExact

(* The service's lemma about its lines, for the runner. *)
LEMMA LinesKept ==
    ASSUME Service!TypeOK, Service!LinesAreExact, Service!Next \/ UNCHANGED Service!vars
    PROVE  Service!LinesAreExact'
<1>1. CASE Service!Next
  <2>1. Lines!TypeOK /\ Lines!LinesAreExact /\ Lines!Next
    BY <1>1 DEF Service!TypeOK, Service!LinesAreExact, Service!Next, Service!Accept,
                Service!Refuse, Service!Resolve, Service!Forget, Service!Outcomes,
                Service!Answers, Lines!TypeOK, Lines!LinesAreExact, Lines!Next,
                Lines!Accept, Lines!Refuse, Lines!Resolve, Lines!Forget,
                Lines!Outcomes, Lines!Answers
  <2>2. Lines!LinesAreExact'
    BY <2>1, KeyOfAssumption, Lines!LinesStep
  <2> QED BY <2>2 DEF Service!LinesAreExact, Lines!LinesAreExact
<1>2. CASE UNCHANGED Service!vars
  BY <1>2 DEF Service!vars, Service!LinesAreExact
<1> QED BY <1>1, <1>2

(* The exact lines in the runner's terms. *)
LEMMA LinesForm ==
    ASSUME Service!LinesAreExact, \A k \in Keys : Line(k) \in Seq(Jobs)
    PROVE  /\ \A k \in Keys : \A i \in 1 .. Len(Line(k)) :
                 Outcome(Line(k)[i]) = "accepted" /\ KeyOf[Line(k)[i]] = k
           /\ \A k \in Keys : \A i, n \in 1 .. Len(Line(k)) : Line(k)[i] = Line(k)[n] => i = n
           /\ \A j \in Jobs : Outcome(j) = "accepted" =>
                 \E i \in 1 .. Len(Line(KeyOf[j])) : Line(KeyOf[j])[i] = j
<1> DEFINE L == [k \in Keys |-> Line(k)]
           O == [j \in Jobs |-> Outcome(j)]
<1>1. /\ \A k \in Keys : \A i \in 1 .. Len(L[k]) : O[L[k][i]] = "accepted" /\ KeyOf[L[k][i]] = k
      /\ \A k \in Keys : \A i, n \in 1 .. Len(L[k]) : L[k][i] = L[k][n] => i = n
      /\ \A j \in Jobs : O[j] = "accepted" => \E i \in 1 .. Len(L[KeyOf[j]]) : L[KeyOf[j]][i] = j
  BY DEF Service!LinesAreExact
<1>2. (\A k \in Keys : L[k] = Line(k)) /\ (\A j \in Jobs : O[j] = Outcome(j) /\ KeyOf[j] \in Keys)
  BY KeyOfAssumption
<1>3. \A k \in Keys : \A i \in 1 .. Len(Line(k)) : Line(k)[i] \in Jobs
  OBVIOUS
<1> HIDE DEF L, O
<1> QED BY <1>1, <1>2, <1>3

(* Coherent is kept, given the exact lines. *)
LEMMA CoherentStep ==
    ASSUME Sound, [Next]_vars
    PROVE  Coherent'
<1> USE DEF TypeOK, Coherent, Sound
<1>1. ASSUME NEW j \in Jobs, Submit(j) \/ Enqueue(j) \/ Reject(j) \/ Cancel(j) PROVE Coherent'
  <2>0. KeyOf[j] \in Keys
    BY KeyOfAssumption
  <2>1. CASE Submit(j)
    BY <2>0, <2>1 DEF Submit, Holding
  <2>2. CASE Enqueue(j)
    BY <2>2 DEF Enqueue
  <2>3. CASE Reject(j)
    BY <2>3 DEF Reject, runnerVars
  <2>4. CASE Cancel(j)
    BY <2>4 DEF Cancel, runnerVars
  <2> QED BY <1>1, <2>1, <2>2, <2>3, <2>4
<1>2. ASSUME NEW k \in Keys, Receive(k) PROVE Coherent'
  <2>1. Head(queue[k]) \in Jobs
    BY <1>2 DEF Receive
  <2> QED BY <1>2, <2>1 DEF Receive, Holding, callerVars
<1>3. ASSUME NEW k \in Keys,
             \/ CountIn(k) \/ StartFails(k) \/ Start(k)
             \/ \E v \in {"ok", "error"} : Finish(k, v)
             \/ CountOut(k) \/ Check(k) \/ ReExecFails(k)
      PROVE  Coherent'
  BY <1>3 DEF CountIn, StartFails, Start, Finish, CountOut, Check, ReExecFails,
              Holding, callerVars
<1>4. ASSUME NEW k \in Keys, Send(k) PROVE Coherent'
  <2>1. PICK c \in Jobs : c = cur[k] /\ Line(k) = <<c>> \o queue[k]
    BY <1>4 DEF Send, Holding, Line
  <2>2. 1 \in 1 .. Len(Line(k)) /\ Line(k)[1] = c
    BY <2>1, LineShape
  <2>3. Outcome(c) = "accepted"
    BY <2>2, ServiceTyped, LinesForm
  <2>4. caller[c] = "waiting"
    BY <2>3 DEF Outcome
  <2> QED BY <1>4, <2>1, <2>4 DEF Send, Holding
<1>5. CASE FreshImage
  BY <1>5 DEF FreshImage, Holding, Unanswered
<1>6. CASE FirstSigusr1 \/ Shutdown \/ UNCHANGED vars
  BY <1>6 DEF FirstSigusr1, Shutdown, vars, runnerVars, callerVars
<1> QED BY <1>1, <1>2, <1>3, <1>4, <1>5, <1>6 DEF Next, ReExec, Exit

(* The inductive invariant holds always. *)
THEOREM SoundInvariant == Spec => []Sound
<1>1. Init => Coherent /\ Service!LinesAreExact /\ Service!Init
  <2> SUFFICES ASSUME Init PROVE Coherent /\ Service!LinesAreExact /\ Service!Init
    OBVIOUS
  <2>1. (\A k \in Keys : Line(k) = <<>>) /\ \A j \in Jobs : Outcome(j) = "new"
    BY DEF Init, Line, Outcome, Holding
  <2>2. Coherent
    BY DEF Init, Coherent, Holding
  <2> QED BY <2>1, <2>2 DEF Service!LinesAreExact, Service!Init
<1>2. Sound /\ [Next]_vars => (Coherent /\ Service!LinesAreExact)'
  BY CoherentStep, StepSimulates, ServiceTyped, LinesKept DEF Sound
<1> QED
  BY <1>1, <1>2, TypeCorrect, PTL DEF Spec, Sound

-----------------------------------------------------------------------------
(* The theorems about the runner *)

(* Nobody waits for a job the runner has dropped, and no job runs twice: an
   accepted job is at exactly one place, in the line of its own key. *)
THEOREM CallersAreOwedOnce == Spec => []OwedOnce
<1>1. Sound => OwedOnce
  <2> SUFFICES ASSUME Sound, NEW j \in Jobs, NEW k \in Keys
               PROVE  Cardinality({i \in 1 .. Len(Line(k)) : Line(k)[i] = j})
                        = IF Accepted(j) /\ k = KeyOf[j] THEN 1 ELSE 0
    BY DEF OwedOnce
  <2> DEFINE places == {i \in 1 .. Len(Line(k)) : Line(k)[i] = j}
  <2>1. TypeOK /\ \A l \in Keys : Line(l) \in Seq(Jobs)
    BY ServiceTyped DEF Sound
  <2>2. Accepted(j) <=> Outcome(j) = "accepted"
    BY <2>1 DEF Accepted, Outcome, TypeOK
  <2>3. CASE Accepted(j) /\ k = KeyOf[j]
    <3>1. PICK i \in 1 .. Len(Line(k)) : Line(k)[i] = j
      BY <2>1, <2>2, <2>3, LinesForm DEF Sound
    <3>2. \A n \in 1 .. Len(Line(k)) : Line(k)[n] = j => n = i
      BY <2>1, <3>1, LinesForm DEF Sound
    <3>3. places = {i}
      BY <3>1, <3>2
    <3> QED BY <2>3, <3>3, FS_Singleton
  <2>4. CASE ~(Accepted(j) /\ k = KeyOf[j])
    <3>1. places = {}
      BY <2>1, <2>2, <2>4, LinesForm DEF Sound
    <3> QED BY <2>4, <3>1, FS_EmptySet
  <2> QED BY <2>3, <2>4
<1> QED BY <1>1, SoundInvariant, PTL

(* The runner answers per key in order, each job at most once, under every
   interleaving with cancellations, signals and re-execs. *)
THEOREM RunnerIsAJobService == Spec => ImplementsJobService
<1>1. Init => Service!Init
  <2> SUFFICES ASSUME Init PROVE Service!Init
    OBVIOUS
  <2>1. (\A k \in Keys : Line(k) = <<>>) /\ \A j \in Jobs : Outcome(j) = "new"
    BY DEF Init, Line, Outcome, Holding
  <2> QED BY <2>1 DEF Service!Init
<1>2. Sound /\ [Next]_vars => [Service!Next]_(Service!vars)
  BY StepSimulates DEF Sound
<1> QED BY <1>1, <1>2, SoundInvariant, PTL DEF Spec, Service!Spec, ImplementsJobService

-----------------------------------------------------------------------------
(* The decision to restart                                                 *)

(* A worker that counts out goes on to the restart flag if and only if it is the
   last one, whatever the others do at the same time: "all jobs complete"
   (runner.go) is true when it is decided, and some worker does decide. *)
LastOneLooks ==
    [][\A k \in Keys : CountOut(k) =>
          (worker'[k] = "checking" <=> \A other \in Keys : worker'[other] \notin Counted)]_vars

LEMMA DecidedAtZero ==
    ASSUME TypeOK, ActiveJobsExact', NEW k \in Keys, CountOut(k)
    PROVE  worker'[k] = "checking" <=> \A other \in Keys : worker'[other] \notin Counted
<1> DEFINE Busy == {o \in Keys : worker[o] \in Counted}
<1>1. worker'[k] = "checking" <=> activeJobs' = 0
  BY DEF CountOut, TypeOK
<1>2. activeJobs' = Cardinality(Busy') /\ IsFiniteSet(Busy')
  BY KeysAssumption, FS_Subset DEF ActiveJobsExact
<1>3. activeJobs' = 0 <=> Busy' = {}
  BY <1>2, FS_EmptySet
<1> QED BY <1>1, <1>3

(* The decision is exact at every Add(-1): see LastOneLooks. *)
THEOREM RestartDecisionExact == Spec => LastOneLooks
<1>1. TypeOK /\ ActiveJobsExact' =>
         \A k \in Keys : CountOut(k) =>
            (worker'[k] = "checking" <=> \A other \in Keys : worker'[other] \notin Counted)
  BY DecidedAtZero
<1> QED BY <1>1, CounterExact, PTL DEF LastOneLooks

(* No worker counts itself in while another stands between its Add(-1) and the
   end of ReExec. *)
CountInsWait ==
    \A k \in Keys : CountIn(k) =>
        \A other \in Keys : worker[other] \notin {"checking", "reexec"}

DecisionStands ==
    \A k \in Keys : worker[k] \in {"checking", "reexec"} =>
        \A other \in Keys : worker[other] \notin Counted

LEMMA DecisionStep ==
    ASSUME TypeOK, ActiveJobsExact', DecisionStands, [Next]_vars, [CountInsWait]_vars
    PROVE  DecisionStands'
<1>1. CASE UNCHANGED worker
  BY <1>1 DEF DecisionStands
<1>2. ASSUME NEW k \in Keys, worker' = [worker EXCEPT ![k] = worker'[k]],
             worker'[k] \notin Counted \/ worker[k] \in Counted,
             worker'[k] \notin {"checking", "reexec"} \/ worker[k] \in {"checking", "reexec"}
      PROVE  DecisionStands'
  BY <1>2 DEF DecisionStands, TypeOK
<1>3. ASSUME NEW k \in Keys, CountIn(k) PROVE DecisionStands'
  <2>1. \A other \in Keys : worker[other] \notin {"checking", "reexec"}
    <3>1. vars' # vars
      <4>1. worker'[k] # worker[k]
        BY <1>3 DEF CountIn, TypeOK
      <4> QED BY <4>1 DEF vars, runnerVars
    <3> QED BY <1>3, <3>1 DEF CountInsWait
  <2> QED BY <1>3, <2>1 DEF CountIn, DecisionStands, TypeOK
<1>4. ASSUME NEW k \in Keys, CountOut(k) PROVE DecisionStands'
  <2>1. CASE worker'[k] = "checking"
    <3>1. \A other \in Keys : worker'[other] \notin Counted
      BY <1>4, <2>1, DecidedAtZero
    <3> QED BY <3>1 DEF DecisionStands
  <2>2. CASE worker'[k] # "checking"
    BY <1>2, <1>4, <2>2 DEF CountOut, Counted, TypeOK
  <2> QED BY <2>1, <2>2
<1>5. ASSUME NEW k \in Keys,
             \/ Receive(k) \/ StartFails(k) \/ Start(k) \/ Send(k) \/ Check(k) \/ ReExecFails(k)
             \/ \E v \in {"ok", "error"} : Finish(k, v)
      PROVE  DecisionStands'
  BY <1>2, <1>5 DEF Receive, StartFails, Start, Send, Check, ReExecFails, Finish, Counted, TypeOK
<1>6. ASSUME NEW j \in Jobs, Submit(j) PROVE DecisionStands'
  <2>1. PICK k \in Keys : k = KeyOf[j]
    BY KeyOfAssumption
  <2> QED BY <1>2, <1>6, <2>1 DEF Submit, Counted, TypeOK
<1>7. ASSUME NEW j \in Jobs, Enqueue(j) \/ Reject(j) \/ Cancel(j) PROVE DecisionStands'
  BY <1>1, <1>7 DEF Enqueue, Reject, Cancel, runnerVars
<1>8. CASE FreshImage
  BY <1>8 DEF FreshImage, DecisionStands
<1>9. CASE FirstSigusr1 \/ Shutdown
  BY <1>1, <1>9 DEF FirstSigusr1, Shutdown, runnerVars
<1>10. CASE UNCHANGED vars
  BY <1>1, <1>10 DEF vars, runnerVars
<1> QED BY <1>3, <1>4, <1>5, <1>6, <1>7, <1>8, <1>9, <1>10 DEF Next, ReExec, Exit

(* "after current jobs complete" (daemon.go): all that stands between the code
   and this promise is that runQueue counts a job in while another worker has
   decided to restart and not yet done so; see the run runner_reexec. *)
THEOREM NoCutOffIfCountInsWait ==
    Spec /\ [][CountInsWait]_vars => NoJobCutOffByReExec
<1>1. Init => DecisionStands
  BY DEF Init, DecisionStands
<1>2. TypeOK /\ ActiveJobsExact' /\ DecisionStands /\ [Next]_vars /\ [CountInsWait]_vars
         => DecisionStands'
  BY DecisionStep
<1>3. DecisionStands =>
         \A k \in Keys : ReExec(k) => \A other \in Keys : worker[other] \notin Counted
  BY DEF DecisionStands, ReExec
<1> QED BY <1>1, <1>2, <1>3, CounterExact, PTL DEF Spec, NoJobCutOffByReExec

-----------------------------------------------------------------------------
(* Every channel has its reader, and the reader gets on                    *)

(* Whoever is in Submit, and whatever is in a channel, has a runQueue to wait
   for. *)
HasReader ==
    /\ \A j \in Jobs : caller[j] = "submitting" => worker[KeyOf[j]] # "absent"
    /\ \A k \in Keys : queue[k] # <<>> => worker[k] # "absent"

Places ==
    [absent |-> 0, idle |-> 1, reexec |-> 2, checking |-> 3, leaving |-> 4,
     sending |-> 5, running |-> 6, starting |-> 7, got |-> 8]

(* How many steps runQueue of key k has left for what it was given. *)
Work(k) == 8 * Len(queue[k]) + Places[worker[k]]

MakesWork(k) == \E j \in Jobs : KeyOf[j] = k /\ (Submit(j) \/ Enqueue(j))

WorkersGetOn ==
    \A k \in Keys : /\ WorkerStep(k) => Work(k)' < Work(k)
                    /\ ~MakesWork(k) => Work(k)' <= Work(k)

LEMMA ReaderStep ==
    ASSUME TypeOK, Coherent, HasReader, [Next]_vars
    PROVE  HasReader'
<1>1. ASSUME NEW j \in Jobs, Submit(j) PROVE HasReader'
  <2>1. PICK k \in Keys : k = KeyOf[j]
    BY KeyOfAssumption
  <2>2. /\ caller' = [caller EXCEPT ![j] = "submitting"] /\ UNCHANGED queue
        /\ worker' = [worker EXCEPT ![k] = IF @ = "absent" THEN "idle" ELSE @]
    BY <1>1, <2>1 DEF Submit
  <2>3. worker'[k] # "absent" /\ \A o \in Keys : worker[o] # "absent" => worker'[o] # "absent"
    BY <2>2 DEF TypeOK
  <2> QED BY <2>1, <2>2, <2>3, KeyOfAssumption DEF HasReader, TypeOK
<1>2. ASSUME NEW j \in Jobs, Enqueue(j) PROVE HasReader'
  <2>1. PICK k \in Keys : k = KeyOf[j]
    BY KeyOfAssumption
  <2>2. /\ worker[k] # "absent" /\ UNCHANGED worker
        /\ caller' = [caller EXCEPT ![j] = "waiting"]
        /\ \A o \in Keys \ {k} : queue'[o] = queue[o]
    BY <1>2, <2>1 DEF Enqueue, HasReader, TypeOK
  <2> QED BY <2>1, <2>2, KeyOfAssumption DEF HasReader, TypeOK
<1>3. ASSUME UNCHANGED queue, \A k \in Keys : worker[k] # "absent" => worker'[k] # "absent",
             \A j \in Jobs : caller'[j] = "submitting" => caller[j] = "submitting"
      PROVE  HasReader'
  BY <1>3, KeyOfAssumption DEF HasReader
<1>4. ASSUME NEW k \in Keys, Receive(k) PROVE HasReader'
  <2>1. /\ UNCHANGED caller /\ \A o \in Keys \ {k} : queue'[o] = queue[o] /\ worker'[o] = worker[o]
        /\ worker'[k] = "got"
    BY <1>4 DEF Receive, callerVars, TypeOK
  <2> QED BY <2>1, KeyOfAssumption DEF HasReader
<1>5. ASSUME NEW k \in Keys,
             \/ CountIn(k) \/ StartFails(k) \/ Start(k) \/ \E v \in {"ok", "error"} : Finish(k, v)
             \/ Send(k) \/ CountOut(k) \/ Check(k) \/ ReExecFails(k)
      PROVE  HasReader'
  BY <1>3, <1>5
  DEF CountIn, StartFails, Start, Finish, Send, CountOut, Check, ReExecFails, callerVars, TypeOK
<1>6. ASSUME NEW j \in Jobs, Reject(j) \/ Cancel(j) PROVE HasReader'
  BY <1>3, <1>6 DEF Reject, Cancel, runnerVars, TypeOK
<1>7. CASE FreshImage
  <2>1. \A j \in Jobs : caller[j] = "submitting" => Unanswered(j)
    BY DEF Coherent, Unanswered
  <2>2. \A j \in Jobs : caller'[j] # "submitting"
    BY <1>7, <2>1 DEF FreshImage
  <2> QED BY <1>7, <2>2 DEF FreshImage, HasReader
<1>8. CASE FirstSigusr1 \/ Shutdown \/ UNCHANGED vars
  BY <1>3, <1>8 DEF FirstSigusr1, Shutdown, vars, runnerVars, callerVars
<1> QED BY <1>1, <1>2, <1>4, <1>5, <1>6, <1>7, <1>8 DEF Next, ReExec, Exit

(* Nobody waits on a queue that no goroutine reads: whoever is in Submit, or waits
   for an answer, has the runQueue of its key at work, in every process image
   (getOrCreateQueue starts it on first use, and nothing but the end of the
   process ends it). *)
THEOREM CallersHaveAWorker ==
    Spec => [](\A j \in Jobs : Unanswered(j) => worker[KeyOf[j]] # "absent")
<1>1. Init => HasReader
  BY DEF Init, HasReader
<1>2. TypeOK /\ Coherent /\ HasReader /\ [Next]_vars => HasReader'
  BY ReaderStep
<1>3. Sound /\ HasReader => \A j \in Jobs : Unanswered(j) => worker[KeyOf[j]] # "absent"
  <2> SUFFICES ASSUME Sound, HasReader, NEW j \in Jobs, Unanswered(j)
               PROVE  worker[KeyOf[j]] # "absent"
    OBVIOUS
  <2>1. CASE caller[j] = "submitting"
    BY <2>1 DEF HasReader
  <2>2. CASE caller[j] = "waiting"
    <3>1. PICK k \in Keys : k = KeyOf[j]
      BY KeyOfAssumption
    <3>2. Outcome(j) = "accepted"
      BY <2>2 DEF Unanswered, Outcome
    <3>3. PICK i \in 1 .. Len(Line(k)) : Line(k)[i] = j
      BY <3>1, <3>2 DEF Sound, Service!LinesAreExact
    <3>4. CASE worker[k] \in Holding
      BY <3>1, <3>4 DEF Holding
    <3>5. CASE worker[k] \notin Holding
      <4>1. queue[k] # <<>>
        BY <3>3, <3>5 DEF Line
      <4> QED BY <3>1, <4>1 DEF HasReader
    <3> QED BY <3>4, <3>5
  <2> QED BY <2>1, <2>2 DEF Unanswered
<1>4. Sound => TypeOK /\ Coherent
  BY DEF Sound
<1> QED BY <1>1, <1>2, <1>3, <1>4, SoundInvariant, PTL DEF Spec

LEMMA WorkStep ==
    ASSUME TypeOK, [Next]_vars
    PROVE  WorkersGetOn
<1> SUFFICES ASSUME NEW k \in Keys
             PROVE  /\ WorkerStep(k) => Work(k)' < Work(k)
                    /\ ~MakesWork(k) => Work(k)' <= Work(k)
  BY DEF WorkersGetOn
<1>1. queue[k] \in Seq(Jobs) /\ Len(queue[k]) \in Nat /\ worker[k] \in WorkerStates
  BY DEF TypeOK
<1>2. Places[worker[k]] \in 0 .. 8
  BY <1>1 DEF WorkerStates, Places
<1>3. ASSUME Receive(k) PROVE Work(k)' < Work(k) /\ Work(k)' <= Work(k)
  <2>1. Len(queue[k]) > 0 /\ Len(queue'[k]) = Len(queue[k]) - 1
    BY <1>1, <1>3 DEF Receive, TypeOK
  <2>2. Places[worker[k]] = 1 /\ Places[worker'[k]] = 8
    BY <1>3 DEF Receive, TypeOK, Places
  <2> QED BY <1>1, <2>1, <2>2 DEF Work
<1>4. ASSUME \/ CountIn(k) \/ StartFails(k) \/ Start(k) \/ \E v \in {"ok", "error"} : Finish(k, v)
             \/ Send(k) \/ CountOut(k) \/ Check(k) \/ ReExecFails(k)
      PROVE  Work(k)' < Work(k) /\ Work(k)' <= Work(k)
  <2>1. UNCHANGED queue
    BY <1>4 DEF CountIn, StartFails, Start, Finish, Send, CountOut, Check, ReExecFails
  <2>2. \/ worker[k] = "got" /\ worker'[k] = "starting"
        \/ worker[k] = "starting" /\ worker'[k] \in {"sending", "running"}
        \/ worker[k] = "running" /\ worker'[k] = "sending"
        \/ worker[k] = "sending" /\ worker'[k] = "leaving"
        \/ worker[k] = "leaving" /\ worker'[k] \in {"checking", "idle"}
        \/ worker[k] = "checking" /\ worker'[k] \in {"reexec", "idle"}
        \/ worker[k] = "reexec" /\ worker'[k] = "idle"
    BY <1>4 DEF CountIn, StartFails, Start, Finish, Send, CountOut, Check, ReExecFails, TypeOK
  <2>3. Places[worker'[k]] < Places[worker[k]] /\ Places[worker'[k]] \in 0 .. 8
    BY <2>2 DEF Places
  <2>4. Work(k)' = 8 * Len(queue[k]) + Places[worker'[k]]
    BY <2>1 DEF Work, Places
  <2>5. Work(k) = 8 * Len(queue[k]) + Places[worker[k]]
    BY DEF Work
  <2>6. \A n \in Nat : 8 * n + Places[worker'[k]] < 8 * n + Places[worker[k]]
    BY <1>2, <2>3
  <2>7. Work(k)' < Work(k)
    <3>1. 8 * Len(queue[k]) + Places[worker'[k]] < 8 * Len(queue[k]) + Places[worker[k]]
      BY <1>1, <2>6, Zenon
    <3>2. 8 * Len(queue'[k]) + Places[worker'[k]] < 8 * Len(queue[k]) + Places[worker[k]]
      BY <2>1, <3>1, Zenon
    <3> QED BY <3>2 DEF Work, Places
  <2>8. 8 * Len(queue[k]) + Places[worker[k]] \in Nat
    BY <1>1, <1>2
  <2>9. 8 * Len(queue[k]) + Places[worker'[k]] \in Nat
    BY <1>1, <2>3
  <2>10. \A a, b \in Nat : a < b => a <= b
    OBVIOUS
  <2> QED BY <2>4, <2>5, <2>7, <2>8, <2>9, <2>10
<1>5. ASSUME FreshImage PROVE Work(k)' = 0
  BY <1>5 DEF FreshImage, Work, Places
<1>6. ASSUME queue'[k] = queue[k], worker'[k] = worker[k] PROVE Work(k)' = Work(k)
  BY <1>6 DEF Work
<1>7. ASSUME ~WorkerStep(k), ~MakesWork(k), ~FreshImage
      PROVE  queue'[k] = queue[k] /\ worker'[k] = worker[k]
  <2>1. ASSUME NEW j \in Jobs, Submit(j) \/ Enqueue(j) \/ Reject(j) \/ Cancel(j)
        PROVE  queue'[k] = queue[k] /\ worker'[k] = worker[k]
    <3>1. CASE Reject(j) \/ Cancel(j)
      BY <3>1 DEF Reject, Cancel, runnerVars
    <3>2. CASE Submit(j) \/ Enqueue(j)
      <4>1. PICK o \in Keys : o = KeyOf[j]
        BY KeyOfAssumption
      <4>2. o # k
        BY <1>7, <3>2, <4>1 DEF MakesWork
      <4> QED BY <3>2, <4>1, <4>2 DEF Submit, Enqueue, TypeOK
    <3> QED BY <2>1, <3>1, <3>2
  <2>2. ASSUME NEW o \in Keys, WorkerStep(o)
        PROVE  queue'[k] = queue[k] /\ worker'[k] = worker[k]
    <3>1. o # k /\ ~ReExec(o)
      BY <1>7, <2>2 DEF ReExec
    <3> QED BY <2>2, <3>1 DEF WorkerStep, Receive, CountIn, StartFails, Start, Finish, Send,
                              CountOut, Check, ReExecFails, TypeOK
  <2>3. CASE FirstSigusr1 \/ Shutdown \/ UNCHANGED vars
    BY <2>3 DEF FirstSigusr1, Shutdown, vars, runnerVars
  <2> QED BY <1>7, <2>1, <2>2, <2>3 DEF Next, WorkerStep, Exit
<1>8. WorkerStep(k) => Work(k)' < Work(k)
  <2>1. ASSUME ReExec(k) PROVE Work(k)' < Work(k)
    <3>1. Places[worker[k]] = 2 /\ Work(k)' = 0
      BY <1>5, <2>1 DEF ReExec, Places
    <3> QED BY <1>1, <3>1 DEF Work
  <2> QED BY <1>3, <1>4, <2>1 DEF WorkerStep
<1>9. Work(k) \in Nat
  BY <1>1, <1>2 DEF Work
<1>10. ASSUME ~MakesWork(k) PROVE Work(k)' <= Work(k)
  <2>1. CASE FreshImage
    BY <1>5, <1>9, <2>1
  <2>2. CASE WorkerStep(k) /\ ~FreshImage
    BY <1>3, <1>4, <2>2 DEF WorkerStep, ReExec
  <2>3. CASE ~WorkerStep(k) /\ ~FreshImage
    BY <1>6, <1>7, <1>9, <1>10, <2>3
  <2> QED BY <2>1, <2>2, <2>3
<1> QED BY <1>8, <1>10

(* The half of EverySubmissionSettles that needs no fairness: runQueue takes at
   most 8 steps for each job it is given, and only a submission to its own key
   gives it more - no cancellation, signal, restart or other worker does. *)
THEOREM WorkIsFinite == Spec => [][WorkersGetOn]_vars
<1>1. TypeOK /\ [Next]_vars => WorkersGetOn
  BY WorkStep
<1> QED BY <1>1, CounterExact, PTL DEF Spec
===============================================================================

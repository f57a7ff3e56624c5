-------------------------- MODULE SessionLife_proofs --------------------------
(***************************************************************************)
(* Theorems about SessionLife, for any set of session IDs, any interval    *)
(* and any number of jobs in flight.                                       *)
(***************************************************************************)
EXTENDS SessionReset, TLAPS, FiniteSetTheorems, FunctionTheorems

(* What a step that is not about a group of variables leaves alone. *)
USE DEF vars, storeVars, workVars, afterVars, history

-----------------------------------------------------------------------------
(* Types *)

(* The initial state is well typed. *)
LEMMA TypeInit == Init => TypeOK
<1> SUFFICES ASSUME Init PROVE TypeOK
  OBVIOUS
<1>1. ok \in BOOLEAN /\ summarizeActive \in BOOLEAN /\ overlap \in BOOLEAN
  BY Zenon DEF Init
<1>2. /\ step \in Steps /\ job \in Kinds /\ line \in Seq(Kinds)
      /\ clearer \in [Clearers -> {"off", "waiting", "delete", "remove", "release"}]
  BY DEF Init, Steps, Kinds
<1>3. /\ cache \in SomeSession /\ file \in SomeSession /\ sid \in SomeSession
      /\ seen \in SomeSession /\ newSid \in SomeSession /\ expected \in SomeSession
      /\ replied \in Nat /\ checking \in Nat /\ updated \in Nat /\ completions \in Nat
  BY DEF Init, SomeSession
<1> QED BY ONLY <1>1, <1>2, <1>3 DEF TypeOK

(* Every step keeps the types. *)
LEMMA TypeStep == TypeOK /\ [Next]_vars => TypeOK'
<1> SUFFICES ASSUME TypeOK, [Next]_vars PROVE TypeOK'
  OBVIOUS
<1> USE DEF TypeOK, SomeSession, Steps, Kinds, Clearers
<1>1. CASE UserJob
  BY <1>1 DEF UserJob
<1>2. CASE Begin
  <2>1. Head(line) \in Kinds /\ Tail(line) \in Seq(Kinds)
    BY <1>2 DEF Begin
  <2> QED BY <1>2, <2>1 DEF Begin
<1>3. CASE GetCached \/ Load \/ Fill \/ TouchRead \/ TouchWrite
  BY <1>3 DEF GetCached, Load, Fill, TouchRead, TouchWrite
<1>4. ASSUME NEW s \in SomeSession, ClaudeSucceeds(s) PROVE TypeOK'
  BY <1>4 DEF ClaudeSucceeds
<1>5. CASE ClaudeFails \/ SetCache \/ Save
  BY <1>5 DEF ClaudeFails, SetCache, Save
<1>6. CASE Answer
  BY <1>6 DEF Answer
<1>7. CASE UpdateMemory
  <2>1. replied' \in Nat /\ checking' \in Nat
    BY <1>7 DEF UpdateMemory
  <2>2. completions' \in Nat
    BY <1>7, IntervalAssumption DEF UpdateMemory
  <2>3. line' \in Seq(Kinds)
    BY <1>7 DEF UpdateMemory
  <2> QED BY <1>7, <2>1, <2>2, <2>3 DEF UpdateMemory
<1>8. ASSUME NEW b \in BOOLEAN, CompressMemory(b) \/ SkipSummary(b) \/ Summarize(b)
      PROVE TypeOK'
  <2>1. CASE CompressMemory(b)
    <3>1. line' \in Seq(Kinds) /\ updated' \in Nat
      BY <2>1 DEF CompressMemory
    <3> QED BY <2>1, <3>1 DEF CompressMemory
  <2>2. CASE SkipSummary(b)
    BY <2>2 DEF SkipSummary
  <2>3. CASE Summarize(b)
    <3>1. summarizeActive' \in BOOLEAN
      BY <2>3, Zenon DEF Summarize
    <3>2. /\ checking' \in Nat /\ line' \in Seq(Kinds)
          /\ clearer' \in [Clearers -> {"off", "waiting", "delete", "remove", "release"}]
      BY <2>3 DEF Summarize
    <3> QED BY <2>3, <3>1, <3>2 DEF Summarize
  <2> QED BY <1>8, <2>1, <2>2, <2>3
<1>9. CASE ReleaseSummary
  <2>1. summarizeActive' \in BOOLEAN
    BY <1>9, Zenon DEF ReleaseSummary
  <2> QED BY <1>9, <2>1 DEF ReleaseSummary
<1>10. ASSUME NEW c \in Clearers, ClearCache(c) \/ RemoveFile(c) PROVE TypeOK'
  <2>1. Executing \in BOOLEAN
    BY DEF Executing
  <2> QED BY <1>10, <2>1 DEF ClearCache, RemoveFile
<1>11. CASE Restart
  <2>1. ok' \in BOOLEAN /\ summarizeActive' \in BOOLEAN /\ overlap' \in BOOLEAN
    BY <1>11, Zenon DEF Restart, Clearing
  <2>2. /\ step' \in Steps /\ job' \in Kinds /\ line' \in Seq(Kinds)
        /\ clearer' \in [Clearers -> {"off", "waiting", "delete", "remove", "release"}]
    BY <1>11 DEF Restart
  <2>3. /\ cache' \in SomeSession /\ file' \in SomeSession /\ sid' \in SomeSession
        /\ seen' \in SomeSession /\ newSid' \in SomeSession /\ expected' \in SomeSession
        /\ replied' \in Nat /\ checking' \in Nat /\ updated' \in Nat /\ completions' \in Nat
    BY <1>11 DEF Restart
  <2> QED BY ONLY <2>1, <2>2, <2>3 DEF TypeOK
<1>12. CASE UNCHANGED vars
  BY <1>12
<1> QED
  BY <1>1, <1>2, <1>3, <1>4, <1>5, <1>6, <1>7, <1>8, <1>9, <1>10, <1>11, <1>12
  DEF Next, WorkerStep, FollowUp, SummaryStep

(* The state of a topic's session keeps its types: session.go, runner.go's
   execute and the housekeeping of dispatcher.go. *)
THEOREM TypeCorrect == Spec => []TypeOK
  BY TypeInit, TypeStep, PTL DEF Spec
-----------------------------------------------------------------------------
(* The summary and its mark *)

Places == {i \in DOMAIN line : line[i] = "summarize"}
SummaryRuns == Executing /\ job = "summarize"

(* The mark is up exactly while a summary's goroutine is there, and while that
   one waits its job is either the only one in the line or being executed. *)
OneSummary ==
    /\ summarizeActive <=> clearer["summary"] # "off"
    /\ IF clearer["summary"] = "waiting"
       THEN IF SummaryRuns THEN Places = {} ELSE \E p \in DOMAIN line : Places = {p}
       ELSE ~SummaryRuns /\ Places = {}

(* Appending a job that is no summary leaves the summaries where they are. *)
LEMMA AppendOther ==
    ASSUME NEW s \in Seq(Kinds), NEW kind \in Kinds \ {"summarize"}
    PROVE  {i \in DOMAIN Append(s, kind) : Append(s, kind)[i] = "summarize"}
               = {i \in DOMAIN s : s[i] = "summarize"}
<1> DEFINE a == Append(s, kind)
<1>1. /\ Len(s) \in Nat /\ DOMAIN s = 1 .. Len(s) /\ DOMAIN a = 1 .. Len(s) + 1
      /\ \A i \in 1 .. Len(s) : a[i] = s[i]
      /\ a[Len(s) + 1] = kind
  OBVIOUS
<1>2. \A i \in 1 .. Len(s) + 1 : i \in 1 .. Len(s) \/ i = Len(s) + 1
  BY <1>1
<1> HIDE DEF a
<1>3. {i \in DOMAIN a : a[i] = "summarize"} = {i \in DOMAIN s : s[i] = "summarize"}
  BY <1>1, <1>2
<1> QED BY <1>3 DEF a

(* A summary appended to a line without one is at its end. *)
LEMMA AppendSummary ==
    ASSUME NEW s \in Seq(Kinds), {i \in DOMAIN s : s[i] = "summarize"} = {}
    PROVE  /\ {i \in DOMAIN Append(s, "summarize") : Append(s, "summarize")[i] = "summarize"}
                  = {Len(s) + 1}
           /\ Len(s) + 1 \in DOMAIN Append(s, "summarize")
<1> DEFINE a == Append(s, "summarize")
<1>1. /\ Len(s) \in Nat /\ DOMAIN s = 1 .. Len(s) /\ DOMAIN a = 1 .. Len(s) + 1
      /\ \A i \in 1 .. Len(s) : a[i] = s[i]
      /\ a[Len(s) + 1] = "summarize"
  BY DEF Kinds
<1>2. \A i \in 1 .. Len(s) + 1 : i \in 1 .. Len(s) \/ i = Len(s) + 1
  BY <1>1
<1>3. \A i \in 1 .. Len(s) : s[i] # "summarize"
  BY <1>1
<1> HIDE DEF a
<1>4. {i \in DOMAIN a : a[i] = "summarize"} = {Len(s) + 1}
  BY <1>1, <1>2, <1>3
<1> QED BY <1>1, <1>4 DEF a

(* Taking the first job out of the line moves the others up by one. *)
LEMMA TailShifts ==
    ASSUME NEW s \in Seq(Kinds), s # <<>>
    PROVE  {i \in DOMAIN Tail(s) : Tail(s)[i] = "summarize"}
               = {i \in 1 .. Len(s) - 1 : s[i + 1] = "summarize"}
<1>1. /\ Len(s) \in Nat /\ DOMAIN Tail(s) = 1 .. Len(s) - 1
      /\ \A i \in 1 .. Len(s) - 1 : Tail(s)[i] = s[i + 1]
  OBVIOUS
<1> QED BY <1>1

(* No summary is under way at first ... *)
LEMMA SummaryInit == Init => OneSummary
  BY DEF Init, OneSummary, SummaryRuns, Places, Executing, Clearers

(* ... and the mark keeps a second one out. *)
LEMMA SummaryStays == TypeOK /\ OneSummary /\ [Next]_vars => OneSummary'
<1> SUFFICES ASSUME TypeOK, OneSummary, [Next]_vars PROVE OneSummary'
  OBVIOUS
<1> USE DEF OneSummary, SummaryRuns, Places, Executing
<1>t. /\ line \in Seq(Kinds) /\ job \in Kinds /\ step \in Steps
      /\ clearer \in [Clearers -> {"off", "waiting", "delete", "remove", "release"}]
  BY DEF TypeOK
<1>1. CASE UserJob
  BY <1>1, <1>t, AppendOther DEF UserJob, Kinds
<1>2. CASE Begin
  <2>1. /\ line # <<>> /\ line' = Tail(line) /\ job' = Head(line) /\ step = "idle"
        /\ step' = "get" /\ UNCHANGED <<clearer, summarizeActive>>
    BY <1>2 DEF Begin
  <2>2. /\ Len(line) \in Nat \ {0} /\ DOMAIN line = 1 .. Len(line) /\ Head(line) = line[1]
        /\ DOMAIN Tail(line) = 1 .. Len(line) - 1
    BY <2>1, <1>t
  <2>3. Places' = {i \in 1 .. Len(line) - 1 : line[i + 1] = "summarize"}
    BY <2>1, <1>t, TailShifts
  <2>4. CASE clearer["summary"] = "waiting"
    <3>1. PICK p \in DOMAIN line : Places = {p}
      BY <2>1, <2>4
    <3>2. CASE p = 1
      <4>1. Head(line) = "summarize" /\ Places' = {}
        BY <2>2, <2>3, <3>1, <3>2
      <4> QED BY <2>1, <2>4, <4>1
    <3>3. CASE p # 1
      <4>1. Head(line) # "summarize" /\ Places' = {p - 1} /\ p - 1 \in 1 .. Len(line) - 1
        BY <2>2, <2>3, <3>1, <3>3
      <4> QED BY <2>1, <2>2, <2>4, <4>1
    <3> QED BY <3>2, <3>3
  <2>5. CASE clearer["summary"] # "waiting"
    <3>1. Places = {}
      BY <2>1, <2>5
    <3>2. Places' = {} /\ Head(line) # "summarize"
      BY <2>2, <2>3, <3>1
    <3> QED BY <2>1, <2>5, <3>2
  <2> QED BY <2>4, <2>5
<1>3. CASE GetCached \/ Load \/ Fill \/ TouchRead \/ TouchWrite
  BY <1>3 DEF GetCached, Load, Fill, TouchRead, TouchWrite
<1>4. ASSUME NEW s \in SomeSession, ClaudeSucceeds(s) PROVE OneSummary'
  BY <1>4 DEF ClaudeSucceeds
<1>5. CASE ClaudeFails \/ SetCache \/ Save
  BY <1>5 DEF ClaudeFails, SetCache, Save
<1>6. CASE Answer
  BY <1>6, <1>t DEF Answer, Clearers
<1>7. CASE UpdateMemory
  <2>1. line' = line \/ line' = Append(line, "update")
    BY <1>7 DEF UpdateMemory
  <2>2. Places' = Places /\ DOMAIN line \subseteq DOMAIN line'
    BY ONLY <2>1, <1>t, AppendOther DEF Kinds, Places
  <2> QED BY <1>7, <2>2 DEF UpdateMemory
<1>8. ASSUME NEW b \in BOOLEAN, CompressMemory(b) PROVE OneSummary'
  <2>1. Places' = Places /\ DOMAIN line \subseteq DOMAIN line'
    BY <1>8, <1>t, AppendOther DEF CompressMemory, Kinds
  <2> QED BY <1>8, <2>1 DEF CompressMemory
<1>9. ASSUME NEW b \in BOOLEAN, SkipSummary(b) PROVE OneSummary'
  BY <1>9 DEF SkipSummary
<1>10. ASSUME NEW b \in BOOLEAN, Summarize(b) PROVE OneSummary'
  BY <1>10, <1>t, AppendSummary DEF Summarize, Clearers
<1>11. CASE ReleaseSummary
  BY <1>11, <1>t DEF ReleaseSummary, Clearers
<1>12. ASSUME NEW c \in Clearers, ClearCache(c) \/ RemoveFile(c) PROVE OneSummary'
  BY <1>12, <1>t DEF ClearCache, RemoveFile, Clearers
<1>13. CASE Restart
  BY <1>13 DEF Restart, Clearers
<1>14. CASE UNCHANGED vars
  BY <1>14
<1> QED
  BY ONLY [Next]_vars, <1>1, <1>2, <1>3, <1>4, <1>5, <1>6, <1>7, <1>8, <1>9, <1>10, <1>11,
          <1>12, <1>13, <1>14
  DEF Next, WorkerStep, FollowUp, SummaryStep, Clearers

(* At most one summary is waiting, executing or about to clear the session:
   summarizeActive keeps maybeSummarizeSession from starting a second one. *)
THEOREM SummariesAreSingle == Spec => []OneSummaryAtATime
<1>1. TypeOK /\ OneSummary => OneSummaryAtATime
  <2> SUFFICES ASSUME TypeOK, OneSummary PROVE OneSummaryAtATime
    OBVIOUS
  <2>1. /\ Places = {} \/ \E p \in DOMAIN line : Places = {p}
        /\ SummaryRuns => Places = {}
        /\ clearer["summary"] # "waiting" => ~SummaryRuns /\ Places = {}
    BY Zenon DEF OneSummary
  <2>2. Cardinality({}) = 0 /\ \A p : Cardinality({p}) = 1
    BY FS_EmptySet, FS_Singleton
  <2>3. Cardinality(Places) \in {0, 1} /\ (SummaryRuns => Cardinality(Places) = 0)
    BY <2>1, <2>2
  <2>4. clearer["summary"] \in {"delete", "remove"} => ~SummaryRuns /\ Cardinality(Places) = 0
    BY <2>1, <2>2
  <2> QED BY <2>3, <2>4 DEF OneSummaryAtATime, Summaries, SummaryRuns, Places
<1> QED BY <1>1, TypeInit, TypeStep, SummaryInit, SummaryStays, PTL DEF Spec

-----------------------------------------------------------------------------
(* The store *)

(* What the cache and the file hold while no Clear has overlapped with a job.
   A Clear in progress has the store to itself; otherwise the file holds the
   session of the last job, the cache holds nothing else (but for the moment
   between the two writes of Set), and a job that has looked the session up has
   found just that one. *)
StoreSound ==
    ~overlap =>
        IF Clearing
        THEN ~Executing /\ cache = NoSession /\ expected = NoSession
        ELSE /\ file = expected
             /\ step # "save" => cache \in {NoSession, expected}
             /\ step = "save" => cache = newSid
             /\ step \in {"fill", "touch", "rewrite", "claude"} => sid = expected
             /\ step = "rewrite" => seen = expected

(* It holds of the empty store ... *)
LEMMA StoreInit == Init => StoreSound
  BY DEF Init, StoreSound, Clearing, Executing, Clearers

(* ... and every step keeps it, those of a restart between any two writes
   included. *)
LEMMA StoreStays == TypeOK /\ OneSummary /\ StoreSound /\ [Next]_vars => StoreSound'
<1> SUFFICES ASSUME TypeOK, OneSummary, StoreSound, [Next]_vars PROVE StoreSound'
  OBVIOUS
<1> USE DEF StoreSound, Clearing, Executing
<1>t. /\ step \in Steps
      /\ clearer \in [Clearers -> {"off", "waiting", "delete", "remove", "release"}]
      /\ clearer["summary"] = "remove" => summarizeActive
  BY DEF TypeOK, OneSummary
<1>1. CASE UserJob
  BY <1>1 DEF UserJob
<1>2. CASE Begin
  BY <1>2 DEF Begin
<1>3. CASE GetCached
  BY <1>3 DEF GetCached
<1>4. CASE Load
  BY <1>4 DEF Load
<1>5. CASE Fill \/ TouchRead \/ TouchWrite
  BY <1>5 DEF Fill, TouchRead, TouchWrite
<1>6. ASSUME NEW s \in SomeSession, ClaudeSucceeds(s) PROVE StoreSound'
  BY <1>6 DEF ClaudeSucceeds
<1>7. CASE ClaudeFails \/ SetCache \/ Save
  BY <1>7 DEF ClaudeFails, SetCache, Save
<1>8. CASE Answer
  BY <1>8, <1>t DEF Answer, Clearers
<1>9. CASE UpdateMemory
  BY <1>9 DEF UpdateMemory
<1>10. ASSUME NEW b \in BOOLEAN, CompressMemory(b) \/ SkipSummary(b) PROVE StoreSound'
  BY <1>10 DEF CompressMemory, SkipSummary
<1>11. ASSUME NEW b \in BOOLEAN, Summarize(b) PROVE StoreSound'
  BY <1>11, <1>t DEF Summarize, Clearers
<1>12. CASE ReleaseSummary
  BY <1>12, <1>t DEF ReleaseSummary, Clearers
<1>13. ASSUME NEW c \in Clearers, ClearCache(c) PROVE StoreSound'
  BY <1>13, <1>t DEF ClearCache, Clearers
<1>14. ASSUME NEW c \in Clearers, RemoveFile(c) PROVE StoreSound'
  BY <1>14, <1>t DEF RemoveFile, Clearers
<1>15. CASE Restart
  BY <1>15, <1>t DEF Restart, Clearers
<1>16. CASE UNCHANGED vars
  BY <1>16
<1> QED
  BY ONLY [Next]_vars, <1>1, <1>2, <1>3, <1>4, <1>5, <1>6, <1>7, <1>8, <1>9, <1>10, <1>11,
          <1>12, <1>13, <1>14, <1>15, <1>16
  DEF Next, WorkerStep, FollowUp, SummaryStep, Clearers

(* Unless a Clear overlapped with a job, a job is run in the session the last
   successful one ended in, and in a fresh one after a Clear, whatever restarts,
   failed jobs and failed summaries there are: session.go's cache and file. *)
THEOREM SessionsAreResumed == Spec => []ResumesLastSession
<1>1. StoreSound /\ TypeOK => ResumesLastSession
  BY DEF StoreSound, ResumesLastSession, Executing
<1> QED BY <1>1, TypeInit, TypeStep, SummaryInit, SummaryStays, StoreInit, StoreStays, PTL DEF Spec

-----------------------------------------------------------------------------
(* A topic comes to rest *)

Count(s, kind) == Cardinality({i \in DOMAIN s : s[i] = kind})

(* What a job may set off once it is answered: after a user's job come a check
   and a memory update, after an update a compression, after a summary the
   Clear, and after a compression nothing. *)
SetsOff == [user |-> 36, update |-> 11, summarize |-> 3, compress |-> 0]

(* The ten steps of the job itself, from Begin to Answer, and what it sets off. *)
Weight == [user |-> 46, update |-> 21, summarize |-> 13, compress |-> 10]

LineWork(s) ==
    46 * Count(s, "user") + 21 * Count(s, "update")
      + 13 * Count(s, "summarize") + 10 * Count(s, "compress")

StepsLeft ==
    [idle |-> 0, answer |-> 1, save |-> 2, set |-> 3, claude |-> 4, rewrite |-> 5,
     touch |-> 6, fill |-> 7, load |-> 8, get |-> 9]

ClearLeft == [off |-> 0, waiting |-> 0, release |-> 1, remove |-> 2, delete |-> 3]

InLine == LineWork(line)
InJob == StepsLeft[step] + (IF Executing THEN SetsOff[job] ELSE 0)
AfterJobs == 36 * replied + 14 * checking + 11 * updated
InSummary == ClearLeft[clearer["summary"]]

(* A bound on the steps the topic still takes without a new job of the user. *)
Remaining == InLine + InJob + AfterJobs + InSummary

RunsDry ==
    /\ WorkerStep \/ FollowUp \/ SummaryStep => Remaining' < Remaining
    /\ ~UserJob => Remaining' <= Remaining

LEMMA CountIsNat ==
    ASSUME NEW s \in Seq(Kinds), NEW kind \in Kinds
    PROVE  /\ Count(s, kind) \in Nat
           /\ IsFiniteSet({i \in DOMAIN s : s[i] = kind})
<1> DEFINE P == {i \in DOMAIN s : s[i] = kind}
<1>1. DOMAIN s = 1 .. Len(s) /\ Len(s) \in Nat
  OBVIOUS
<1>2. IsFiniteSet(DOMAIN s)
  BY <1>1, FS_Interval
<1>3. P \in SUBSET DOMAIN s
  OBVIOUS
<1>4. IsFiniteSet(P)
  <2> HIDE DEF P
  <2> QED BY <1>2, <1>3, FS_Subset
<1>5. Cardinality(P) \in Nat
  <2> HIDE DEF P
  <2> QED BY <1>4, FS_CardinalityType
<1> QED BY <1>4, <1>5 DEF Count

(* A job at the end of the line counts as one of its kind. *)
LEMMA CountAppend ==
    ASSUME NEW s \in Seq(Kinds), NEW a \in Kinds, NEW kind \in Kinds
    PROVE  Count(Append(s, a), kind) = Count(s, kind) + (IF a = kind THEN 1 ELSE 0)
<1> DEFINE t == Append(s, a)
<1> DEFINE P == {i \in DOMAIN s : s[i] = kind}
<1> DEFINE Q == {i \in DOMAIN t : t[i] = kind}
<1>1. /\ Len(s) \in Nat /\ DOMAIN s = 1 .. Len(s) /\ DOMAIN t = 1 .. Len(s) + 1
      /\ \A i \in 1 .. Len(s) : t[i] = s[i]
      /\ t[Len(s) + 1] = a
  OBVIOUS
<1>2. \A i \in 1 .. Len(s) + 1 : i \in 1 .. Len(s) \/ i = Len(s) + 1
  BY <1>1
<1>6. IsFiniteSet(P) /\ Cardinality(P) \in Nat
  BY CountIsNat, Zenon DEF Count
<1>3. IsFiniteSet(P) /\ Cardinality(P) \in Nat /\ Len(s) + 1 \notin P
  BY <1>1, <1>6
<1> HIDE DEF t
<1>4. CASE a = kind
  <2>1. Q = P \cup {Len(s) + 1}
    BY <1>1, <1>2, <1>4
  <2>2. Cardinality(Q) = Cardinality(P) + 1
    BY <1>3, <2>1, FS_AddElement
  <2> QED BY <1>4, <2>2 DEF Count, t
<1>5. CASE a # kind
  <2>1. Q = P
    BY <1>1, <1>2, <1>5
  <2>2. Cardinality(Q) = Cardinality(P) + 0
    <3>1. \A n \in Nat : n + 0 = n
      OBVIOUS
    <3> QED BY <1>3, <2>1, <3>1, Zenon
  <2> QED BY <1>5, <2>2 DEF Count, t
<1> QED BY <1>4, <1>5

(* The first job of the line counts as one of its kind, the others move up. *)
LEMMA CountTail ==
    ASSUME NEW s \in Seq(Kinds), s # <<>>, NEW kind \in Kinds
    PROVE  Count(s, kind) = Count(Tail(s), kind) + (IF Head(s) = kind THEN 1 ELSE 0)
<1> DEFINE t == Tail(s)
<1> DEFINE P == {i \in DOMAIN s : s[i] = kind}
<1> DEFINE Q == {i \in DOMAIN t : t[i] = kind}
<1> DEFINE up == [i \in Q |-> i + 1]
<1>1. /\ Len(s) \in Nat \ {0} /\ DOMAIN s = 1 .. Len(s) /\ Head(s) = s[1]
      /\ DOMAIN t = 1 .. Len(s) - 1
      /\ \A i \in 1 .. Len(s) - 1 : t[i] = s[i + 1]
  OBVIOUS
<1>2. IsFiniteSet(P) /\ IsFiniteSet(Q) /\ Cardinality(P) \in Nat /\ Cardinality(Q) \in Nat
  <2>1. t \in Seq(Kinds)
    OBVIOUS
  <2> HIDE DEF t
  <2> QED BY <2>1, CountIsNat, Zenon DEF Count
<1> HIDE DEF t
<1>3. \A i \in P \ {1} : i - 1 \in Q /\ (i - 1) + 1 = i
  BY <1>1
<1>4. \A i \in Q : i \in Nat /\ i + 1 \in P \ {1}
  BY <1>1
<1>5. up \in Surjection(Q, P \ {1})
  <2>1. up \in [Q -> P \ {1}]
    BY <1>4
  <2>2. \A i \in P \ {1} : \E q \in Q : up[q] = i
    BY <1>3
  <2> QED BY <2>1, <2>2, Fun_IsSurj
<1>6. up \in Injection(Q, P \ {1})
  <2>1. up \in [Q -> P \ {1}]
    BY <1>4
  <2>2. \A p, q \in Q : up[p] = up[q] => p = q
    BY <1>4
  <2> QED BY <2>1, <2>2, Fun_IsInj
<1>7. IsFiniteSet(P \ {1})
      /\ Cardinality(P \ {1}) = IF 1 \in P THEN Cardinality(P) - 1 ELSE Cardinality(P)
  BY <1>2, FS_RemoveElement
<1>8. Cardinality(Q) = Cardinality(P \ {1})
  <2> HIDE DEF P, Q, up
  <2> QED BY <1>5, <1>6, <1>7, FS_Injection
<1>9. 1 \in P <=> Head(s) = kind
  BY <1>1
<1>10. Cardinality(P) = Cardinality(Q) + (IF Head(s) = kind THEN 1 ELSE 0)
  <2> HIDE DEF P, Q
  <2> QED BY <1>2, <1>7, <1>8, <1>9
<1> QED BY <1>10 DEF Count, t

LEMMA LineWorkIsNat ==
    ASSUME NEW s \in Seq(Kinds)
    PROVE  LineWork(s) \in Nat
<1>1. /\ Count(s, "user") \in Nat /\ Count(s, "update") \in Nat
      /\ Count(s, "summarize") \in Nat /\ Count(s, "compress") \in Nat
  BY CountIsNat, Zenon DEF Kinds
<1> QED BY <1>1 DEF LineWork

LEMMA LineWorkAppend ==
    ASSUME NEW s \in Seq(Kinds), NEW a \in Kinds
    PROVE  LineWork(Append(s, a)) = LineWork(s) + Weight[a]
<1>1. /\ Count(s, "user") \in Nat /\ Count(s, "update") \in Nat
      /\ Count(s, "summarize") \in Nat /\ Count(s, "compress") \in Nat
  BY CountIsNat, Zenon DEF Kinds
<1> DEFINE t == Append(s, a)
<1>2. /\ Count(t, "user") = Count(s, "user") + (IF a = "user" THEN 1 ELSE 0)
      /\ Count(t, "update") = Count(s, "update") + (IF a = "update" THEN 1 ELSE 0)
      /\ Count(t, "summarize") = Count(s, "summarize") + (IF a = "summarize" THEN 1 ELSE 0)
      /\ Count(t, "compress") = Count(s, "compress") + (IF a = "compress" THEN 1 ELSE 0)
  BY CountAppend, Zenon DEF Kinds
<1> HIDE DEF t
<1>3. PICK u, v, x, y \in Nat :
          /\ u = Count(s, "user") /\ v = Count(s, "update")
          /\ x = Count(s, "summarize") /\ y = Count(s, "compress")
  BY <1>1, Zenon
<1>4. LineWork(s) = 46 * u + 21 * v + 13 * x + 10 * y
  BY <1>3, Zenon DEF LineWork
<1>5. LineWork(t) =   46 * (u + (IF a = "user" THEN 1 ELSE 0))
                    + 21 * (v + (IF a = "update" THEN 1 ELSE 0))
                    + 13 * (x + (IF a = "summarize" THEN 1 ELSE 0))
                    + 10 * (y + (IF a = "compress" THEN 1 ELSE 0))
  BY <1>2, <1>3, Zenon DEF LineWork
<1>8. u \in Nat /\ v \in Nat /\ x \in Nat /\ y \in Nat
  BY <1>3
<1>9.   46 * (u + (IF a = "user" THEN 1 ELSE 0))
        + 21 * (v + (IF a = "update" THEN 1 ELSE 0))
        + 13 * (x + (IF a = "summarize" THEN 1 ELSE 0))
        + 10 * (y + (IF a = "compress" THEN 1 ELSE 0))
      = (46 * u + 21 * v + 13 * x + 10 * y) + Weight[a]
  BY <1>8 DEF Weight, Kinds
<1>7. LineWork(t) = LineWork(s) + Weight[a]
  BY <1>4, <1>5, <1>9, Zenon
<1> QED BY <1>7 DEF t

LEMMA LineWorkTail ==
    ASSUME NEW s \in Seq(Kinds), s # <<>>
    PROVE  LineWork(s) = LineWork(Tail(s)) + Weight[Head(s)]
<1> DEFINE t == Tail(s)
<1> DEFINE a == Head(s)
<1>0. t \in Seq(Kinds) /\ a \in Kinds
  OBVIOUS
<1>2. /\ Count(s, "user") = Count(t, "user") + (IF a = "user" THEN 1 ELSE 0)
      /\ Count(s, "update") = Count(t, "update") + (IF a = "update" THEN 1 ELSE 0)
      /\ Count(s, "summarize") = Count(t, "summarize") + (IF a = "summarize" THEN 1 ELSE 0)
      /\ Count(s, "compress") = Count(t, "compress") + (IF a = "compress" THEN 1 ELSE 0)
  BY CountTail, Zenon DEF Kinds
<1> HIDE DEF t, a
<1>1. /\ Count(t, "user") \in Nat /\ Count(t, "update") \in Nat
      /\ Count(t, "summarize") \in Nat /\ Count(t, "compress") \in Nat
  BY <1>0, CountIsNat, Zenon DEF Kinds
<1>3. PICK u, v, x, y \in Nat :
          /\ u = Count(t, "user") /\ v = Count(t, "update")
          /\ x = Count(t, "summarize") /\ y = Count(t, "compress")
  BY <1>1, Zenon
<1>4. LineWork(t) = 46 * u + 21 * v + 13 * x + 10 * y
  BY <1>3, Zenon DEF LineWork
<1>5. LineWork(s) =   46 * (u + (IF a = "user" THEN 1 ELSE 0))
                    + 21 * (v + (IF a = "update" THEN 1 ELSE 0))
                    + 13 * (x + (IF a = "summarize" THEN 1 ELSE 0))
                    + 10 * (y + (IF a = "compress" THEN 1 ELSE 0))
  BY <1>2, <1>3, Zenon DEF LineWork
<1>8. u \in Nat /\ v \in Nat /\ x \in Nat /\ y \in Nat
  BY <1>3
<1>9.   46 * (u + (IF a = "user" THEN 1 ELSE 0))
        + 21 * (v + (IF a = "update" THEN 1 ELSE 0))
        + 13 * (x + (IF a = "summarize" THEN 1 ELSE 0))
        + 10 * (y + (IF a = "compress" THEN 1 ELSE 0))
      = (46 * u + 21 * v + 13 * x + 10 * y) + Weight[a]
  BY <1>0, <1>8 DEF Weight, Kinds
<1>7. LineWork(s) = LineWork(t) + Weight[a]
  BY <1>4, <1>5, <1>9, Zenon
<1> QED BY <1>7 DEF t, a

LEMMA EmptyLine == LineWork(<<>>) = 0
<1>1. \A kind : {i \in DOMAIN <<>> : (<<>>)[i] = kind} = {}
  OBVIOUS
<1>2. \A kind : Count(<<>>, kind) = 0
  BY <1>1, FS_EmptySet DEF Count
<1> QED BY <1>2 DEF LineWork

PartsAreNat == InLine \in Nat /\ InJob \in Nat /\ AfterJobs \in Nat /\ InSummary \in Nat

LEMMA Parts == TypeOK => PartsAreNat
<1> SUFFICES ASSUME TypeOK PROVE PartsAreNat
  OBVIOUS
<1>1. InLine \in Nat
  BY LineWorkIsNat DEF TypeOK, InLine
<1>2. InJob \in Nat
  BY DEF TypeOK, InJob, Steps, Kinds, StepsLeft, SetsOff
<1>3. InSummary \in Nat
  BY DEF TypeOK, InSummary, ClearLeft, Clearers
<1>4. AfterJobs \in Nat
  BY DEF TypeOK, AfterJobs
<1> QED BY <1>1, <1>2, <1>3, <1>4 DEF PartsAreNat

LEMMA RunsDryStep ==
    ASSUME TypeOK, PartsAreNat, PartsAreNat', [Next]_vars
    PROVE  RunsDry
<1>t. /\ line \in Seq(Kinds) /\ step \in Steps /\ job \in Kinds
      /\ replied \in Nat /\ checking \in Nat /\ updated \in Nat
      /\ clearer \in [Clearers -> {"off", "waiting", "delete", "remove", "release"}]
  BY DEF TypeOK
<1>n. /\ InLine \in Nat /\ InJob \in Nat /\ AfterJobs \in Nat /\ InSummary \in Nat
      /\ InLine' \in Nat /\ InJob' \in Nat /\ AfterJobs' \in Nat /\ InSummary' \in Nat
  BY DEF PartsAreNat
<1>r. /\ Remaining = InLine + InJob + AfterJobs + InSummary
      /\ Remaining' = InLine' + InJob' + AfterJobs' + InSummary'
  BY DEF Remaining
<1>l. InLine = LineWork(line) /\ InLine' = LineWork(line')
  BY DEF InLine, LineWork, Count
<1>s. line' = line => InLine' = InLine
  BY <1>l, Zenon
<1>c. clearer' = clearer => InSummary' = InSummary
  BY DEF InSummary, ClearLeft
<1>j. step' = step /\ job' = job => InJob' = InJob
  BY DEF InJob, StepsLeft, SetsOff, Executing
<1>a. UNCHANGED <<replied, checking, updated>> => AfterJobs' = AfterJobs
  BY DEF AfterJobs
<1>1. ASSUME Begin PROVE Remaining' < Remaining
  <2>1. InLine = InLine' + Weight[job']
    <3>1. line # <<>> /\ line' = Tail(line) /\ job' = Head(line)
      BY <1>1 DEF Begin
    <3>2. LineWork(line) = LineWork(Tail(line)) + Weight[Head(line)]
      BY <3>1, <1>t, LineWorkTail, Zenon
    <3> QED BY <3>1, <3>2, <1>l, Zenon
  <2>2. job' \in Kinds
    BY <1>1, <1>t DEF Begin
  <2>3. InJob = 0 /\ InJob' = Weight[job'] - 1 /\ Weight[job'] \in Nat
    BY <1>1, <2>2 DEF Begin, InJob, StepsLeft, Executing, Weight, SetsOff, Kinds
  <2>4. AfterJobs' = AfterJobs /\ InSummary' = InSummary
    BY <1>1, <1>a, <1>c DEF Begin
  <2> QED BY <1>n, <1>r, <2>1, <2>3, <2>4
<1>2. ASSUME \/ GetCached \/ Load \/ Fill \/ TouchRead \/ TouchWrite
             \/ (\E s \in SomeSession : ClaudeSucceeds(s)) \/ ClaudeFails
             \/ SetCache \/ Save
      PROVE  Remaining' < Remaining
  <2>1. UNCHANGED <<line, job, replied, checking, updated, clearer>>
    BY <1>2 DEF GetCached, Load, Fill, TouchRead, TouchWrite, ClaudeSucceeds, ClaudeFails,
                SetCache, Save
  <2>2. \/ step = "get" /\ step' \in {"touch", "load"}
        \/ step = "load" /\ step' \in {"fill", "claude"}
        \/ step = "fill" /\ step' = "touch"
        \/ step = "touch" /\ step' \in {"rewrite", "claude"}
        \/ step = "rewrite" /\ step' = "claude"
        \/ step = "claude" /\ step' \in {"set", "answer"}
        \/ step = "set" /\ step' = "save"
        \/ step = "save" /\ step' = "answer"
    BY <1>2 DEF GetCached, Load, Fill, TouchRead, TouchWrite, ClaudeSucceeds, ClaudeFails,
                SetCache, Save
  <2>3. InJob' < InJob
    <3>1. SetsOff[job] \in Nat /\ SetsOff[job'] = SetsOff[job]
      BY <1>t, <2>1 DEF Kinds, SetsOff
    <3>2. /\ InJob = StepsLeft[step] + SetsOff[job]
          /\ InJob' = StepsLeft[step'] + SetsOff[job]
      BY <2>1, <2>2, <3>1 DEF InJob, Executing, StepsLeft, SetsOff
    <3>3. /\ StepsLeft[step'] < StepsLeft[step]
          /\ StepsLeft[step'] \in Nat /\ StepsLeft[step] \in Nat
      BY <2>2 DEF StepsLeft
    <3> QED BY <3>1, <3>2, <3>3
  <2>4. AfterJobs' = AfterJobs /\ InSummary' = InSummary /\ InLine' = InLine
    BY <2>1, <1>a, <1>c, <1>s
  <2>5. \A l, j, k, a, c \in Nat : k < j => l + k + a + c < l + j + a + c
    OBVIOUS
  <2> QED BY <1>n, <1>r, <2>3, <2>4, <2>5, Zenon
<1>3. ASSUME Answer PROVE Remaining' < Remaining
  <2>1. UNCHANGED <<line, checking>> /\ step = "answer" /\ step' = "idle"
    BY <1>3 DEF Answer
  <2>2. InLine' = InLine /\ InJob' = 0 /\ InJob = 1 + SetsOff[job]
    BY <2>1, <1>s DEF InJob, StepsLeft, Executing, SetsOff
  <2>3. CASE job = "summarize"
    <3>1. UNCHANGED <<replied, updated>> /\ InSummary' \in 0 .. 3 /\ SetsOff[job] = 3
      BY <1>3, <1>t, <2>3 DEF Answer, InSummary, ClearLeft, Clearers, SetsOff
    <3>2. AfterJobs' = AfterJobs
      BY <1>a, <2>1, <3>1
    <3>3. \A l, a, c \in Nat : \A d \in 0 .. 3 : l + 0 + a + d < l + (1 + 3) + a + c
      OBVIOUS
    <3> QED BY <1>n, <1>r, <2>2, <3>1, <3>2, <3>3, Zenon
  <2>4. CASE job # "summarize"
    <3>1. /\ UNCHANGED clearer
          /\ 36 * replied' + 11 * updated' <= 36 * replied + 11 * updated + SetsOff[job]
          /\ replied' \in Nat /\ updated' \in Nat /\ SetsOff[job] \in Nat
      BY <1>3, <1>t, <2>4 DEF Answer, SetsOff, Kinds
    <3>2. AfterJobs' <= AfterJobs + SetsOff[job]
      <4>1. \A m, n, q, p, k, w \in Nat :
                36 * m + 11 * n <= 36 * q + 11 * p + w
                  => 36 * m + 14 * k + 11 * n <= 36 * q + 14 * k + 11 * p + w
        OBVIOUS
      <4> QED BY <1>t, <2>1, <3>1, <4>1, Zenon DEF AfterJobs
    <3>3. \A l, w, a, b, c \in Nat : b <= a + w => l + 0 + b + c < l + (1 + w) + a + c
      OBVIOUS
    <3>4. InSummary' = InSummary
      BY <1>c, <3>1
    <3> QED BY <1>n, <1>r, <2>2, <3>1, <3>2, <3>3, <3>4, Zenon
  <2> QED BY <2>3, <2>4
<1>4. ASSUME FollowUp PROVE Remaining' < Remaining
  <2>1. InJob' = InJob
    BY <1>4, <1>j DEF FollowUp, UpdateMemory, CompressMemory, SkipSummary, Summarize
  <2>w. \A kind \in Kinds : line' = Append(line, kind) => InLine' = InLine + Weight[kind]
    BY <1>l, <1>t, LineWorkAppend, Zenon
  <2>2. CASE UpdateMemory
    <3>1. line' = line \/ line' = Append(line, "update")
      BY <2>2 DEF UpdateMemory
    <3>4. \A l, m, j, p, q, c \in Nat :
              (m = l \/ m = l + 21) /\ q = p - 22 => m + j + q + c < l + j + p + c
      OBVIOUS
    <3>2. InLine' = InLine \/ InLine' = InLine + 21
      BY <1>s, <2>w, <3>1 DEF Weight, Kinds
    <3>3. AfterJobs' = AfterJobs - 22 /\ clearer' = clearer
      BY <2>2, <1>t DEF UpdateMemory, AfterJobs
    <3>5. InSummary' = InSummary
      BY <1>c, <3>3
    <3> QED BY <1>n, <1>r, <2>1, <3>2, <3>3, <3>4, <3>5, Zenon
  <2>3. ASSUME NEW b \in BOOLEAN, CompressMemory(b) PROVE Remaining' < Remaining
    <3>1. line' = line \/ line' = Append(line, "compress")
      BY <2>3 DEF CompressMemory
    <3>4. \A l, m, j, p, q, c \in Nat :
              (m = l \/ m = l + 10) /\ q = p - 11 => m + j + q + c < l + j + p + c
      OBVIOUS
    <3>2. InLine' = InLine \/ InLine' = InLine + 10
      BY <1>s, <2>w, <3>1 DEF Weight, Kinds
    <3>3. AfterJobs' = AfterJobs - 11 /\ clearer' = clearer
      BY <2>3, <1>t DEF CompressMemory, AfterJobs
    <3>5. InSummary' = InSummary
      BY <1>c, <3>3
    <3> QED BY <1>n, <1>r, <2>1, <3>2, <3>3, <3>4, <3>5, Zenon
  <2>4. ASSUME NEW b \in BOOLEAN, SkipSummary(b) PROVE Remaining' < Remaining
    <3>1. AfterJobs' = AfterJobs - 14 /\ UNCHANGED <<clearer, line>>
      BY <2>4, <1>t DEF SkipSummary, AfterJobs
    <3> QED BY <1>n, <1>r, <1>c, <1>s, <2>1, <3>1
  <2>5. ASSUME NEW b \in BOOLEAN, Summarize(b) PROVE Remaining' < Remaining
    <3>1. line' = Append(line, "summarize")
      BY <2>5 DEF Summarize
    <3>2. InLine' = InLine + 13
      BY <2>w, <3>1 DEF Weight, Kinds
    <3>3. AfterJobs' = AfterJobs - 14
      BY <2>5, <1>t DEF Summarize, AfterJobs
    <3>4. InSummary' = 0
      BY <2>5, <1>t DEF Summarize, InSummary, ClearLeft, Clearers
    <3> QED BY <1>n, <1>r, <2>1, <3>2, <3>3, <3>4
  <2> QED BY <1>4, <2>2, <2>3, <2>4, <2>5 DEF FollowUp
<1>5. ASSUME SummaryStep PROVE Remaining' < Remaining
  <2>1. UNCHANGED <<line, step, job, replied, checking, updated>>
    BY <1>5 DEF SummaryStep, ClearCache, RemoveFile, ReleaseSummary
  <2>2. InSummary' < InSummary
    BY <1>5, <1>t DEF SummaryStep, ClearCache, RemoveFile, ReleaseSummary, ClearLeft, Clearers,
                      InSummary
  <2>3. InLine' = InLine /\ InJob' = InJob /\ AfterJobs' = AfterJobs
    BY <1>s, <1>j, <1>a, <2>1, Zenon
  <2>4. \A l, j, a, c, d \in Nat : d < c => l + j + a + d < l + j + a + c
    OBVIOUS
  <2> QED BY <1>n, <1>r, <2>2, <2>3, <2>4, Zenon
<1>6. ASSUME ClearCache("user") \/ RemoveFile("user") \/ UNCHANGED vars
      PROVE  Remaining' = Remaining
  <2>1. /\ UNCHANGED <<line, step, job, replied, checking, updated>>
        /\ clearer'["summary"] = clearer["summary"]
    BY <1>6, <1>t DEF ClearCache, RemoveFile, Clearers
  <2>2. InSummary' = InSummary
    BY <2>1 DEF InSummary, ClearLeft
  <2> QED BY <1>r, <1>s, <1>j, <1>a, <2>1, <2>2, Zenon
<1>7. ASSUME Restart PROVE Remaining' = 0
  <2>1. /\ line' = <<>> /\ step' = "idle" /\ replied' = 0 /\ checking' = 0 /\ updated' = 0
        /\ clearer'["summary"] = "off"
    BY <1>7 DEF Restart, Clearers
  <2>2. InLine' = 0
    BY <2>1, <1>l, EmptyLine, Zenon
  <2>3. InJob' = 0 /\ AfterJobs' = 0 /\ InSummary' = 0
    BY <2>1 DEF InJob, AfterJobs, InSummary, Executing, StepsLeft, ClearLeft
  <2> QED BY <1>r, <2>2, <2>3
<1>8. ASSUME WorkerStep PROVE Remaining' < Remaining
  BY <1>1, <1>2, <1>3, <1>8 DEF WorkerStep
<1>9. \/ WorkerStep \/ FollowUp \/ SummaryStep
      \/ UserJob
      \/ ClearCache("user") \/ RemoveFile("user") \/ Restart \/ UNCHANGED vars
  BY DEF Next
<1>10. Remaining \in Nat /\ Remaining' \in Nat
  <2>1. \A l, j, a, c \in Nat : l + j + a + c \in Nat
    OBVIOUS
  <2> QED BY <1>n, <1>r, <2>1, Zenon
<1>13. \A m, n \in Nat : (m < n => m <= n) /\ n <= n /\ 0 <= n
  OBVIOUS
<1>11. WorkerStep \/ FollowUp \/ SummaryStep => Remaining' < Remaining
  BY <1>4, <1>5, <1>8
<1>12. ASSUME ~UserJob PROVE Remaining' <= Remaining
  <2>1. CASE WorkerStep \/ FollowUp \/ SummaryStep
    BY <1>10, <1>11, <1>13, <2>1, Zenon
  <2>2. CASE Restart
    BY <1>7, <1>10, <1>13, <2>2, Zenon
  <2>3. CASE ClearCache("user") \/ RemoveFile("user") \/ UNCHANGED vars
    BY <1>6, <1>10, <1>13, <2>3, Zenon
  <2> QED BY <1>9, <1>12, <2>1, <2>2, <2>3
<1> QED BY <1>11, <1>12 DEF RunsDry

(* The half of ComesToRest that needs no fairness: as long as the user sends no
   message, every step of the worker, of the goroutines after a reply and of the
   summary uses up a bound fixed in advance, and neither a /clear nor a restart
   gives any of it back.  In particular maybeSummarizeSession's own job never
   asks for another summary, nor a memory update for another update. *)
THEOREM TopicsRunDry == Spec => [][RunsDry]_vars
<1>1. TypeOK /\ PartsAreNat /\ PartsAreNat' /\ [Next]_vars => RunsDry
  BY RunsDryStep
<1> QED BY <1>1, Parts, TypeInit, TypeStep, PTL DEF Spec

-----------------------------------------------------------------------------
(* Where the promise of a reset holds, which the run session_reset refutes *)

(* Since the reset no session has been stored, and no job has got beyond its look
   at the store. *)
StillFresh == owedFresh => expected = NoSession /\ step \in {"idle", "get", "load"}

LEMMA FreshStays ==
    TypeOK /\ StoreSound /\ StillFresh /\ Undisturbed /\ Undisturbed' /\ [ResetNext]_resetVars
        => StillFresh'
<1> SUFFICES ASSUME TypeOK, StoreSound, StillFresh, Undisturbed, Undisturbed',
                    [ResetNext]_resetVars, owedFresh'
             PROVE  expected' = NoSession /\ step' \in {"idle", "get", "load"}
  BY Zenon DEF StillFresh
<1> USE DEF Undisturbed, StillFresh, Executing
<1>1. CASE RemoveFile("summary")
  <2>1. Clearing /\ ~Executing
    BY <1>1 DEF RemoveFile, Clearing, Clearers
  <2> QED BY <1>1, <2>1 DEF RemoveFile, StoreSound
<1>2. CASE ~RemoveFile("summary") /\ ResetNext
  <2>1. Next /\ owedFresh /\ ~UserGets
    BY <1>2, Zenon DEF ResetNext
  <2>2. expected = NoSession /\ step \in {"idle", "get", "load"}
    BY <2>1, Zenon
  <2>3. CASE UserJob \/ Begin
    BY <2>2, <2>3 DEF UserJob, Begin
  <2>4. CASE GetCached
    BY <2>1, <2>2, <2>4 DEF UserGets, GetCached
  <2>5. CASE Load
    BY <2>1, <2>2, <2>5 DEF UserGets, Load
  <2>6. ~Fill /\ ~TouchRead /\ ~TouchWrite /\ ~ClaudeFails /\ ~SetCache /\ ~Save /\ ~Answer
    BY <2>2 DEF Fill, TouchRead, TouchWrite, ClaudeFails, SetCache, Save, Answer
  <2>7. \A s \in SomeSession : ~ClaudeSucceeds(s)
    BY <2>2 DEF ClaudeSucceeds
  <2>8. CASE UpdateMemory \/ ReleaseSummary
    BY <2>2, <2>8 DEF UpdateMemory, ReleaseSummary
  <2>9. ASSUME NEW b \in BOOLEAN, CompressMemory(b) \/ SkipSummary(b) \/ Summarize(b)
        PROVE  expected' = NoSession /\ step' \in {"idle", "get", "load"}
    BY <2>2, <2>9 DEF CompressMemory, SkipSummary, Summarize
  <2>10. ASSUME NEW c \in Clearers, ClearCache(c) \/ RemoveFile(c)
         PROVE  expected' = NoSession /\ step' \in {"idle", "get", "load"}
    BY <2>2, <2>10 DEF ClearCache, RemoveFile
  <2>11. CASE Restart
    BY <2>2, <2>11 DEF Restart
  <2> QED
    BY <2>1, <2>3, <2>4, <2>5, <2>6, <2>7, <2>8, <2>9, <2>10, <2>11
    DEF Next, WorkerStep, FollowUp, SummaryStep, Clearers
<1>3. CASE UNCHANGED resetVars
  BY <1>3 DEF resetVars
<1> QED BY <1>1, <1>2, <1>3

(* The user's first job after a reset is given no session at all. *)
StartsAfresh == [][UserGets /\ owedFresh => sid' = NoSession]_resetVars

(* "The next conversation starts from a fresh session" (maybeSummarizeSession) as
   long as no Clear overlaps with a job and no update, compression or summary runs
   between the reset and the next message.  Nothing else - no restart, failed
   job, /clear or order of messages - undoes a reset. *)
THEOREM FreshIfUndisturbed == ResetSpec /\ []Undisturbed => StartsAfresh
<1>1. ResetInit => Init /\ StillFresh
  BY DEF ResetInit, StillFresh
<1>2. [ResetNext]_resetVars => [Next]_vars
  BY DEF ResetNext, resetVars
<1>3. StoreSound /\ StillFresh /\ Undisturbed /\ [ResetNext]_resetVars
         => (UserGets /\ owedFresh => sid' = NoSession)
  <2> SUFFICES ASSUME StoreSound, StillFresh, Undisturbed, UserGets, owedFresh
               PROVE  sid' = NoSession
    OBVIOUS
  <2>1. ~overlap /\ expected = NoSession
    BY Zenon DEF Undisturbed, StillFresh
  <2>2. Executing
    BY DEF UserGets, GetCached, Load, Executing
  <2>3. CASE GetCached
    BY <2>1, <2>2, <2>3 DEF StoreSound, UserGets, GetCached
  <2>4. CASE Load
    BY <2>1, <2>2, <2>4 DEF StoreSound, Load
  <2> QED BY <2>3, <2>4 DEF UserGets
<1> QED
  BY <1>1, <1>2, <1>3, TypeInit, TypeStep, SummaryInit, SummaryStays, StoreInit, StoreStays,
     FreshStays, PTL DEF ResetSpec, StartsAfresh

(* The worker holds a session only on the way from Get to its answer. *)
AtRest ==
    /\ step = "idle" => sid = NoSession
    /\ step # "rewrite" => seen = NoSession
    /\ step \notin {"set", "save", "answer"} => newSid = NoSession

(* The first half of Clear empties the cache, and with the second half the last
   trace of the summarized session is gone. *)
Gone ==
    summarized # NoSession =>
      /\ clearer["summary"] = "remove" => cache = NoSession
      /\ ~Resetting => summarized \notin {cache, file, sid, seen, newSid}

(* Every step keeps the worker's variables so. *)
LEMMA AtRestStays == AtRest /\ [Next]_vars => AtRest'
<1> SUFFICES ASSUME AtRest, [Next]_vars PROVE AtRest'
  OBVIOUS
<1> USE DEF AtRest
<1>1. CASE Begin \/ GetCached \/ Load \/ Fill \/ TouchRead \/ TouchWrite
  BY <1>1 DEF Begin, GetCached, Load, Fill, TouchRead, TouchWrite
<1>2. ASSUME NEW s \in SomeSession, ClaudeSucceeds(s) PROVE AtRest'
  BY <1>2 DEF ClaudeSucceeds
<1>3. CASE ClaudeFails \/ SetCache \/ Save \/ Answer
  BY <1>3 DEF ClaudeFails, SetCache, Save, Answer
<1>4. CASE UserJob \/ UpdateMemory \/ ReleaseSummary
  BY <1>4 DEF UserJob, UpdateMemory, ReleaseSummary
<1>5. ASSUME NEW b \in BOOLEAN, CompressMemory(b) \/ SkipSummary(b) \/ Summarize(b)
      PROVE  AtRest'
  BY <1>5 DEF CompressMemory, SkipSummary, Summarize
<1>6. ASSUME NEW c \in Clearers, ClearCache(c) \/ RemoveFile(c) PROVE AtRest'
  BY <1>6 DEF ClearCache, RemoveFile
<1>7. CASE Restart
  BY <1>7 DEF Restart
<1>8. CASE UNCHANGED vars
  BY <1>8
<1> QED
  BY ONLY [Next]_vars, <1>1, <1>2, <1>3, <1>4, <1>5, <1>6, <1>7, <1>8
  DEF Next, WorkerStep, FollowUp, SummaryStep, Clearers

(* A Clear that no job overlaps with removes every trace of the summarized
   session, and no step after it brings one back. *)
LEMMA GoneStays ==
    TypeOK /\ OneSummary /\ AtRest /\ Gone /\ ResetsAlone /\ ResetsAlone' /\ [ResetNext]_resetVars
        => Gone'
<1> SUFFICES ASSUME TypeOK, OneSummary, AtRest, Gone, ResetsAlone, ResetsAlone',
                    [ResetNext]_resetVars
             PROVE  Gone'
  OBVIOUS
<1> USE DEF Gone, Resetting, ResetsAlone, Executing
<1>t. /\ clearer \in [Clearers -> {"off", "waiting", "delete", "remove", "release"}]
      /\ step = "idle" => sid = NoSession /\ seen = NoSession /\ newSid = NoSession
      /\ step # "idle" /\ job = "summarize" => clearer["summary"] = "waiting"
  BY DEF TypeOK, AtRest, OneSummary, SummaryRuns
<1>a. CASE Answer /\ ResetNext
  <2>1. CASE job = "summarize" /\ ok
    <3>1. clearer'["summary"] = "delete"
      BY <1>a, <1>t, <2>1 DEF Answer, Clearers
    <3>2. ~(clearer'["summary"] = "remove") /\ Resetting'
      BY <3>1
    <3> QED BY <3>2
  <2>2. CASE ~(job = "summarize" /\ ok)
    <3>1. summarized' = summarized
      BY <1>a, <1>t, <2>2 DEF ResetNext, Answer, Restart, Clearers
    <3>2. clearer'["summary"] = clearer["summary"]
             \/ (~Resetting /\ clearer'["summary"] = "release")
      BY <1>a, <1>t, <2>2 DEF Answer, Clearers
    <3> QED BY <1>a, <1>t, <3>1, <3>2 DEF Answer
  <2> QED BY <2>1, <2>2
<1>b. CASE Restart /\ ResetNext
  <2>1. clearer'["summary"] = "off"
    BY <1>b DEF Restart, Clearers
  <2>2. summarized' = IF Resetting THEN NoSession ELSE summarized
    BY <1>b DEF ResetNext, Restart, Answer
  <2> QED BY <1>b, <2>1, <2>2 DEF Restart
<1>c. CASE ~Answer /\ ~Restart /\ ResetNext
  <2>s. /\ summarized' = summarized
        /\ newSid' \in {newSid, sid, NoSession} \/ newSid' # summarized
        /\ Next
    BY <1>c DEF ResetNext
  <2>1. CASE Begin \/ GetCached \/ Load \/ Fill \/ TouchRead \/ TouchWrite
    BY <2>s, <2>1 DEF Begin, GetCached, Load, Fill, TouchRead, TouchWrite
  <2>2. ASSUME NEW s \in SomeSession, ClaudeSucceeds(s) PROVE Gone'
    BY <2>s, <2>2 DEF ClaudeSucceeds
  <2>3. CASE ClaudeFails \/ SetCache \/ Save
    BY <2>s, <2>3 DEF ClaudeFails, SetCache, Save
  <2>4. CASE UserJob \/ UpdateMemory
    BY <2>s, <2>4 DEF UserJob, UpdateMemory
  <2>5. ASSUME NEW b \in BOOLEAN, CompressMemory(b) \/ SkipSummary(b) PROVE Gone'
    BY <2>s, <2>5 DEF CompressMemory, SkipSummary
  <2>6. ASSUME NEW b \in BOOLEAN, Summarize(b) PROVE Gone'
    <3>1. clearer["summary"] = "off" /\ clearer'["summary"] = "waiting"
      BY <1>t, <2>6 DEF Summarize, OneSummary, Clearers
    <3> QED BY <2>s, <2>6, <3>1 DEF Summarize
  <2>7. CASE ReleaseSummary
    <3>1. clearer["summary"] = "release" /\ clearer'["summary"] = "off"
      BY <1>t, <2>7 DEF ReleaseSummary, Clearers
    <3> QED BY <2>s, <2>7, <3>1 DEF ReleaseSummary
  <2>8. CASE ClearCache("user") \/ RemoveFile("user")
    <3>1. clearer'["summary"] = clearer["summary"]
      BY <1>t, <2>8 DEF ClearCache, RemoveFile, Clearers
    <3> QED BY <2>s, <2>8, <3>1 DEF ClearCache, RemoveFile
  <2>9. CASE ClearCache("summary")
    <3>1. clearer'["summary"] = "remove" /\ cache' = NoSession
      BY <1>t, <2>9 DEF ClearCache, Clearers
    <3> QED BY <2>s, <3>1
  <2>10. CASE RemoveFile("summary")
    <3>1. clearer["summary"] = "remove" /\ clearer'["summary"] = "release"
      BY <1>t, <2>10 DEF RemoveFile, Clearers
    <3>2. step = "idle"
      BY <3>1
    <3> QED BY <1>t, <2>s, <2>10, <3>1, <3>2 DEF RemoveFile
  <2> QED
    BY <1>c, <2>s, <2>1, <2>2, <2>3, <2>4, <2>5, <2>6, <2>7, <2>8, <2>9, <2>10
    DEF Next, WorkerStep, FollowUp, SummaryStep, Clearers
<1>d. CASE UNCHANGED resetVars
  BY <1>d DEF resetVars
<1> QED BY <1>a, <1>b, <1>c, <1>d

(* session_reset's property fails only where the summary's Clear (removing the
   file after the cache) overlaps with a job of the topic.  Where it does not, no
   message is answered in the summarized session again - whatever other Clears,
   restarts, queued jobs and housekeeping jobs there are. *)
THEOREM SummarizedStaysGone == ResetSpec /\ []ResetsAlone => FreshAfterSummary
<1>1. ResetInit => Init /\ AtRest /\ Gone
  BY DEF ResetInit, Init, AtRest, Gone
<1>2. [ResetNext]_resetVars => [Next]_vars
  BY DEF ResetNext, resetVars
<1>3. Gone => (UserGets /\ summarized # NoSession /\ ~Resetting => sid' # summarized)
  BY DEF Gone, UserGets, GetCached, Load
<1> QED
  BY <1>1, <1>2, <1>3, TypeInit, TypeStep, SummaryInit, SummaryStays, AtRestStays, GoneStays,
     PTL DEF ResetSpec, FreshAfterSummary
===============================================================================

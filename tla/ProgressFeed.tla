---------------------------- MODULE ProgressFeed ----------------------------
(***************************************************************************)
(* The progress message of one job: the goroutine in dispatchJob that      *)
(* edits it (internal/bot/dispatcher.go), the reader of the claude         *)
(* process's output that feeds it tool events (internal/runner/runner.go), *)
(* and the tailers of subagent output with their forwarders                *)
(* (internal/runner/subagent_tailer.go).                                   *)
(*                                                                         *)
(* What buildProgressText returns is open: any event may change the text   *)
(* or bring an earlier one back.  Of time only the two seconds of the      *)
(* throttle matter: "recent" says that they have not passed since the last *)
(* edit.                                                                   *)
(***************************************************************************)
EXTENDS Integers, Sequences

CONSTANTS
    Tools,      \* the tool calls of the job
    Agents,     \* those among them that a tailer is started for
    EventCap,   \* capacity of toolEventCh (32 in the code)
    TextCap,    \* capacity of subagentTextCh (16)
    TailCap,    \* capacity of a tailer's textCh (8)
    Texts,      \* what the message can show
    Blank,      \* the text before the first activity
    NoText,     \* no flush is armed
    MaxLines    \* bound: how many texts one tailer finds

ASSUME AgentsAssumption == Agents \subseteq Tools
ASSUME CapAssumption    == EventCap \in Nat \ {0} /\ TextCap \in Nat \ {0} /\ TailCap \in Nat \ {0}
ASSUME TextsAssumption  == Blank \in Texts /\ NoText \notin Texts
ASSUME LinesAssumption  == MaxLines \in Nat

VARIABLES
    reported,   \* reported[t]: what the reader has sent of tool call t
    closed,     \* toolEventCh is closed
    events,     \* content of toolEventCh
    loop,       \* the goroutine: "open", "stopping" (channel closed), "ended"
    seen,       \* seen[t]: what the goroutine knows of t (its activities)
    current,    \* the text of the activities
    shown,      \* lastText: what the message shows
    recent,     \* the last edit is less than two seconds old
    timer,      \* pendingFlush while it can fire: the text it carries, or NoText
    ripe,       \* an edit has been made since it was armed: it fires any time
    flushes,    \* flushes[v]: fired flushes of text v that have not been sent
    texts,      \* content of subagentTextCh
    tailer,     \* tailer[a]: state of the tailer of agent a
    lines,      \* lines[a]: how many texts it has found
    tailed,     \* tailed[a]: how many are in its textCh
    forwarder,  \* forwarder[a]: the goroutine that passes them on
    ctxDone,    \* jobCtx is cancelled
    outdated    \* history: the last edit was a late flush of an earlier text

readerVars  == <<reported, closed>>
editVars    == <<shown, recent, timer, ripe, outdated>>
loopVars    == <<loop, seen, current>>
tailVars    == <<tailer, lines, tailed, forwarder>>
vars == <<readerVars, events, loopVars, editVars, flushes, texts, tailVars, ctxDone>>

Flush(v) == [flush |-> TRUE, text |-> v]
Line     == [flush |-> FALSE, text |-> Blank]
Progress == {"none", "started", "completed"}

Init ==
    /\ reported = [t \in Tools |-> "none"] /\ closed = FALSE
    /\ events = <<>>
    /\ loop = "open" /\ seen = [t \in Tools |-> "none"] /\ current = Blank
    /\ shown = Blank /\ recent = FALSE /\ timer = NoText /\ ripe = FALSE
    /\ outdated = FALSE
    /\ flushes = [v \in Texts |-> 0]
    /\ texts = <<>>
    /\ tailer = [a \in Agents |-> "none"]
    /\ lines = [a \in Agents |-> 0]
    /\ tailed = [a \in Agents |-> 0]
    /\ forwarder = [a \in Agents |-> "none"]
    /\ ctxDone = FALSE

-----------------------------------------------------------------------------
(* Seeded faults.  No specification uses these: each is a plausible slip in the
   definition it is named after, and shows that a property would notice it. *)

(* The older flush is stopped and no new one armed. *)
Throttled_OnlyStops(v) ==
    /\ v # shown /\ ~recent => shown' = v /\ recent' = TRUE
    /\ v = shown \/ recent => UNCHANGED <<shown, recent>>
    /\ timer' = IF v # shown /\ recent THEN NoText ELSE timer
    /\ UNCHANGED <<ripe, outdated>>

(* The throttle also applies to the last text. *)
TakeClose_Throttled ==
    /\ loop = "open" /\ closed /\ events = <<>>
    /\ loop' = "stopping"
    /\ IF recent THEN UNCHANGED editVars
       ELSE shown' = current /\ recent' = TRUE /\ ripe' = TRUE
            /\ outdated' = FALSE /\ UNCHANGED timer
    /\ UNCHANGED <<readerVars, events, seen, current, flushes, texts, tailVars, ctxDone>>

(* The end of the process is noticed before the channel is empty. *)
TakeClose_LeavesEvents ==
    /\ loop = "open" /\ closed
    /\ loop' = "stopping"
    /\ shown' = current /\ recent' = TRUE /\ ripe' = TRUE
    /\ outdated' = FALSE
    /\ UNCHANGED <<readerVars, events, seen, current, timer, flushes, texts, tailVars, ctxDone>>

(* The closed channel does not end the loop. *)
TakeClose_GoesOn ==
    /\ loop = "open" /\ closed /\ events = <<>>
    /\ shown' = current /\ recent' = TRUE /\ ripe' = TRUE
    /\ outdated' = FALSE
    /\ UNCHANGED <<readerVars, events, loopVars, timer, flushes, texts, tailVars, ctxDone>>

(* The tailers of agents without a result are left alone. *)
End_LeavesTailers ==
    /\ loop = "stopping"
    /\ loop' = "ended"
    /\ timer' = NoText
    /\ UNCHANGED <<readerVars, events, seen, current, shown, recent, ripe,
                   outdated, flushes, texts, tailVars, ctxDone>>

(* The flush does not wait for room in the channel. *)
SendFlush_NoWait(v) ==
    /\ flushes[v] > 0
    /\ flushes' = [flushes EXCEPT ![v] = @ - 1]
    /\ texts' = Append(texts, Flush(v))
    /\ UNCHANGED <<readerVars, events, loopVars, editVars, tailVars, ctxDone>>

-----------------------------------------------------------------------------
(* The reader of the claude process's output *)

Report(t, what) ==
    /\ ~closed
    /\ Len(events) < EventCap
    /\ \/ reported[t] = "none" /\ what = "started"
       \/ reported[t] = "started" /\ what = "completed"
    /\ reported' = [reported EXCEPT ![t] = what]
    /\ events' = Append(events, [tool |-> t, what |-> what])
    /\ UNCHANGED <<closed, loopVars, editVars, flushes, texts, tailVars, ctxDone>>

(* The process has ended, or never started; runQueue or Submit closes the
   channel. *)
EndStream ==
    /\ ~closed
    /\ closed' = TRUE
    /\ UNCHANGED <<reported, events, loopVars, editVars, flushes, texts, tailVars, ctxDone>>

(* A reaction cancels jobCtx, from which the tailers' contexts derive. *)
Stopped(who) == [a \in Agents |-> IF a \in who /\ tailer[a] = "running"
                                  THEN "stopping" ELSE tailer[a]]

Cancel ==
    /\ ~ctxDone
    /\ ctxDone' = TRUE
    /\ tailer' = Stopped(Agents)
    /\ UNCHANGED <<readerVars, events, loopVars, editVars, flushes, texts,
                   lines, tailed, forwarder>>

-----------------------------------------------------------------------------
(* Editing the message *)

(* editMessage.  A pending flush was timed by the edit before this one. *)
Edit(v) ==
    IF v = shown THEN UNCHANGED editVars
    ELSE /\ shown' = v
         /\ recent' = TRUE
         /\ ripe' = TRUE
         /\ outdated' = (v # current')
         /\ UNCHANGED timer

(* throttledEdit: at once, or by a flush that replaces the pending one. *)
Throttled(v) ==
    IF v = shown \/ ~recent THEN Edit(v)
    ELSE timer' = v /\ ripe' = FALSE /\ outdated' = FALSE
         /\ UNCHANGED <<shown, recent>>

TwoSecondsPass ==
    /\ recent
    /\ recent' = FALSE
    /\ UNCHANGED <<readerVars, events, loopVars, shown, timer, ripe, outdated,
                   flushes, texts, tailVars, ctxDone>>

(* The flush fires: its goroutine is about to send the text it was armed with. *)
FireFlush ==
    /\ timer # NoText
    /\ ~recent \/ ripe
    /\ flushes' = [flushes EXCEPT ![timer] = @ + 1]
    /\ timer' = NoText
    /\ UNCHANGED <<readerVars, events, loopVars, shown, recent, ripe, outdated,
                   texts, tailVars, ctxDone>>

SendFlush(v) ==
    /\ flushes[v] > 0
    /\ Len(texts) < TextCap
    /\ flushes' = [flushes EXCEPT ![v] = @ - 1]
    /\ texts' = Append(texts, Flush(v))
    /\ UNCHANGED <<readerVars, events, loopVars, editVars, tailVars, ctxDone>>

-----------------------------------------------------------------------------
(* The goroutine that edits the message *)

(* buildProgressText. *)
NewText == current' \in Texts

(* A tool event.  An agent that starts gets a tailer and a forwarder, one that
   completes loses its tailer. *)
TakeEvent ==
    /\ loop = "open"
    /\ events # <<>>
    /\ LET t == Head(events).tool
           what == Head(events).what
           starts == {t} \cap Agents \cap {x \in Tools : what = "started"}
       IN /\ seen' = [seen EXCEPT ![t] = what]
          /\ tailer' = [a \in Agents |->
                 IF a \in starts THEN IF ctxDone THEN "stopping" ELSE "running"
                 ELSE IF what = "completed" THEN Stopped({t})[a] ELSE tailer[a]]
          /\ forwarder' = [a \in Agents |-> IF a \in starts THEN "idle" ELSE forwarder[a]]
    /\ events' = Tail(events)
    /\ NewText
    /\ Throttled(current')
    /\ UNCHANGED <<readerVars, loop, flushes, texts, lines, tailed, ctxDone>>

(* A subagent's text, or a flush, which carries the whole text of the message. *)
TakeText ==
    /\ loop = "open"
    /\ texts # <<>>
    /\ texts' = Tail(texts)
    /\ IF Head(texts).flush
       THEN UNCHANGED current /\ Edit(Head(texts).text)
       ELSE NewText /\ Throttled(current')
    /\ UNCHANGED <<readerVars, events, loop, seen, flushes, tailVars, ctxDone>>

(* The channel is closed and empty: the last text, not throttled. *)
TakeClose ==
    /\ loop = "open" /\ closed /\ events = <<>>
    /\ loop' = "stopping"
    /\ UNCHANGED current
    /\ Edit(current)
    /\ UNCHANGED <<readerVars, events, seen, flushes, texts, tailVars, ctxDone>>

(* The remaining tailers and the pending flush are stopped; agentDone. *)
End ==
    /\ loop = "stopping"
    /\ loop' = "ended"
    /\ tailer' = Stopped(Agents)
    /\ timer' = NoText
    /\ UNCHANGED <<readerVars, events, seen, current, shown, recent, ripe,
                   outdated, flushes, texts, lines, tailed, forwarder, ctxDone>>

-----------------------------------------------------------------------------
(* Tailers and forwarders *)

(* When the channel is full the oldest text makes room: also when the forwarder
   has just taken one. *)
Lost(a) ==
    IF tailed[a] = TailCap THEN {1}
    ELSE IF tailed[a] = TailCap - 1 /\ tailed[a] > 0 /\ forwarder[a] = "holding" THEN {0, 1}
    ELSE {0}

(* A text is found, also by a tailer that has yet to notice its end. *)
TailLine(a) ==
    /\ tailer[a] \in {"running", "stopping"}
    /\ lines[a] < MaxLines
    /\ lines' = [lines EXCEPT ![a] = @ + 1]
    /\ \E lost \in Lost(a) : tailed' = [tailed EXCEPT ![a] = @ + 1 - lost]
    /\ UNCHANGED <<readerVars, events, loopVars, editVars, flushes, texts,
                   tailer, forwarder, ctxDone>>

(* No directory or no file appears in time, or the context is done. *)
TailCloses(a) ==
    /\ tailer' = [tailer EXCEPT ![a] = "closed"]
    /\ UNCHANGED <<readerVars, events, loopVars, editVars, flushes, texts,
                   lines, tailed, forwarder, ctxDone>>

TailGivesUp(a)    == tailer[a] = "running" /\ lines[a] = 0 /\ TailCloses(a)
TailNoticesEnd(a) == tailer[a] = "stopping" /\ TailCloses(a)

Forward(a) ==
    /\ \/ /\ forwarder[a] = "idle" /\ tailed[a] > 0
          /\ forwarder' = [forwarder EXCEPT ![a] = "holding"]
          /\ tailed' = [tailed EXCEPT ![a] = @ - 1]
          /\ UNCHANGED texts
       \/ /\ forwarder[a] = "holding" /\ Len(texts) < TextCap
          /\ forwarder' = [forwarder EXCEPT ![a] = "idle"]
          /\ texts' = Append(texts, Line)
          /\ UNCHANGED tailed
       \/ /\ forwarder[a] = "idle" /\ tailed[a] = 0 /\ tailer[a] = "closed"
          /\ forwarder' = [forwarder EXCEPT ![a] = "ended"]
          /\ UNCHANGED <<texts, tailed>>
    /\ UNCHANGED <<readerVars, events, loopVars, editVars, flushes,
                   tailer, lines, ctxDone>>

-----------------------------------------------------------------------------
LoopStep == TakeEvent \/ TakeText \/ TakeClose \/ End

Next ==
    \/ (\E t \in Tools, what \in Progress : Report(t, what)) \/ EndStream \/ Cancel
    \/ TwoSecondsPass \/ FireFlush \/ (\E v \in Texts : SendFlush(v))
    \/ LoopStep
    \/ \E a \in Agents : TailLine(a) \/ TailGivesUp(a) \/ TailNoticesEnd(a) \/ Forward(a)

Spec == Init /\ [][Next]_vars

(* The goroutine and the tailers run on, and its select, which chooses among the
   ready channels at random, does not pass over one of them for ever.  Nothing is
   assumed of the process, the timers, the flushes and the forwarders. *)
FairSpec ==
    /\ Spec
    /\ WF_vars(TakeEvent) /\ WF_vars(TakeClose) /\ WF_vars(End)
    /\ \A a \in Agents : WF_vars(TailNoticesEnd(a))

-----------------------------------------------------------------------------
(* Properties *)

TypeOK ==
    /\ reported \in [Tools -> Progress] /\ closed \in BOOLEAN
    /\ events \in Seq([tool : Tools, what : {"started", "completed"}])
    /\ Len(events) <= EventCap
    /\ loop \in {"open", "stopping", "ended"}
    /\ seen \in [Tools -> Progress]
    /\ current \in Texts /\ shown \in Texts
    /\ recent \in BOOLEAN /\ ripe \in BOOLEAN /\ outdated \in BOOLEAN
    /\ timer \in Texts \cup {NoText}
    /\ flushes \in [Texts -> Nat]
    /\ texts \in Seq([flush : BOOLEAN, text : Texts])
    /\ Len(texts) <= TextCap
    /\ tailer \in [Agents -> {"none", "running", "stopping", "closed"}]
    /\ lines \in [Agents -> Nat] /\ tailed \in [Agents -> Nat]
    /\ forwarder \in [Agents -> {"none", "idle", "holding", "ended"}]
    /\ ctxDone \in BOOLEAN

(* "Wait for all agent events to be processed": when agentDone is closed every
   event the reader reported has been taken in. *)
AllEventsSeen == loop = "ended" => seen = reported

(* When the job's goroutine goes on, the last text the loop has sent is the final
   one, whatever flush was armed, fired or waiting. *)
FinalTextShown == loop = "ended" => shown = current

(* While the loop runs, a text the message does not show yet is on its way in a
   flush: armed, fired or in the channel.  The one exception is a flush that
   came late and has put an earlier text over the current one. *)
OnItsWay(v) ==
    \/ timer = v
    \/ flushes[v] > 0
    \/ \E i \in 1 .. Len(texts) : texts[i] = Flush(v)

NoTextGetsStuck == loop = "open" /\ shown # current /\ ~outdated => OnItsWay(current)

(* The job's goroutine is not held up: once the process has ended, agentDone is
   closed, whatever the flushes and forwarders are doing. *)
EveryFeedEnds == closed ~> loop = "ended"

(* No tailer goes on polling after its agent or its job is done. *)
TailersEnd == closed ~> \A a \in Agents : tailer[a] \in {"none", "closed"}
===============================================================================

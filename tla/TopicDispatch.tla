---------------------------- MODULE TopicDispatch ----------------------------
(***************************************************************************)
(* The dispatcher of one bot (internal/bot/dispatcher.go): messages are    *)
(* buffered per chat+topic, a debounce timer or the end of the running     *)
(* batch turns the buffer into a batch, the batch becomes one runner job,  *)
(* and a reaction on the message that stands for the job cancels it.       *)
(*                                                                         *)
(* Every critical section under pendingMu or cancelMu is one step, as is   *)
(* every hand-over to the runner; all else interleaves: the handlers of    *)
(* the updates, the timer callbacks, the batches and the reactions each    *)
(* run in a goroutine of their own.  The runner below is JobService.       *)
(*                                                                         *)
(* A job is named by the message it replies to, the last one of its batch. *)
(***************************************************************************)
EXTENDS Integers, Sequences, FiniteSets

CONSTANTS
    Keys,        \* chatTopicKey: chat+topic
    Msgs,        \* the messages users send
    KeyOf,       \* the chat+topic a message is sent to
    MsgId,       \* Telegram's message ID, unique within one chat only
    Background,  \* the messages that are /bg commands
    NoMsg

ASSUME KeyOfAssumption      == KeyOf \in [Msgs -> Keys]
ASSUME NoMsgAssumption      == NoMsg \notin Msgs
ASSUME BackgroundAssumption == Background \subseteq Msgs

Ids  == {MsgId[m] : m \in Msgs}
Text == Msgs \ Background

VARIABLES
    arrived,          \* messages whose handler has reached the dispatcher
    msgs,             \* topicQueue.msgs
    running,          \* topicQueue.running
    armed,            \* topicQueue.debounce points to a timer that can still fire
    orphans,          \* armed timers that no topicQueue.debounce points to
    callbacks,        \* fired timers whose callback has not had pendingMu yet
    pc,               \* pc[m]: progress of the dispatchJob that replies to m
    batch,            \* batch[m]: the messages combined in that job
    userCancelled,    \* jobs whose dispatchJob set its userCancelled flag
    cancelReactions,  \* cancelReactions[id]: the job a reaction on id cancels
    ctxDone,          \* jobs whose jobCtx is cancelled
    cancelling,       \* jobs whose cancel function a reaction has taken, not yet called
    hits,             \* jobs for which a reaction has answered "Cancelled"
    fate,             \* fate[m]: what the sender of m got
    pending, outcome  \* the runner: see JobService

bufferVars == <<msgs, running, armed, orphans, callbacks>>
jobVars    == <<pc, batch, userCancelled>>
cancelVars == <<cancelReactions, ctxDone, cancelling, hits>>
runnerVars == <<pending, outcome>>
vars == <<arrived, bufferVars, jobVars, cancelVars, fate, runnerVars>>

Runner == INSTANCE JobService WITH Jobs <- Msgs

PcStates == {"none", "register", "submit", "waiting", "check", "cleanup",
             "reply", "release", "drain", "done"}
Idle     == {"none", "done"}
InBatch(m)  == {batch[m][i] : i \in DOMAIN batch[m]}
Buffered(k) == {msgs[k][i] : i \in DOMAIN msgs[k]}
LastOf(s) == s[Len(s)]

Init ==
    /\ arrived = {}
    /\ msgs = [k \in Keys |-> <<>>]
    /\ running = [k \in Keys |-> FALSE]
    /\ armed = [k \in Keys |-> FALSE]
    /\ orphans = [k \in Keys |-> 0]
    /\ callbacks = [k \in Keys |-> 0]
    /\ pc = [m \in Msgs |-> "none"]
    /\ batch = [m \in Msgs |-> <<>>]
    /\ userCancelled = {}
    /\ cancelReactions = [id \in Ids |-> NoMsg]
    /\ ctxDone = {}
    /\ cancelling = {}
    /\ hits = {}
    /\ fate = [m \in Msgs |-> "none"]
    /\ Runner!Init

-----------------------------------------------------------------------------
(* Seeded faults.  No specification uses these: each is a plausible slip in the
   action it is named after, and shows that a property would notice it. *)

(* submitOrQueue stops the old timer and forgets to arm a new one. *)
DebounceText_NotArmed(m) ==
    /\ m \in Text \ arrived
    /\ ~running[KeyOf[m]]
    /\ arrived' = arrived \cup {m}
    /\ msgs' = [msgs EXCEPT ![KeyOf[m]] = Append(@, m)]
    /\ armed' = [armed EXCEPT ![KeyOf[m]] = FALSE]
    /\ UNCHANGED <<running, orphans, callbacks, jobVars, cancelVars, fate, runnerVars>>

(* The callback copies the buffer and does not empty it. *)
CallbackRun_KeepsBuffer(k) ==
    /\ callbacks[k] > 0
    /\ msgs[k] # <<>>
    /\ callbacks' = [callbacks EXCEPT ![k] = @ - 1]
    /\ running' = [running EXCEPT ![k] = TRUE]
    /\ orphans' = [orphans EXCEPT ![k] = IF armed[k] THEN @ + 1 ELSE @]
    /\ armed' = [armed EXCEPT ![k] = FALSE]
    /\ batch' = [batch EXCEPT ![LastOf(msgs[k])] = msgs[k]]
    /\ pc' = [pc EXCEPT ![LastOf(msgs[k])] = "register"]
    /\ UNCHANGED <<arrived, msgs, userCancelled, cancelVars, fate, runnerVars>>

(* The job is submitted before its cancel function is entered. *)
Register_NoEntry(m) ==
    /\ pc[m] = "register"
    /\ pc' = [pc EXCEPT ![m] = "submit"]
    /\ UNCHANGED <<arrived, bufferVars, batch, userCancelled, cancelVars, fate, runnerVars>>

(* cleanup runs before the context is looked at. *)
Receive_CleansUpFirst(m) ==
    /\ pc[m] = "waiting"
    /\ outcome[m] # "accepted"
    /\ pc' = [pc EXCEPT ![m] = "check"]
    /\ cancelReactions' = [cancelReactions EXCEPT ![MsgId[m]] = NoMsg]
    /\ ctxDone' = ctxDone \cup {m}
    /\ UNCHANGED <<arrived, bufferVars, batch, userCancelled, cancelling, hits,
                   fate, runnerVars>>

(* cleanup ends the context and leaves the entry. *)
Cleanup_KeepsEntry(m) ==
    /\ pc[m] = "cleanup"
    /\ ctxDone' = ctxDone \cup {m}
    /\ pc' = [pc EXCEPT ![m] = IF m \in Background THEN "done"
                               ELSE IF m \in userCancelled THEN "drain" ELSE "reply"]
    /\ UNCHANGED <<arrived, bufferVars, batch, userCancelled, cancelReactions,
                   cancelling, hits, fate, runnerVars>>

(* The cancelled job goes on to its reply: a return is missing. *)
Cleanup_RepliesAnyway(m) ==
    /\ pc[m] = "cleanup"
    /\ cancelReactions' = [cancelReactions EXCEPT ![MsgId[m]] = NoMsg]
    /\ ctxDone' = ctxDone \cup {m}
    /\ pc' = [pc EXCEPT ![m] = IF m \in Background THEN "done" ELSE "reply"]
    /\ UNCHANGED <<arrived, bufferVars, batch, userCancelled, cancelling, hits, fate, runnerVars>>

(* onDone leaves running up. *)
ReleaseIdle_StaysRunning(m) ==
    /\ pc[m] = "release"
    /\ msgs[KeyOf[m]] = <<>>
    /\ pc' = [pc EXCEPT ![m] = "done"]
    /\ UNCHANGED <<arrived, bufferVars, batch, userCancelled, cancelVars, fate, runnerVars>>

(* onDone empties the buffer and starts nothing. *)
ReleaseNext_LosesBatch(m) ==
    /\ pc[m] = "release"
    /\ msgs[KeyOf[m]] # <<>>
    /\ msgs' = [msgs EXCEPT ![KeyOf[m]] = <<>>]
    /\ running' = [running EXCEPT ![KeyOf[m]] = FALSE]
    /\ pc' = [pc EXCEPT ![m] = "done"]
    /\ UNCHANGED <<arrived, armed, orphans, callbacks, batch, userCancelled,
                   cancelVars, fate, runnerVars>>

(* drainPending leaves running up. *)
Drain_StaysRunning(m) ==
    /\ pc[m] = "drain"
    /\ fate' = [n \in Msgs |-> IF n \in Buffered(KeyOf[m]) THEN "discarded" ELSE fate[n]]
    /\ msgs' = [msgs EXCEPT ![KeyOf[m]] = <<>>]
    /\ armed' = [armed EXCEPT ![KeyOf[m]] = FALSE]
    /\ pc' = [pc EXCEPT ![m] = IF m \in Background THEN "cleanup" ELSE "done"]
    /\ UNCHANGED <<arrived, running, orphans, callbacks, batch, userCancelled,
                   cancelVars, runnerVars>>

(* The entry is used without looking whether there is one. *)
React_WithoutEntry(m) ==
    /\ m \in arrived
    /\ cancelling' = cancelling \cup {cancelReactions[MsgId[m]]}
    /\ cancelReactions' = [cancelReactions EXCEPT ![MsgId[m]] = NoMsg]
    /\ UNCHANGED <<arrived, bufferVars, jobVars, ctxDone, hits, fate, runnerVars>>

-----------------------------------------------------------------------------
(* Messages in: submitOrQueue and /bg *)

(* submitOrQueue while a batch runs: the message waits in the buffer. *)
QueueText(m) ==
    /\ m \in Text \ arrived
    /\ running[KeyOf[m]]
    /\ arrived' = arrived \cup {m}
    /\ msgs' = [msgs EXCEPT ![KeyOf[m]] = Append(@, m)]
    /\ UNCHANGED <<running, armed, orphans, callbacks, jobVars, cancelVars,
                   fate, runnerVars>>

(* submitOrQueue otherwise: Stop() the timer debounce points to, if it has not
   fired, and arm a new one. *)
DebounceText(m) ==
    /\ m \in Text \ arrived
    /\ ~running[KeyOf[m]]
    /\ arrived' = arrived \cup {m}
    /\ msgs' = [msgs EXCEPT ![KeyOf[m]] = Append(@, m)]
    /\ armed' = [armed EXCEPT ![KeyOf[m]] = TRUE]
    /\ UNCHANGED <<running, orphans, callbacks, jobVars, cancelVars, fate, runnerVars>>

(* /bg: dispatchJob at once, outside the buffer. *)
Bg(m) ==
    /\ m \in Background \ arrived
    /\ arrived' = arrived \cup {m}
    /\ pc' = [pc EXCEPT ![m] = "register"]
    /\ batch' = [batch EXCEPT ![m] = <<m>>]
    /\ UNCHANGED <<bufferVars, userCancelled, cancelVars, fate, runnerVars>>

-----------------------------------------------------------------------------
(* The debounce timers *)

(* A timer fires: its callback is now a goroutine that wants pendingMu, and
   Stop() does not reach it any more. *)
Fire(k) ==
    /\ armed[k]
    /\ armed' = [armed EXCEPT ![k] = FALSE]
    /\ callbacks' = [callbacks EXCEPT ![k] = @ + 1]
    /\ UNCHANGED <<arrived, msgs, running, orphans, jobVars, cancelVars, fate, runnerVars>>

FireOrphan(k) ==
    /\ orphans[k] > 0
    /\ orphans' = [orphans EXCEPT ![k] = @ - 1]
    /\ callbacks' = [callbacks EXCEPT ![k] = @ + 1]
    /\ UNCHANGED <<arrived, msgs, running, armed, jobVars, cancelVars, fate, runnerVars>>

(* The callback finds nothing to do. *)
CallbackEmpty(k) ==
    /\ callbacks[k] > 0
    /\ msgs[k] = <<>>
    /\ callbacks' = [callbacks EXCEPT ![k] = @ - 1]
    /\ UNCHANGED <<arrived, msgs, running, armed, orphans, jobVars, cancelVars,
                   fate, runnerVars>>

(* The callback takes the buffer as a batch.  It clears debounce, which may by
   now point to a younger, armed timer, and does not look at running. *)
CallbackRun(k) ==
    /\ callbacks[k] > 0
    /\ msgs[k] # <<>>
    /\ callbacks' = [callbacks EXCEPT ![k] = @ - 1]
    /\ running' = [running EXCEPT ![k] = TRUE]
    /\ orphans' = [orphans EXCEPT ![k] = IF armed[k] THEN @ + 1 ELSE @]
    /\ armed' = [armed EXCEPT ![k] = FALSE]
    /\ msgs' = [msgs EXCEPT ![k] = <<>>]
    /\ batch' = [batch EXCEPT ![LastOf(msgs[k])] = msgs[k]]
    /\ pc' = [pc EXCEPT ![LastOf(msgs[k])] = "register"]
    /\ UNCHANGED <<arrived, userCancelled, cancelVars, fate, runnerVars>>

-----------------------------------------------------------------------------
(* dispatchJob *)

(* jobCtx is made and its cancel function entered under the message ID. *)
Register(m) ==
    /\ pc[m] = "register"
    /\ cancelReactions' = [cancelReactions EXCEPT ![MsgId[m]] = m]
    /\ pc' = [pc EXCEPT ![m] = "submit"]
    /\ UNCHANGED <<arrived, bufferVars, batch, userCancelled, ctxDone, cancelling,
                   hits, fate, runnerVars>>

(* Manager.Submit lines the job up, or refuses it when it is cancelled. *)
Submit(m) ==
    /\ pc[m] = "submit"
    /\ \/ Runner!Accept(m)
       \/ m \in ctxDone /\ Runner!Refuse(m)
    /\ pc' = [pc EXCEPT ![m] = "waiting"]
    /\ UNCHANGED <<arrived, bufferVars, batch, userCancelled, cancelVars, fate>>

(* The runner answers the oldest job of a key; a job under a cancelled context
   may have finished all the same. *)
RunnerAnswers(k, answer) ==
    /\ Runner!Resolve(k, answer)
    /\ UNCHANGED <<arrived, bufferVars, jobVars, cancelVars, fate>>

(* result := <-resultCh, and the progress loop has ended. *)
Receive(m) ==
    /\ pc[m] = "waiting"
    /\ outcome[m] # "accepted"
    /\ pc' = [pc EXCEPT ![m] = "check"]
    /\ UNCHANGED <<arrived, bufferVars, batch, userCancelled, cancelVars, fate, runnerVars>>

Settle(m, what) == [n \in Msgs |-> IF n \in InBatch(m) THEN what ELSE fate[n]]

(* Foreground, jobCtx cancelled: whatever the result, no reply. *)
CheckCancelled(m) ==
    /\ pc[m] = "check"
    /\ m \in Text \cap ctxDone
    /\ userCancelled' = userCancelled \cup {m}
    /\ fate' = Settle(m, "cancelled")
    /\ pc' = [pc EXCEPT ![m] = "cleanup"]
    /\ UNCHANGED <<arrived, bufferVars, batch, cancelVars, runnerVars>>

CheckAlive(m) ==
    /\ pc[m] = "check"
    /\ m \in Text \ ctxDone
    /\ pc' = [pc EXCEPT ![m] = "cleanup"]
    /\ UNCHANGED <<arrived, bufferVars, batch, userCancelled, cancelVars, fate, runnerVars>>

(* Background: jobCtx is only looked at when the result is an error. *)
CheckBackground(m) ==
    /\ pc[m] = "check"
    /\ m \in Background
    /\ IF outcome[m] # "ok" /\ m \in ctxDone
       THEN fate' = Settle(m, "cancelled") /\ pc' = [pc EXCEPT ![m] = "drain"]
       ELSE UNCHANGED fate /\ pc' = [pc EXCEPT ![m] = "reply"]
    /\ UNCHANGED <<arrived, bufferVars, batch, userCancelled, cancelVars, runnerVars>>

(* cleanup(): the entry under this message ID goes, whoever made it, and jobCtx
   ends.  A foreground job does this before its reply, a background job after. *)
Cleanup(m) ==
    /\ pc[m] = "cleanup"
    /\ cancelReactions' = [cancelReactions EXCEPT ![MsgId[m]] = NoMsg]
    /\ ctxDone' = ctxDone \cup {m}
    /\ pc' = [pc EXCEPT ![m] = IF m \in Background THEN "done"
                               ELSE IF m \in userCancelled THEN "drain" ELSE "reply"]
    /\ UNCHANGED <<arrived, bufferVars, batch, userCancelled, cancelling, hits, fate, runnerVars>>

(* The output, or the error message, goes to the chat. *)
Reply(m) ==
    /\ pc[m] = "reply"
    /\ fate' = Settle(m, IF outcome[m] = "ok" THEN "answered" ELSE "failed")
    /\ pc' = [pc EXCEPT ![m] = IF m \in Background THEN "cleanup" ELSE "release"]
    /\ UNCHANGED <<arrived, bufferVars, batch, userCancelled, cancelVars, runnerVars>>

(* onDone with an empty buffer: the topic is free again. *)
ReleaseIdle(m) ==
    /\ pc[m] = "release"
    /\ msgs[KeyOf[m]] = <<>>
    /\ running' = [running EXCEPT ![KeyOf[m]] = FALSE]
    /\ pc' = [pc EXCEPT ![m] = "done"]
    /\ UNCHANGED <<arrived, msgs, armed, orphans, callbacks, batch, userCancelled,
                   cancelVars, fate, runnerVars>>

(* onDone with messages waiting: they are the next batch. *)
ReleaseNext(m) ==
    /\ pc[m] = "release"
    /\ LET waiting == msgs[KeyOf[m]] IN
          /\ waiting # <<>>
          /\ batch' = [batch EXCEPT ![LastOf(waiting)] = waiting]
          /\ pc' = [pc EXCEPT ![m] = "done", ![LastOf(waiting)] = "register"]
    /\ msgs' = [msgs EXCEPT ![KeyOf[m]] = <<>>]
    /\ UNCHANGED <<arrived, running, armed, orphans, callbacks, userCancelled,
                   cancelVars, fate, runnerVars>>

(* drainPending: the waiting messages are thrown away, the timer debounce points
   to is stopped and the topic is free, whatever else is active in it. *)
Drain(m) ==
    /\ pc[m] = "drain"
    /\ fate' = [n \in Msgs |-> IF n \in Buffered(KeyOf[m]) THEN "discarded" ELSE fate[n]]
    /\ msgs' = [msgs EXCEPT ![KeyOf[m]] = <<>>]
    /\ running' = [running EXCEPT ![KeyOf[m]] = FALSE]
    /\ armed' = [armed EXCEPT ![KeyOf[m]] = FALSE]
    /\ pc' = [pc EXCEPT ![m] = IF m \in Background THEN "cleanup" ELSE "done"]
    /\ UNCHANGED <<arrived, orphans, callbacks, batch, userCancelled, cancelVars, runnerVars>>

-----------------------------------------------------------------------------
(* handleReactionCancel *)

(* A cancel emoji on message m, while some job is entered under m's ID: the
   entry is taken out of the map.  The chat of the reaction plays no part.
   Without an entry nothing happens. *)
React(m) ==
    /\ m \in arrived
    /\ cancelReactions[MsgId[m]] # NoMsg
    /\ cancelling' = cancelling \cup {cancelReactions[MsgId[m]]}
    /\ cancelReactions' = [cancelReactions EXCEPT ![MsgId[m]] = NoMsg]
    /\ UNCHANGED <<arrived, bufferVars, jobVars, ctxDone, hits, fate, runnerVars>>

(* After cancelMu is released: cancel() and the "Cancelled" message. *)
CallCancel(m) ==
    /\ m \in cancelling
    /\ cancelling' = cancelling \ {m}
    /\ ctxDone' = ctxDone \cup {m}
    /\ hits' = hits \cup {m}
    /\ UNCHANGED <<arrived, bufferVars, jobVars, cancelReactions, fate, runnerVars>>

-----------------------------------------------------------------------------
TimerStep(k) == Fire(k) \/ FireOrphan(k) \/ CallbackEmpty(k) \/ CallbackRun(k)

JobStep(m) ==
    \/ Register(m) \/ Submit(m) \/ Receive(m)
    \/ CheckCancelled(m) \/ CheckAlive(m) \/ CheckBackground(m)
    \/ Cleanup(m) \/ Reply(m) \/ ReleaseIdle(m) \/ ReleaseNext(m) \/ Drain(m)

RunnerStep(k) == \E answer \in Runner!Answers : RunnerAnswers(k, answer)

Next ==
    \/ \E m \in Msgs : \/ QueueText(m) \/ DebounceText(m) \/ Bg(m)
                       \/ JobStep(m) \/ React(m) \/ CallCancel(m)
    \/ \E k \in Keys : TimerStep(k) \/ RunnerStep(k)

Spec == Init /\ [][Next]_vars

(* Armed timers fire, goroutines that can run do run, and the runner answers
   what it has accepted (RunnerQueue: EverySubmissionSettles).  Users owe
   nothing: no fairness on messages and reactions. *)
Fairness ==
    /\ \A k \in Keys : WF_vars(Fire(k)) /\ WF_vars(FireOrphan(k))
                      /\ WF_vars(CallbackEmpty(k) \/ CallbackRun(k))
                      /\ WF_vars(RunnerStep(k))
    /\ \A m \in Msgs : WF_vars(JobStep(m)) /\ WF_vars(CallCancel(m))

FairSpec == Spec /\ Fairness

-----------------------------------------------------------------------------
(* Properties *)

TypeOK ==
    /\ arrived \subseteq Msgs
    /\ msgs \in [Keys -> Seq(Msgs)]
    /\ running \in [Keys -> BOOLEAN]
    /\ armed \in [Keys -> BOOLEAN]
    /\ orphans \in [Keys -> Nat]
    /\ callbacks \in [Keys -> Nat]
    /\ pc \in [Msgs -> PcStates]
    /\ batch \in [Msgs -> Seq(Msgs)]
    /\ userCancelled \subseteq Msgs
    /\ cancelReactions \in [Ids -> Msgs \cup {NoMsg}]
    /\ ctxDone \subseteq Msgs
    /\ cancelling \subseteq Msgs
    /\ hits \subseteq Msgs
    /\ fate \in [Msgs -> {"none", "answered", "failed", "cancelled", "discarded"}]
    /\ Runner!TypeOK

(* The foreground batches of a topic that have not come to their end. *)
ActiveBatches(k) == {m \in Text : KeyOf[m] = k /\ pc[m] \notin Idle}

(* Under every order of timers, callbacks, cancellations and completions, the
   running flag is only up while a batch of the topic is there to take it
   down: a topic never locks up. *)
RunningHasBatch == \A k \in Keys : running[k] => ActiveBatches(k) # {}

(* A buffered message always has someone who will look at the buffer: an armed
   timer, a fired one, or a batch that has yet to end. *)
NoStrandedMessage ==
    \A k \in Keys : msgs[k] # <<>> =>
        armed[k] \/ orphans[k] > 0 \/ callbacks[k] > 0 \/ ActiveBatches(k) # {}

(* No message is dispatched twice: none occurs twice in the buffer, in two
   batches, or both in the buffer and in a batch, although a stale callback,
   the end of a batch and a cancellation may all go for the same buffer. *)
DispatchedOnce ==
    /\ \A k \in Keys : \A i, j \in DOMAIN msgs[k] : msgs[k][i] = msgs[k][j] => i = j
    /\ \A m, n \in Msgs : m # n => InBatch(m) \cap InBatch(n) = {}
    /\ \A k \in Keys, m \in Msgs : Buffered(k) \cap InBatch(m) = {}

(* No message is forgotten: whatever arrived is buffered, part of a batch, or
   was discarded by a cancellation. *)
NoneForgotten ==
    \A m \in arrived : \/ m \in Buffered(KeyOf[m])
                       \/ \E n \in Msgs : m \in InBatch(n)
                       \/ fate[m] = "discarded"

(* jobCtx is registered: dispatchJob is between Register and Cleanup. *)
Registered(m) ==
    pc[m] \in {"submit", "waiting", "check", "cleanup"}
              \cup (IF m \in Background THEN {"reply", "drain"} ELSE {})

(* A cancel entry belongs to a job that still runs and was not cancelled: a
   late reaction never says "Cancelled" for a job that is over, even when two
   chats use the same message ID and clean up after each other. *)
EntriesAreLive ==
    \A id \in Ids : cancelReactions[id] # NoMsg =>
        LET m == cancelReactions[id]
        IN  Registered(m) /\ m \notin ctxDone /\ m \notin cancelling

(* While nobody cancelled it, a running job whose message ID is used in one chat
   only can be cancelled by a reaction on it. *)
JobsCanBeCancelled ==
    \A m \in Msgs :
        /\ Registered(m)
        /\ m \notin cancelling \cup hits
        /\ \A n \in Msgs \ {m} : MsgId[n] # MsgId[m]
        => cancelReactions[MsgId[m]] = m

(* Waiting messages are thrown away for one reason only: a user has cancelled a
   job of the same topic.  In particular the jobCancel that ends every normal
   job (dispatchJob's cleanup) is never mistaken for one. *)
DiscardNeedsCancel ==
    \A m \in Msgs : fate[m] = "discarded" =>
        \E n \in hits : KeyOf[n] = KeyOf[m]

(* What became of a message is decided once: no second reply, no reply to a
   discarded message, no discard of an answered one. *)
FateIsFinal == [][\A m \in Msgs : fate[m] # "none" => fate'[m] = fate[m]]_fate

(* Every message comes to an end: answered, failed, cancelled or discarded. *)
EveryMessageSettles == \A m \in Msgs : m \in arrived ~> fate[m] # "none"

(* submitOrQueue: "If a job is running, the message waits; runBatch will pick
   it up when done."  At most one batch of a topic is under way. *)
OneBatchPerTopic == \A k \in Keys : Cardinality(ActiveBatches(k)) <= 1

(* drainPending: "Called on cancellation so queued messages are not
   auto-dispatched after a cancel." *)
CancelHoldsTheQueue == [][\A m \in hits : ~ReleaseNext(m)]_vars

(* handleReactionCancel: "if it is a cancel emoji, cancels the corresponding
   task": the task of the chat the reaction was made in. *)
ReactionHitsOwnTopic ==
    [][\A m \in Msgs : React(m) => KeyOf[cancelReactions[MsgId[m]]] = KeyOf[m]]_vars
===============================================================================

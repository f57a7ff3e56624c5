------------------------- MODULE TopicDispatch_proofs -------------------------
(***************************************************************************)
(* Proofs about TopicDispatch, for any set of topics, messages and message *)
(* IDs.                                                                    *)
(***************************************************************************)
EXTENDS TopicDispatch, FiniteSetTheorems, TLAPS

(* The state variables keep their types. *)
THEOREM TypeCorrect == Spec => []TypeOK
<1>1. Init => TypeOK
  BY NoMsgAssumption DEF Init, TypeOK, PcStates, Runner!Init, Runner!TypeOK, Runner!Outcomes
<1>2. TypeOK /\ [Next]_vars => TypeOK'
  <2> SUFFICES ASSUME TypeOK, [Next]_vars PROVE TypeOK'
    OBVIOUS
  <2> USE DEF TypeOK, Runner!TypeOK
  <2>1. ASSUME NEW m \in Msgs, QueueText(m) PROVE TypeOK'
    BY <2>1, KeyOfAssumption DEF QueueText, jobVars, cancelVars, runnerVars
  <2>2. ASSUME NEW m \in Msgs, DebounceText(m) PROVE TypeOK'
    <3>1. KeyOf[m] \in Keys
      BY KeyOfAssumption
    <3>2. msgs' \in [Keys -> Seq(Msgs)]
      BY <2>2, <3>1 DEF DebounceText
    <3> QED BY <2>2, <3>1, <3>2 DEF DebounceText, jobVars, cancelVars, runnerVars
  <2>3. ASSUME NEW m \in Msgs, Bg(m) PROVE TypeOK'
    BY <2>3, BackgroundAssumption DEF Bg, PcStates, bufferVars, cancelVars, runnerVars
  <2>4. ASSUME NEW k \in Keys, Fire(k) PROVE TypeOK'
    BY <2>4 DEF Fire, jobVars, cancelVars, runnerVars
  <2>5. ASSUME NEW k \in Keys, FireOrphan(k) PROVE TypeOK'
    BY <2>5 DEF FireOrphan, jobVars, cancelVars, runnerVars
  <2>6. ASSUME NEW k \in Keys, CallbackEmpty(k) PROVE TypeOK'
    BY <2>6 DEF CallbackEmpty, jobVars, cancelVars, runnerVars
  <2>7. ASSUME NEW k \in Keys, CallbackRun(k) PROVE TypeOK'
    <3>1. LastOf(msgs[k]) \in Msgs
      BY <2>7 DEF CallbackRun, LastOf
    <3> QED BY <2>7, <3>1 DEF CallbackRun, PcStates, cancelVars, runnerVars
  <2>8. ASSUME NEW m \in Msgs, Register(m) PROVE TypeOK'
    BY <2>8 DEF Register, PcStates, bufferVars, runnerVars
  <2>9. ASSUME NEW m \in Msgs, Submit(m) PROVE TypeOK'
    <3>1. KeyOf[m] \in Keys
      BY KeyOfAssumption
    <3>2. pending' \in [Keys -> Seq(Msgs)] /\ outcome' \in [Msgs -> Runner!Outcomes]
      <4>1. CASE Runner!Accept(m)
        BY <3>1, <4>1 DEF Runner!Accept, Runner!Outcomes
      <4>2. CASE Runner!Refuse(m)
        BY <4>2 DEF Runner!Refuse, Runner!Outcomes
      <4> QED BY <2>9, <4>1, <4>2 DEF Submit
    <3> QED BY <2>9, <3>2 DEF Submit, PcStates, bufferVars, cancelVars
  <2>10. ASSUME NEW k \in Keys, RunnerStep(k) PROVE TypeOK'
    BY <2>10 DEF RunnerStep, RunnerAnswers, Runner!Resolve, Runner!Answers, Runner!Outcomes, bufferVars, jobVars, cancelVars
  <2>11. ASSUME NEW m \in Msgs, Receive(m) PROVE TypeOK'
    BY <2>11 DEF Receive, PcStates, bufferVars, cancelVars, runnerVars
  <2>12. ASSUME NEW m \in Msgs, CheckCancelled(m) PROVE TypeOK'
    BY <2>12 DEF CheckCancelled, PcStates, Settle, bufferVars, cancelVars, runnerVars
  <2>13. ASSUME NEW m \in Msgs, CheckAlive(m) PROVE TypeOK'
    BY <2>13 DEF CheckAlive, PcStates, bufferVars, cancelVars, runnerVars
  <2>14. ASSUME NEW m \in Msgs, CheckBackground(m) PROVE TypeOK'
    BY <2>14 DEF CheckBackground, PcStates, Settle, bufferVars, cancelVars, runnerVars
  <2>15. ASSUME NEW m \in Msgs, Cleanup(m) PROVE TypeOK'
    BY <2>15 DEF Cleanup, PcStates, bufferVars, runnerVars
  <2>16. ASSUME NEW m \in Msgs, Reply(m) PROVE TypeOK'
    BY <2>16 DEF Reply, PcStates, Settle, bufferVars, cancelVars, runnerVars
  <2>17. ASSUME NEW m \in Msgs, ReleaseIdle(m) PROVE TypeOK'
    BY <2>17, KeyOfAssumption DEF ReleaseIdle, PcStates, cancelVars, runnerVars
  <2>18. ASSUME NEW m \in Msgs, ReleaseNext(m) PROVE TypeOK'
    <3>0. KeyOf[m] \in Keys
      BY KeyOfAssumption
    <3>1. LastOf(msgs[KeyOf[m]]) \in Msgs
      BY <3>0, <2>18 DEF ReleaseNext, LastOf
    <3>2. batch' \in [Msgs -> Seq(Msgs)] /\ msgs' \in [Keys -> Seq(Msgs)]
      <4>1. batch' = [batch EXCEPT ![LastOf(msgs[KeyOf[m]])] = msgs[KeyOf[m]]]
        BY <2>18 DEF ReleaseNext
      <4>2. msgs' = [msgs EXCEPT ![KeyOf[m]] = <<>>]
        BY <2>18 DEF ReleaseNext
      <4> QED BY <3>0, <3>1, <4>1, <4>2
    <3>3. pc' \in [Msgs -> PcStates]
      <4>1. pc' = [pc EXCEPT ![m] = "done", ![LastOf(msgs[KeyOf[m]])] = "register"]
        BY <2>18 DEF ReleaseNext
      <4> QED BY <3>1, <4>1 DEF PcStates
    <3>4. UNCHANGED <<arrived, running, armed, orphans, callbacks, userCancelled,
                      cancelReactions, ctxDone, cancelling, hits, fate, pending, outcome>>
      BY <2>18 DEF ReleaseNext, cancelVars, runnerVars
    <3> QED BY <3>2, <3>3, <3>4
  <2>19. ASSUME NEW m \in Msgs, Drain(m) PROVE TypeOK'
    <3>1. KeyOf[m] \in Keys
      BY KeyOfAssumption
    <3>2. /\ msgs' \in [Keys -> Seq(Msgs)] /\ running' \in [Keys -> BOOLEAN]
          /\ armed' \in [Keys -> BOOLEAN]
      BY <2>19, <3>1 DEF Drain
    <3>3. pc' \in [Msgs -> PcStates]
      BY <2>19 DEF Drain, PcStates
    <3> QED BY <2>19, <3>2, <3>3 DEF Drain, cancelVars, runnerVars
  <2>20. ASSUME NEW m \in Msgs, React(m) PROVE TypeOK'
    <3>1. MsgId[m] \in Ids
      BY DEF Ids
    <3>2. cancelling' \subseteq Msgs /\ cancelReactions' \in [Ids -> Msgs \cup {NoMsg}]
      BY <2>20, <3>1 DEF React
    <3> QED BY <2>20, <3>2 DEF React, bufferVars, jobVars, runnerVars
  <2>21. ASSUME NEW m \in Msgs, CallCancel(m) PROVE TypeOK'
    BY <2>21 DEF CallCancel, bufferVars, jobVars, runnerVars
  <2>22. CASE UNCHANGED vars
    BY <2>22 DEF vars, bufferVars, jobVars, cancelVars, runnerVars
  <2> QED
    BY <2>1, <2>2, <2>3, <2>4, <2>5, <2>6, <2>7, <2>8, <2>9, <2>10, <2>11, <2>12, <2>13, <2>14, <2>15, <2>16, <2>17, <2>18, <2>19, <2>20, <2>21, <2>22
    DEF Next, JobStep, TimerStep
<1> QED
  BY <1>1, <1>2, PTL DEF Spec

-----------------------------------------------------------------------------
(* Where messages are *)

(* A buffered message is a text message of this topic, not dispatched and not
   decided. *)
BufferOK ==
    \A k \in Keys : \A m \in Buffered(k) :
        /\ m \in Text /\ m \in arrived
        /\ KeyOf[m] = k
        /\ pc[m] = "none" /\ fate[m] = "none"

(* A job exists from the moment its batch is made, and combines messages of its
   own topic. *)
BatchOK ==
    \A m \in Msgs :
        /\ pc[m] = "none" => InBatch(m) = {}
        /\ pc[m] # "none" => m \in arrived /\ m \in InBatch(m)
        /\ \A n \in InBatch(m) : n \in arrived /\ KeyOf[n] = KeyOf[m]

Unarrived == \A m \in Msgs \ arrived : fate[m] = "none"

Placement == BufferOK /\ BatchOK /\ Unarrived /\ DispatchedOnce

(* The sets of buffered and batched messages only depend on msgs and batch. *)
LEMMA SameSets ==
    ASSUME UNCHANGED <<msgs, batch>>
    PROVE  /\ \A k \in Keys : Buffered(k)' = Buffered(k)
           /\ \A m \in Msgs : InBatch(m)' = InBatch(m)
           /\ DispatchedOnce' <=> DispatchedOnce
  BY DEF Buffered, InBatch, DispatchedOnce

(* What putting a message at the end of a buffer does. *)
LEMMA AppendFacts ==
    ASSUME TypeOK, NEW k \in Keys, NEW m \in Msgs,
           msgs' = [msgs EXCEPT ![k] = Append(@, m)]
    PROVE  /\ Buffered(k)' = Buffered(k) \cup {m}
           /\ \A o \in Keys \ {k} : Buffered(o)' = Buffered(o)
<1> DEFINE q == msgs[k]
<1>1. q \in Seq(Msgs) /\ msgs'[k] = Append(q, m)
  BY DEF TypeOK
<1>2. /\ DOMAIN msgs'[k] = DOMAIN q \cup {Len(q) + 1}
      /\ \A i \in DOMAIN q : msgs'[k][i] = q[i]
      /\ msgs'[k][Len(q) + 1] = m
  BY <1>1
<1>3. Buffered(k)' = Buffered(k) \cup {m}
  BY <1>2 DEF Buffered
<1>4. \A o \in Keys \ {k} : Buffered(o)' = Buffered(o)
  BY DEF Buffered, TypeOK
<1> QED BY <1>3, <1>4

(* The last message of a buffer is a message. *)
LEMMA LastIsBuffered ==
    ASSUME TypeOK, NEW k \in Keys, msgs[k] # <<>>
    PROVE  LastOf(msgs[k]) \in Buffered(k) /\ LastOf(msgs[k]) \in Msgs
<1>1. msgs[k] \in Seq(Msgs)
  BY DEF TypeOK
<1>2. Len(msgs[k]) \in DOMAIN msgs[k] /\ LastOf(msgs[k]) \in Msgs
  BY <1>1 DEF LastOf
<1> QED BY <1>2 DEF Buffered, LastOf

(* What turning a buffer into a batch does. *)
LEMMA TakeFacts ==
    ASSUME TypeOK, NEW k \in Keys, NEW last \in Msgs,
           msgs' = [msgs EXCEPT ![k] = <<>>],
           batch' = [batch EXCEPT ![last] = msgs[k]]
    PROVE  /\ Buffered(k)' = {}
           /\ \A o \in Keys \ {k} : Buffered(o)' = Buffered(o)
           /\ InBatch(last)' = Buffered(k)
           /\ \A m \in Msgs \ {last} : InBatch(m)' = InBatch(m)
<1>1. msgs'[k] = <<>> /\ DOMAIN msgs'[k] = {}
  BY DEF TypeOK
<1>2. Buffered(k)' = {}
  BY <1>1 DEF Buffered
<1>3. \A o \in Keys \ {k} : Buffered(o)' = Buffered(o)
  BY DEF Buffered, TypeOK
<1>4. InBatch(last)' = Buffered(k)
  <2>1. batch'[last] = msgs[k]
    BY DEF TypeOK
  <2> QED BY <2>1 DEF InBatch, Buffered
<1>5. \A m \in Msgs \ {last} : InBatch(m)' = InBatch(m)
  BY DEF InBatch, TypeOK
<1> QED BY <1>2, <1>3, <1>4, <1>5

(* A step of a job that has begun moves its pc and nothing about messages. *)
LEMMA PlacementOfProgress ==
    ASSUME TypeOK, Placement, NEW m \in Msgs, pc[m] # "none",
           UNCHANGED <<arrived, msgs, batch, fate>>,
           pc' \in [Msgs -> PcStates], pc'[m] # "none",
           \A n \in Msgs \ {m} : pc'[n] = pc[n]
    PROVE  Placement'
<1>1. BufferOK'
  BY SameSets DEF Placement, BufferOK, Text
<1>2. BatchOK'
  BY SameSets DEF Placement, BatchOK
<1>3. Unarrived' /\ DispatchedOnce'
  BY SameSets DEF Placement, Unarrived
<1> QED BY <1>1, <1>2, <1>3 DEF Placement

(* The same when the step also decides what its messages get. *)
LEMMA PlacementOfSettling ==
    ASSUME TypeOK, Placement, NEW m \in Msgs, NEW what, pc[m] # "none",
           UNCHANGED <<arrived, msgs, batch>>, fate' = Settle(m, what),
           pc' \in [Msgs -> PcStates], pc'[m] # "none",
           \A n \in Msgs \ {m} : pc'[n] = pc[n]
    PROVE  Placement'
<1>1. \A n \in Msgs : n \notin InBatch(m) => fate'[n] = fate[n]
  BY DEF Settle
<1>2. \A k \in Keys : \A n \in Buffered(k) : n \notin InBatch(m) /\ n # m
  BY DEF Placement, DispatchedOnce, BufferOK
<1>3. BufferOK'
  BY <1>1, <1>2, SameSets DEF Placement, BufferOK, Text
<1>4. BatchOK'
  BY SameSets DEF Placement, BatchOK
<1>5. Unarrived'
  BY <1>1 DEF Placement, Unarrived, BatchOK
<1>6. DispatchedOnce'
  BY SameSets DEF Placement
<1> QED BY <1>3, <1>4, <1>5, <1>6 DEF Placement

(* Turning the buffer into a batch of its last message. *)
LEMMA PlacementOfTaking ==
    ASSUME TypeOK, Placement, NEW k \in Keys, NEW last \in Buffered(k), last \in Msgs,
           msgs' = [msgs EXCEPT ![k] = <<>>],
           batch' = [batch EXCEPT ![last] = msgs[k]],
           UNCHANGED <<arrived, fate>>,
           pc' \in [Msgs -> PcStates], pc'[last] # "none",
           \A n \in Msgs \ {last} : (pc'[n] = "none") <=> (pc[n] = "none")
    PROVE  Placement'
<1>1. /\ Buffered(k)' = {}
      /\ \A o \in Keys \ {k} : Buffered(o)' = Buffered(o)
      /\ InBatch(last)' = Buffered(k)
      /\ \A m \in Msgs \ {last} : InBatch(m)' = InBatch(m)
  BY TakeFacts
<1>2. pc[last] = "none" /\ KeyOf[last] = k /\ last \in arrived
  BY DEF Placement, BufferOK
<1>3. \A o \in Keys \ {k} : last \notin Buffered(o)
  BY <1>2 DEF Placement, BufferOK
<1>4. BufferOK'
  BY <1>1, <1>2, <1>3 DEF Placement, BufferOK, Text
<1>5. BatchOK'
  <2> SUFFICES ASSUME NEW m \in Msgs
               PROVE  /\ pc'[m] = "none" => InBatch(m)' = {}
                      /\ pc'[m] # "none" => m \in arrived /\ m \in InBatch(m)'
                      /\ \A n \in InBatch(m)' : n \in arrived /\ KeyOf[n] = KeyOf[m]
    BY DEF BatchOK
  <2>1. CASE m = last
    <3>1. InBatch(m)' = Buffered(k) /\ m \in Buffered(k)
      BY <2>1, <1>1
    <3>2. \A n \in Buffered(k) : n \in arrived /\ KeyOf[n] = k
      BY DEF Placement, BufferOK
    <3> QED BY <2>1, <3>1, <3>2, <1>2
  <2>2. CASE m # last
    BY <2>2, <1>1, <1>2 DEF Placement, BatchOK
  <2> QED BY <2>1, <2>2
<1>6. Unarrived'
  BY DEF Placement, Unarrived
<1>7. DispatchedOnce'
  <2>1. \A o \in Keys : \A i, j \in DOMAIN msgs'[o] : msgs'[o][i] = msgs'[o][j] => i = j
    <3>1. msgs'[k] = <<>> /\ \A o \in Keys \ {k} : msgs'[o] = msgs[o]
      BY DEF TypeOK
    <3>2. \A i \in DOMAIN <<>> : FALSE
      OBVIOUS
    <3> QED BY <3>1, <3>2 DEF Placement, DispatchedOnce
  <2>2. \A m, n \in Msgs : m # n => InBatch(m)' \cap InBatch(n)' = {}
    <3>1. \A m \in Msgs : Buffered(k) \cap InBatch(m) = {}
      BY DEF Placement, DispatchedOnce
    <3>2. \A m, n \in Msgs : m # n => InBatch(m) \cap InBatch(n) = {}
      BY DEF Placement, DispatchedOnce
    <3> QED BY <1>1, <3>1, <3>2
  <2>3. \A o \in Keys, m \in Msgs : Buffered(o)' \cap InBatch(m)' = {}
    <3>1. \A o \in Keys, m \in Msgs : Buffered(o) \cap InBatch(m) = {}
      BY DEF Placement, DispatchedOnce
    <3>2. \A o \in Keys \ {k} : Buffered(o) \cap Buffered(k) = {}
      BY DEF Placement, BufferOK
    <3> QED BY <1>1, <3>1, <3>2
  <2> QED BY <2>1, <2>2, <2>3 DEF DispatchedOnce
<1> QED BY <1>4, <1>5, <1>6, <1>7 DEF Placement

(* A text message joins the end of its buffer and was nowhere before. *)
LEMMA PlacementOfArrival ==
    ASSUME TypeOK, Placement, NEW m \in Msgs, QueueText(m) \/ DebounceText(m)
    PROVE  Placement'
<1> DEFINE k == KeyOf[m]
<1>1. /\ k \in Keys /\ m \in Text /\ m \notin arrived
      /\ msgs' = [msgs EXCEPT ![k] = Append(@, m)]
      /\ arrived' = arrived \cup {m}
      /\ UNCHANGED <<batch, pc, fate>>
  BY KeyOfAssumption DEF QueueText, DebounceText, jobVars
<1>2. /\ Buffered(k)' = Buffered(k) \cup {m}
      /\ \A o \in Keys \ {k} : Buffered(o)' = Buffered(o)
  <2> HIDE DEF k
  <2> QED BY <1>1, AppendFacts
<1>3. \A n \in Msgs : InBatch(n)' = InBatch(n)
  BY <1>1 DEF InBatch
<1>4. /\ \A o \in Keys : m \notin Buffered(o)
      /\ \A n \in Msgs : m \notin InBatch(n)
      /\ pc[m] = "none" /\ fate[m] = "none"
  BY <1>1 DEF Placement, BufferOK, BatchOK, Unarrived
<1>5. BufferOK'
  <2> SUFFICES ASSUME NEW o \in Keys, NEW n \in Buffered(o)'
               PROVE  /\ n \in Text /\ n \in arrived'
                      /\ KeyOf[n] = o
                      /\ pc'[n] = "none" /\ fate'[n] = "none"
    BY DEF BufferOK, Text
  <2>1. CASE n \in Buffered(o)
    BY <2>1, <1>1 DEF Placement, BufferOK
  <2>2. CASE n \notin Buffered(o)
    BY <2>2, <1>1, <1>2, <1>4
  <2> QED BY <2>1, <2>2
<1>6. BatchOK'
  BY <1>1, <1>3 DEF Placement, BatchOK
<1>7. Unarrived'
  BY <1>1 DEF Placement, Unarrived
<1>8. DispatchedOnce'
  <2>1. \A o \in Keys : \A i, j \in DOMAIN msgs'[o] : msgs'[o][i] = msgs'[o][j] => i = j
    <3>1. \A o \in Keys \ {k} : msgs'[o] = msgs[o]
      BY <1>1 DEF TypeOK
    <3>2. msgs[k] \in Seq(Msgs) /\ msgs'[k] = Append(msgs[k], m)
      BY <1>1 DEF TypeOK
    <3>3. \A i \in DOMAIN msgs[k] : msgs[k][i] # m
      BY <1>1, <1>4 DEF Buffered
    <3>4. /\ DOMAIN msgs'[k] = DOMAIN msgs[k] \cup {Len(msgs[k]) + 1}
          /\ \A i \in DOMAIN msgs[k] : msgs'[k][i] = msgs[k][i]
          /\ msgs'[k][Len(msgs[k]) + 1] = m
      BY <3>2
    <3>5. \A i, j \in DOMAIN msgs[k] : msgs[k][i] = msgs[k][j] => i = j
      BY <1>1 DEF Placement, DispatchedOnce
    <3>6. \A i, j \in DOMAIN msgs'[k] : msgs'[k][i] = msgs'[k][j] => i = j
      <4> HIDE DEF k
      <4> QED BY <3>3, <3>4, <3>5
    <3> QED BY <3>1, <3>6 DEF Placement, DispatchedOnce
  <2>2. \A n, o \in Msgs : n # o => InBatch(n)' \cap InBatch(o)' = {}
    BY <1>3 DEF Placement, DispatchedOnce
  <2>3. \A o \in Keys, n \in Msgs : Buffered(o)' \cap InBatch(n)' = {}
    <3>1. \A o \in Keys, n \in Msgs : Buffered(o) \cap InBatch(n) = {}
      BY DEF Placement, DispatchedOnce
    <3> QED BY <3>1, <1>2, <1>3, <1>4
  <2> QED BY <2>1, <2>2, <2>3 DEF DispatchedOnce
<1> QED BY <1>5, <1>6, <1>7, <1>8 DEF Placement

(* A /bg message is a batch of its own and was nowhere before. *)
LEMMA PlacementOfBg ==
    ASSUME TypeOK, Placement, NEW m \in Msgs, Bg(m)
    PROVE  Placement'
<1>1. /\ m \notin Text /\ m \notin arrived
      /\ arrived' = arrived \cup {m}
      /\ pc'[m] = "register" /\ \A n \in Msgs \ {m} : pc'[n] = pc[n]
      /\ batch'[m] = <<m>> /\ \A n \in Msgs \ {m} : batch'[n] = batch[n]
      /\ UNCHANGED <<msgs, fate>>
  BY DEF Bg, bufferVars, Text, TypeOK
<1>2. /\ InBatch(m)' = {m}
      /\ \A n \in Msgs \ {m} : InBatch(n)' = InBatch(n)
      /\ \A k \in Keys : Buffered(k)' = Buffered(k)
  BY <1>1 DEF InBatch, Buffered
<1>3. /\ \A o \in Keys : m \notin Buffered(o)
      /\ \A n \in Msgs : m \notin InBatch(n)
  BY <1>1 DEF Placement, BufferOK, BatchOK
<1>4. BufferOK'
  BY <1>1, <1>2, <1>3 DEF Placement, BufferOK, Text
<1>5. BatchOK'
  BY <1>1, <1>2 DEF Placement, BatchOK
<1>6. Unarrived'
  BY <1>1 DEF Placement, Unarrived
<1>7. DispatchedOnce'
  <2>1. \A o \in Keys : \A i, j \in DOMAIN msgs'[o] : msgs'[o][i] = msgs'[o][j] => i = j
    BY <1>1 DEF Placement, DispatchedOnce
  <2>2. \A n, o \in Msgs : n # o => InBatch(n)' \cap InBatch(o)' = {}
    BY <1>2, <1>3 DEF Placement, DispatchedOnce
  <2>3. \A o \in Keys, n \in Msgs : Buffered(o)' \cap InBatch(n)' = {}
    BY <1>2, <1>3 DEF Placement, DispatchedOnce
  <2> QED BY <2>1, <2>2, <2>3 DEF DispatchedOnce
<1> QED BY <1>4, <1>5, <1>6, <1>7 DEF Placement

(* drainPending takes the buffered messages out and marks them discarded. *)
LEMMA PlacementOfDrain ==
    ASSUME TypeOK, Placement, NEW m \in Msgs, Drain(m), pc' \in [Msgs -> PcStates]
    PROVE  Placement'
<1> DEFINE k == KeyOf[m]
<1>1. /\ k \in Keys
      /\ pc[m] # "none" /\ pc'[m] # "none" /\ \A n \in Msgs \ {m} : pc'[n] = pc[n]
      /\ msgs'[k] = <<>> /\ \A o \in Keys \ {k} : msgs'[o] = msgs[o]
      /\ \A n \in Msgs : n \notin Buffered(k) => fate'[n] = fate[n]
      /\ UNCHANGED <<arrived, batch>>
  BY KeyOfAssumption DEF Drain, TypeOK
<1>2. /\ Buffered(k)' = {}
      /\ \A o \in Keys \ {k} : Buffered(o)' = Buffered(o)
      /\ \A n \in Msgs : InBatch(n)' = InBatch(n)
  BY <1>1 DEF Buffered, InBatch
<1>3. \A o \in Keys \ {k} : \A n \in Buffered(o) : n \notin Buffered(k) /\ n # m
  BY <1>1 DEF Placement, BufferOK
<1>4. BufferOK'
  BY <1>1, <1>2, <1>3 DEF Placement, BufferOK, Text
<1>5. BatchOK'
  BY <1>1, <1>2 DEF Placement, BatchOK
<1>6. Unarrived'
  BY <1>1 DEF Placement, Unarrived, BufferOK
<1>7. DispatchedOnce'
  <2>1. \A o \in Keys : \A i, j \in DOMAIN msgs'[o] : msgs'[o][i] = msgs'[o][j] => i = j
    <3>1. \A i \in DOMAIN <<>> : FALSE
      OBVIOUS
    <3> QED BY <1>1, <3>1 DEF Placement, DispatchedOnce
  <2>2. \A n, o \in Msgs : n # o => InBatch(n)' \cap InBatch(o)' = {}
    BY <1>2 DEF Placement, DispatchedOnce
  <2>3. \A o \in Keys, n \in Msgs : Buffered(o)' \cap InBatch(n)' = {}
    BY <1>2 DEF Placement, DispatchedOnce
  <2> QED BY <2>1, <2>2, <2>3 DEF DispatchedOnce
<1> QED BY <1>4, <1>5, <1>6, <1>7 DEF Placement

(* A timer callback turns the buffer into a batch. *)
LEMMA PlacementOfCallback ==
    ASSUME TypeOK, TypeOK', Placement, NEW k \in Keys, CallbackRun(k)
    PROVE  Placement'
<1>1. PICK last \in Msgs : last = LastOf(msgs[k]) /\ last \in Buffered(k)
  BY LastIsBuffered DEF CallbackRun
<1>2. /\ msgs' = [msgs EXCEPT ![k] = <<>>]
      /\ batch' = [batch EXCEPT ![last] = msgs[k]]
      /\ UNCHANGED <<arrived, fate>>
      /\ pc'[last] = "register" /\ \A n \in Msgs \ {last} : pc'[n] = pc[n]
  BY <1>1 DEF CallbackRun, TypeOK
<1> QED BY <1>1, <1>2, PlacementOfTaking DEF TypeOK

(* The end of a batch turns what waited into the next batch. *)
LEMMA PlacementOfReleaseNext ==
    ASSUME TypeOK, TypeOK', Placement, NEW m \in Msgs, ReleaseNext(m)
    PROVE  Placement'
<1>1. PICK k \in Keys : k = KeyOf[m]
  BY KeyOfAssumption
<1>2. PICK last \in Msgs : last = LastOf(msgs[k]) /\ last \in Buffered(k)
  BY <1>1, LastIsBuffered DEF ReleaseNext
<1>3. /\ msgs' = [msgs EXCEPT ![k] = <<>>]
      /\ batch' = [batch EXCEPT ![last] = msgs[k]]
      /\ UNCHANGED <<arrived, fate>>
      /\ pc[m] = "release" /\ pc' = [pc EXCEPT ![m] = "done", ![last] = "register"]
  BY <1>1, <1>2 DEF ReleaseNext
<1>4. pc'[last] # "none" /\ \A n \in Msgs \ {last} : (pc'[n] = "none") <=> (pc[n] = "none")
  BY <1>3 DEF TypeOK
<1> QED BY <1>2, <1>3, <1>4, PlacementOfTaking DEF TypeOK

(* All steps together. *)
LEMMA PlacementStep ==
    ASSUME TypeOK, TypeOK', Placement, [Next]_vars
    PROVE  Placement'
<1>1. ASSUME UNCHANGED <<arrived, msgs, batch, fate, pc>> PROVE Placement'
  BY <1>1, SameSets DEF Placement, BufferOK, BatchOK, Unarrived, Text
<1>2. ASSUME NEW m \in Msgs, QueueText(m) \/ DebounceText(m) PROVE Placement'
  BY <1>2, PlacementOfArrival
<1>3. ASSUME NEW m \in Msgs, Bg(m) PROVE Placement'
  BY <1>3, PlacementOfBg
<1>4. ASSUME NEW k \in Keys, TimerStep(k) PROVE Placement'
  <2>1. CASE CallbackRun(k)
    BY <2>1, PlacementOfCallback
  <2>2. CASE Fire(k) \/ FireOrphan(k) \/ CallbackEmpty(k)
    BY <2>2, <1>1 DEF Fire, FireOrphan, CallbackEmpty, jobVars
  <2> QED BY <1>4, <2>1, <2>2 DEF TimerStep
<1>5. ASSUME NEW m \in Msgs, Register(m) \/ Submit(m) \/ Receive(m) \/ CheckAlive(m)
                              \/ Cleanup(m) \/ ReleaseIdle(m)
      PROVE Placement'
  <2>1. /\ pc[m] # "none" /\ pc'[m] # "none"
        /\ \A n \in Msgs \ {m} : pc'[n] = pc[n]
    BY <1>5 DEF Register, Submit, Receive, CheckAlive, Cleanup, ReleaseIdle, TypeOK
  <2>2. UNCHANGED <<arrived, msgs, batch, fate>>
    BY <1>5 DEF Register, Submit, Receive, CheckAlive, Cleanup, ReleaseIdle, bufferVars
  <2> QED BY <2>1, <2>2, PlacementOfProgress DEF TypeOK
<1>6. ASSUME NEW m \in Msgs, CheckCancelled(m) \/ CheckBackground(m) \/ Reply(m)
      PROVE Placement'
  <2>1. /\ pc[m] # "none" /\ pc'[m] # "none"
        /\ \A n \in Msgs \ {m} : pc'[n] = pc[n]
    BY <1>6 DEF CheckCancelled, CheckBackground, Reply, TypeOK
  <2>2. UNCHANGED <<arrived, msgs, batch>>
    BY <1>6 DEF CheckCancelled, CheckBackground, Reply, bufferVars
  <2>3. fate' = fate \/ \E what : fate' = Settle(m, what)
    BY <1>6 DEF CheckCancelled, CheckBackground, Reply
  <2> QED BY <2>1, <2>2, <2>3, PlacementOfProgress, PlacementOfSettling DEF TypeOK
<1>7. ASSUME NEW m \in Msgs, ReleaseNext(m) PROVE Placement'
  BY <1>7, PlacementOfReleaseNext
<1>8. ASSUME NEW m \in Msgs, Drain(m) PROVE Placement'
  BY <1>8, PlacementOfDrain DEF TypeOK
<1>9. ASSUME NEW m \in Msgs, React(m) \/ CallCancel(m) PROVE Placement'
  BY <1>9, <1>1 DEF React, CallCancel, bufferVars, jobVars
<1>10. ASSUME NEW k \in Keys, RunnerStep(k) PROVE Placement'
  BY <1>10, <1>1 DEF RunnerStep, RunnerAnswers, bufferVars, jobVars
<1>11. CASE UNCHANGED vars
  BY <1>11, <1>1 DEF vars, bufferVars, jobVars
<1> QED
  BY <1>2, <1>3, <1>4, <1>5, <1>6, <1>7, <1>8, <1>9, <1>10, <1>11 DEF Next, JobStep

(* Placement and the types hold in every reachable state. *)
THEOREM PlacementInvariant == Spec => [](TypeOK /\ Placement)
<1>1. Init => Placement
  BY DEF Init, Placement, BufferOK, BatchOK, Unarrived, DispatchedOnce, Buffered, InBatch
<1>2. TypeOK /\ TypeOK' /\ Placement /\ [Next]_vars => Placement'
  BY PlacementStep
<1> QED BY <1>1, <1>2, TypeCorrect, PTL DEF Spec

(* No message is dispatched twice: see DispatchedOnce. *)
THEOREM NothingDispatchedTwice == Spec => []DispatchedOnce
<1>1. Placement => DispatchedOnce
  BY DEF Placement
<1> QED BY <1>1, PlacementInvariant, PTL

-----------------------------------------------------------------------------
(* No message is forgotten *)

(* A message leaves the buffer only for a batch or by being discarded, and never
   leaves a batch. *)
LEMMA NoneForgottenStep ==
    ASSUME TypeOK, TypeOK', Placement, NoneForgotten, [Next]_vars
    PROVE  NoneForgotten'
<1> DEFINE Kept(n) == \/ n \in Buffered(KeyOf[n])
                      \/ \E b \in Msgs : n \in InBatch(b)
                      \/ fate[n] = "discarded"
<1>0. /\ \A n \in Msgs : KeyOf[n] \in Keys
      /\ \A n \in arrived : n \in Msgs /\ Kept(n)
  BY KeyOfAssumption DEF NoneForgotten, TypeOK
<1>1. ASSUME UNCHANGED <<arrived, msgs, batch>>,
             \A n \in Msgs : fate[n] = "discarded" => fate'[n] = "discarded"
      PROVE  NoneForgotten'
  BY <1>1, SameSets, KeyOfAssumption DEF NoneForgotten, TypeOK
<1>2. ASSUME NEW m \in Msgs, QueueText(m) \/ DebounceText(m) PROVE NoneForgotten'
  <2>1. PICK k \in Keys : k = KeyOf[m]
    BY KeyOfAssumption
  <2>2. /\ msgs' = [msgs EXCEPT ![k] = Append(@, m)]
        /\ arrived' = arrived \cup {m} /\ UNCHANGED <<batch, fate>>
    BY <1>2, <2>1 DEF QueueText, DebounceText, jobVars
  <2>3. /\ Buffered(k)' = Buffered(k) \cup {m}
        /\ \A o \in Keys \ {k} : Buffered(o)' = Buffered(o)
    BY <2>2, AppendFacts
  <2>4. \A n \in Msgs : InBatch(n)' = InBatch(n)
    BY <2>2 DEF InBatch
  <2>5. Kept(m)' /\ \A n \in arrived : Kept(n) => Kept(n)'
    BY <1>0, <2>1, <2>2, <2>3, <2>4
  <2> QED BY <1>0, <2>2, <2>5 DEF NoneForgotten
<1>3. ASSUME NEW m \in Msgs, Bg(m) PROVE NoneForgotten'
  <2>1. /\ m \notin arrived /\ arrived' = arrived \cup {m}
        /\ batch'[m] = <<m>> /\ \A n \in Msgs \ {m} : batch'[n] = batch[n]
        /\ UNCHANGED <<msgs, fate>> /\ pc[m] = "none"
    BY <1>3 DEF Bg, bufferVars, TypeOK, Placement, BatchOK
  <2>2. /\ InBatch(m)' = {m} /\ InBatch(m) = {}
        /\ \A n \in Msgs \ {m} : InBatch(n)' = InBatch(n)
        /\ \A k \in Keys : Buffered(k)' = Buffered(k)
    BY <2>1 DEF InBatch, Buffered, Placement, BatchOK
  <2>3. Kept(m)' /\ \A n \in arrived : Kept(n) => Kept(n)'
    BY <1>0, <2>1, <2>2
  <2> QED BY <1>0, <2>1, <2>3 DEF NoneForgotten
<1>4. ASSUME NEW k \in Keys, NEW last \in Msgs, last \in Buffered(k),
             msgs' = [msgs EXCEPT ![k] = <<>>], batch' = [batch EXCEPT ![last] = msgs[k]],
             UNCHANGED <<arrived, fate>>
      PROVE  NoneForgotten'
  <2>1. /\ \A o \in Keys \ {k} : Buffered(o)' = Buffered(o)
        /\ InBatch(last)' = Buffered(k)
        /\ \A m \in Msgs \ {last} : InBatch(m)' = InBatch(m)
    BY <1>4, TakeFacts
  <2>2. InBatch(last) = {}
    BY <1>4 DEF Placement, BufferOK, BatchOK
  <2>3. \A n \in arrived : Kept(n) => Kept(n)'
    BY <1>0, <1>4, <2>1, <2>2
  <2> QED BY <1>0, <1>4, <2>3 DEF NoneForgotten
<1>5. ASSUME NEW k \in Keys, TimerStep(k) PROVE NoneForgotten'
  <2>1. CASE CallbackRun(k)
    <3>1. PICK last \in Msgs : last = LastOf(msgs[k]) /\ last \in Buffered(k)
      BY <2>1, LastIsBuffered DEF CallbackRun
    <3> QED BY <2>1, <3>1, <1>4 DEF CallbackRun
  <2>2. CASE Fire(k) \/ FireOrphan(k) \/ CallbackEmpty(k)
    BY <2>2, <1>1 DEF Fire, FireOrphan, CallbackEmpty, jobVars
  <2> QED BY <1>5, <2>1, <2>2 DEF TimerStep
<1>6. ASSUME NEW m \in Msgs, Register(m) \/ Submit(m) \/ Receive(m) \/ CheckAlive(m)
                              \/ Cleanup(m) \/ ReleaseIdle(m) \/ React(m) \/ CallCancel(m)
      PROVE NoneForgotten'
  BY <1>6, <1>1 DEF Register, Submit, Receive, CheckAlive, Cleanup, ReleaseIdle, React,
                    CallCancel, bufferVars, jobVars
<1>7. ASSUME NEW m \in Msgs, CheckCancelled(m) \/ CheckBackground(m) \/ Reply(m)
      PROVE NoneForgotten'
  <2>1. UNCHANGED <<arrived, msgs, batch>>
    BY <1>7 DEF CheckCancelled, CheckBackground, Reply, bufferVars
  <2>2. fate' = fate \/ \E what : fate' = Settle(m, what)
    BY <1>7 DEF CheckCancelled, CheckBackground, Reply
  <2>3. \A n \in Msgs : n \notin InBatch(m) => fate'[n] = fate[n]
    BY <2>2 DEF Settle
  <2> QED BY <2>1, <2>3, SameSets, KeyOfAssumption DEF NoneForgotten, TypeOK
<1>8. ASSUME NEW m \in Msgs, ReleaseNext(m) PROVE NoneForgotten'
  <2>1. PICK k \in Keys : k = KeyOf[m]
    BY KeyOfAssumption
  <2>2. PICK last \in Msgs : last = LastOf(msgs[k]) /\ last \in Buffered(k)
    BY <1>8, <2>1, LastIsBuffered DEF ReleaseNext
  <2> QED BY <1>8, <2>1, <2>2, <1>4 DEF ReleaseNext
<1>9. ASSUME NEW m \in Msgs, Drain(m) PROVE NoneForgotten'
  <2>1. PICK k \in Keys : k = KeyOf[m]
    BY KeyOfAssumption
  <2>2. /\ UNCHANGED <<arrived, batch>>
        /\ \A o \in Keys \ {k} : msgs'[o] = msgs[o]
        /\ \A n \in Msgs : fate'[n] = IF n \in Buffered(k) THEN "discarded" ELSE fate[n]
    BY <1>9, <2>1 DEF Drain, TypeOK
  <2>3. /\ \A o \in Keys \ {k} : Buffered(o)' = Buffered(o)
        /\ \A n \in Msgs : InBatch(n)' = InBatch(n)
    BY <2>2 DEF Buffered, InBatch
  <2>4. \A n \in arrived : Kept(n) => Kept(n)'
    BY <1>0, <2>2, <2>3
  <2> QED BY <1>0, <2>2, <2>4 DEF NoneForgotten
<1>10. ASSUME NEW k \in Keys, RunnerStep(k) PROVE NoneForgotten'
  BY <1>10, <1>1 DEF RunnerStep, RunnerAnswers, bufferVars, jobVars
<1>11. CASE UNCHANGED vars
  BY <1>11, <1>1 DEF vars, bufferVars, jobVars
<1> QED
  BY <1>2, <1>3, <1>5, <1>6, <1>7, <1>8, <1>9, <1>10, <1>11 DEF Next, JobStep

(* No message is forgotten: see NoneForgotten. *)
THEOREM NoMessageForgotten == Spec => []NoneForgotten
<1>1. Init => NoneForgotten
  BY DEF Init, NoneForgotten
<1>2. TypeOK /\ TypeOK' /\ Placement /\ NoneForgotten /\ [Next]_vars => NoneForgotten'
  BY NoneForgottenStep
<1> QED BY <1>1, <1>2, PlacementInvariant, PTL DEF Spec

-----------------------------------------------------------------------------
(* A topic never locks up *)

Liveliness == RunningHasBatch /\ NoStrandedMessage

(* An active foreground batch keeps its topic alive as long as it moves on. *)
LEMMA StillActive ==
    ASSUME NEW k \in Keys, ActiveBatches(k) # {},
           \A m \in Msgs : m \in Text /\ KeyOf[m] = k /\ pc[m] \notin Idle => pc'[m] \notin Idle
    PROVE  ActiveBatches(k)' # {}
  BY DEF ActiveBatches, Text

(* running comes down only with the end of a batch or a drain, and a message
   enters the buffer only with a timer armed or a batch active. *)
LEMMA LivelinessStep ==
    ASSUME TypeOK, TypeOK', Placement, Liveliness, [Next]_vars
    PROVE  Liveliness'
<1> USE DEF Idle
<1>1. ASSUME UNCHANGED <<msgs, running, armed, orphans, callbacks>>,
             \A m \in Text : pc[m] \notin Idle => pc'[m] \notin Idle
      PROVE  Liveliness'
  BY <1>1, StillActive DEF Liveliness, RunningHasBatch, NoStrandedMessage, Text
<1>2. ASSUME UNCHANGED <<msgs, running, armed, orphans, callbacks, pc>>
      PROVE  Liveliness'
  BY <1>1, <1>2
<1>3. ASSUME NEW m \in Msgs, QueueText(m) \/ DebounceText(m) PROVE Liveliness'
  <2>1. PICK k \in Keys : k = KeyOf[m]
    BY KeyOfAssumption
  <2>2. /\ UNCHANGED <<running, orphans, callbacks, pc>>
        /\ \A o \in Keys \ {k} : msgs'[o] = msgs[o] /\ armed'[o] = armed[o]
        /\ running[k] \/ armed'[k]
    BY <1>3, <2>1 DEF QueueText, DebounceText, jobVars, TypeOK
  <2>3. \A o \in Keys : ActiveBatches(o)' = ActiveBatches(o)
    BY <2>2 DEF ActiveBatches
  <2> QED BY <2>1, <2>2, <2>3 DEF Liveliness, RunningHasBatch, NoStrandedMessage
<1>4. ASSUME NEW m \in Msgs, Bg(m) PROVE Liveliness'
  BY <1>4, <1>1 DEF Bg, bufferVars, TypeOK, Text
<1>5. ASSUME NEW k \in Keys, Fire(k) \/ FireOrphan(k) \/ CallbackEmpty(k) PROVE Liveliness'
  <2>1. \A o \in Keys : ActiveBatches(o)' = ActiveBatches(o)
    BY <1>5 DEF Fire, FireOrphan, CallbackEmpty, jobVars, ActiveBatches
  <2>2. \A o \in Keys \ {k} : armed'[o] = armed[o] /\ orphans'[o] = orphans[o]
                               /\ callbacks'[o] = callbacks[o]
    BY <1>5 DEF Fire, FireOrphan, CallbackEmpty, TypeOK
  <2>3. msgs[k] = <<>> \/ callbacks'[k] > 0
    BY <1>5 DEF Fire, FireOrphan, CallbackEmpty, TypeOK
  <2>4. UNCHANGED <<msgs, running>>
    BY <1>5 DEF Fire, FireOrphan, CallbackEmpty
  <2> QED BY <2>1, <2>2, <2>3, <2>4 DEF Liveliness, RunningHasBatch, NoStrandedMessage
<1>6. ASSUME NEW k \in Keys, CallbackRun(k) PROVE Liveliness'
  <2>1. PICK last \in Msgs : last = LastOf(msgs[k]) /\ last \in Buffered(k)
    BY <1>6, LastIsBuffered DEF CallbackRun
  <2>2. /\ last \in Text /\ KeyOf[last] = k /\ pc'[last] = "register"
        /\ \A n \in Msgs \ {last} : pc'[n] = pc[n]
        /\ msgs'[k] = <<>>
        /\ \A o \in Keys \ {k} : /\ msgs'[o] = msgs[o] /\ running'[o] = running[o]
                                /\ armed'[o] = armed[o] /\ orphans'[o] = orphans[o]
                                /\ callbacks'[o] = callbacks[o]
    BY <1>6, <2>1 DEF CallbackRun, TypeOK, Placement, BufferOK
  <2>3. ActiveBatches(k)' # {}
    BY <2>2 DEF ActiveBatches, Text
  <2>4. \A o \in Keys \ {k} : ActiveBatches(o)' = ActiveBatches(o)
    BY <2>2 DEF ActiveBatches, Text
  <2> QED BY <2>2, <2>3, <2>4 DEF Liveliness, RunningHasBatch, NoStrandedMessage
<1>7. ASSUME NEW m \in Msgs, Register(m) \/ Submit(m) \/ Receive(m) \/ CheckCancelled(m)
                \/ CheckAlive(m) \/ CheckBackground(m) \/ Cleanup(m) \/ Reply(m)
      PROVE Liveliness'
  <2>1. \A n \in Text : pc[n] \notin Idle => pc'[n] \notin Idle
    BY <1>7 DEF Register, Submit, Receive, CheckCancelled, CheckAlive, CheckBackground,
                Cleanup, Reply, Text, TypeOK
  <2>2. UNCHANGED <<msgs, running, armed, orphans, callbacks>>
    BY <1>7 DEF Register, Submit, Receive, CheckCancelled, CheckAlive, CheckBackground,
                Cleanup, Reply, bufferVars
  <2> QED BY <2>1, <2>2, <1>1
<1>8. ASSUME NEW m \in Msgs, ReleaseIdle(m) \/ Drain(m) PROVE Liveliness'
  <2>1. PICK k \in Keys : k = KeyOf[m]
    BY KeyOfAssumption
  <2>2. /\ ~running'[k] /\ msgs'[k] = <<>>
        /\ \A n \in Msgs \ {m} : pc'[n] = pc[n]
        /\ \A o \in Keys \ {k} : /\ msgs'[o] = msgs[o] /\ running'[o] = running[o]
                                /\ armed'[o] = armed[o]
        /\ UNCHANGED <<orphans, callbacks>>
    BY <1>8, <2>1 DEF ReleaseIdle, Drain, TypeOK
  <2>3. \A o \in Keys \ {k} : ActiveBatches(o)' = ActiveBatches(o)
    BY <2>1, <2>2 DEF ActiveBatches, Text
  <2> QED BY <2>2, <2>3 DEF Liveliness, RunningHasBatch, NoStrandedMessage
<1>9. ASSUME NEW m \in Msgs, ReleaseNext(m) PROVE Liveliness'
  <2>1. PICK k \in Keys : k = KeyOf[m]
    BY KeyOfAssumption
  <2>2. PICK last \in Msgs : last = LastOf(msgs[k]) /\ last \in Buffered(k)
    BY <1>9, <2>1, LastIsBuffered DEF ReleaseNext
  <2>3. /\ pc' = [pc EXCEPT ![m] = "done", ![last] = "register"]
        /\ msgs' = [msgs EXCEPT ![k] = <<>>]
        /\ UNCHANGED <<running, armed, orphans, callbacks>>
    BY <1>9, <2>1, <2>2 DEF ReleaseNext
  <2>4. /\ pc'[last] = "register" /\ last \in Text /\ KeyOf[last] = k
        /\ \A n \in Msgs \ {m, last} : pc'[n] = pc[n]
        /\ msgs'[k] = <<>> /\ \A o \in Keys \ {k} : msgs'[o] = msgs[o]
    BY <2>2, <2>3 DEF TypeOK, Placement, BufferOK
  <2>5. ActiveBatches(k)' # {}
    BY <2>4 DEF ActiveBatches, Text
  <2>6. \A o \in Keys \ {k} : ActiveBatches(o)' = ActiveBatches(o)
    BY <2>1, <2>4 DEF ActiveBatches, Text
  <2> QED BY <2>3, <2>4, <2>5, <2>6 DEF Liveliness, RunningHasBatch, NoStrandedMessage
<1>10. ASSUME NEW m \in Msgs, React(m) \/ CallCancel(m) PROVE Liveliness'
  BY <1>10, <1>2 DEF React, CallCancel, bufferVars, jobVars
<1>11. ASSUME NEW k \in Keys, RunnerStep(k) PROVE Liveliness'
  BY <1>11, <1>2 DEF RunnerStep, RunnerAnswers, bufferVars, jobVars
<1>12. CASE UNCHANGED vars
  BY <1>12, <1>2 DEF vars, bufferVars, jobVars
<1> QED
  BY <1>3, <1>4, <1>5, <1>6, <1>7, <1>8, <1>9, <1>10, <1>11, <1>12
  DEF Next, JobStep, TimerStep

(* The running flag is only up while a batch is there to take it down: see
   RunningHasBatch. *)
THEOREM TopicNeverLocksUp == Spec => []RunningHasBatch
<1>1. Init => Liveliness
  BY DEF Init, Liveliness, RunningHasBatch, NoStrandedMessage
<1>2. TypeOK /\ TypeOK' /\ Placement /\ Liveliness /\ [Next]_vars => Liveliness'
  BY LivelinessStep
<1>3. Liveliness => RunningHasBatch
  BY DEF Liveliness
<1> QED BY <1>1, <1>2, <1>3, PlacementInvariant, PTL DEF Spec

(* Every buffered message has someone who will look at it: see
   NoStrandedMessage. *)
THEOREM NoMessageStranded == Spec => []NoStrandedMessage
<1>1. Init => Liveliness
  BY DEF Init, Liveliness, RunningHasBatch, NoStrandedMessage
<1>2. TypeOK /\ TypeOK' /\ Placement /\ Liveliness /\ [Next]_vars => Liveliness'
  BY LivelinessStep
<1>3. Liveliness => NoStrandedMessage
  BY DEF Liveliness
<1> QED BY <1>1, <1>2, <1>3, PlacementInvariant, PTL DEF Spec

-----------------------------------------------------------------------------
(* Cancellation *)

(* Cancel entries belong to live jobs and are kept under the job's own ID. *)
EntriesOK ==
    \A id \in Ids : cancelReactions[id] # NoMsg =>
        /\ MsgId[cancelReactions[id]] = id
        /\ Registered(cancelReactions[id])
        /\ cancelReactions[id] \notin ctxDone \cup cancelling

(* A context that is cancelled before its job's own cleanup was cancelled by a
   reaction, and so was every job that drains its topic. *)
Justified ==
    \A m \in Msgs :
        /\ pc[m] \in {"none", "register"} => m \notin ctxDone \cup cancelling
        /\ pc[m] \in {"submit", "waiting", "check"} /\ m \in ctxDone => m \in hits
        /\ m \in userCancelled => m \in hits
        /\ pc[m] = "drain" => m \in hits

Ledger == EntriesOK /\ Justified /\ DiscardNeedsCancel

(* Steps that move a job along without touching entries or contexts. *)
LEMMA LedgerOfSameEntries ==
    ASSUME TypeOK, Ledger,
           UNCHANGED <<cancelReactions, ctxDone, cancelling, hits, fate, userCancelled>>,
           \A m \in Msgs : Registered(m) => Registered(m)',
           \A m \in Msgs : /\ pc'[m] \in {"none", "register"} => pc[m] \in {"none", "register"}
                           /\ pc'[m] \in {"submit", "waiting", "check"} =>
                                 pc[m] \in {"submit", "waiting", "check"}
                           /\ pc'[m] = "drain" => pc[m] = "drain" \/ m \in hits
    PROVE  Ledger'
<1>1. EntriesOK'
  BY DEF Ledger, EntriesOK, TypeOK
<1>2. Justified'
  BY DEF Ledger, Justified
<1>3. DiscardNeedsCancel'
  BY DEF Ledger, DiscardNeedsCancel
<1> QED BY <1>1, <1>2, <1>3 DEF Ledger

(* A fresh entry belongs to a job that has just begun. *)
LEMMA LedgerOfRegister ==
    ASSUME TypeOK, TypeOK', Ledger, NEW m \in Msgs, Register(m)
    PROVE  Ledger'
<1>1. /\ MsgId[m] \in Ids /\ pc[m] = "register"
      /\ cancelReactions'[MsgId[m]] = m
      /\ \A id \in Ids \ {MsgId[m]} : cancelReactions'[id] = cancelReactions[id]
      /\ pc'[m] = "submit" /\ \A n \in Msgs \ {m} : pc'[n] = pc[n]
      /\ UNCHANGED <<ctxDone, cancelling, hits, fate, userCancelled>>
  BY DEF Register, TypeOK, Ids
<1>2. m \notin ctxDone \cup cancelling
  BY <1>1 DEF Ledger, Justified
<1>3. Registered(m)' /\ \A n \in Msgs : Registered(n) => Registered(n)'
  BY <1>1 DEF Registered
<1>4. EntriesOK'
  <2> SUFFICES ASSUME NEW id \in Ids, NEW e \in Msgs, e = cancelReactions'[id]
               PROVE  MsgId[e] = id /\ Registered(e)' /\ e \notin ctxDone' \cup cancelling'
    BY DEF EntriesOK, TypeOK
  <2>1. CASE id = MsgId[m]
    BY <2>1, <1>1, <1>2, <1>3, NoMsgAssumption
  <2>2. CASE id # MsgId[m]
    <3>1. e = cancelReactions[id] /\ e # NoMsg
      BY <2>2, <1>1, NoMsgAssumption
    <3>2. MsgId[e] = id /\ Registered(e) /\ e \notin ctxDone \cup cancelling
      BY <3>1 DEF Ledger, EntriesOK
    <3> QED BY <2>2, <3>2, <1>1, <1>3
  <2> QED BY <2>1, <2>2
<1>5. Justified'
  BY <1>1, <1>2 DEF Ledger, Justified
<1>6. DiscardNeedsCancel'
  BY <1>1 DEF Ledger, DiscardNeedsCancel
<1> QED BY <1>4, <1>5, <1>6 DEF Ledger

(* cleanup removes whatever is under the ID of the job and ends its context. *)
LEMMA LedgerOfCleanup ==
    ASSUME TypeOK, TypeOK', Ledger, NEW m \in Msgs, Cleanup(m)
    PROVE  Ledger'
<1>1. /\ MsgId[m] \in Ids /\ pc[m] = "cleanup"
      /\ cancelReactions'[MsgId[m]] = NoMsg
      /\ \A id \in Ids \ {MsgId[m]} : cancelReactions'[id] = cancelReactions[id]
      /\ pc'[m] \in {"done", "drain", "reply"} /\ \A n \in Msgs \ {m} : pc'[n] = pc[n]
      /\ pc'[m] = "drain" => m \in userCancelled
      /\ ctxDone' = ctxDone \cup {m}
      /\ UNCHANGED <<cancelling, hits, fate, userCancelled>>
  BY DEF Cleanup, TypeOK, Ids
<1>2. \A n \in Msgs \ {m} : Registered(n) => Registered(n)'
  BY <1>1 DEF Registered
<1>3. EntriesOK'
  <2> SUFFICES ASSUME NEW id \in Ids, NEW e \in Msgs, e = cancelReactions'[id]
               PROVE  MsgId[e] = id /\ Registered(e)' /\ e \notin ctxDone' \cup cancelling'
    BY DEF EntriesOK, TypeOK
  <2>1. CASE id = MsgId[m]
    BY <2>1, <1>1, NoMsgAssumption
  <2>2. CASE id # MsgId[m]
    <3>1. e = cancelReactions[id] /\ e # NoMsg
      BY <2>2, <1>1, NoMsgAssumption
    <3>2. MsgId[e] = id /\ Registered(e) /\ e \notin ctxDone \cup cancelling
      BY <3>1 DEF Ledger, EntriesOK
    <3> QED BY <2>2, <3>2, <1>1, <1>2
  <2> QED BY <2>1, <2>2
<1>4. Justified'
  BY <1>1 DEF Ledger, Justified
<1>5. DiscardNeedsCancel'
  BY <1>1 DEF Ledger, DiscardNeedsCancel
<1> QED BY <1>3, <1>4, <1>5 DEF Ledger

(* A reaction takes an entry out, and calls the cancel function later. *)
LEMMA LedgerOfReaction ==
    ASSUME TypeOK, Ledger, NEW m \in Msgs, React(m) \/ CallCancel(m)
    PROVE  Ledger'
<1>0. UNCHANGED <<pc, fate, userCancelled>> /\ \A n \in Msgs : Registered(n) => Registered(n)'
  BY DEF React, CallCancel, jobVars, Registered
<1>1. CASE React(m)
  <2>1. PICK id \in Ids : id = MsgId[m]
    BY DEF Ids
  <2>2. /\ cancelReactions[id] # NoMsg
        /\ cancelling' = cancelling \cup {cancelReactions[id]}
        /\ cancelReactions'[id] = NoMsg
        /\ \A other \in Ids \ {id} : cancelReactions'[other] = cancelReactions[other]
        /\ UNCHANGED <<ctxDone, hits>>
    BY <1>1, <2>1 DEF React, TypeOK
  <2>3. /\ MsgId[cancelReactions[id]] = id
        /\ Registered(cancelReactions[id])
        /\ cancelReactions[id] \in Msgs
    BY <2>2 DEF Ledger, EntriesOK, TypeOK
  <2>4. pc[cancelReactions[id]] \notin {"none", "register"}
    BY <2>3 DEF Registered
  <2>5. EntriesOK'
    <3> SUFFICES ASSUME NEW other \in Ids, cancelReactions'[other] # NoMsg
                 PROVE  /\ MsgId[cancelReactions'[other]] = other
                        /\ Registered(cancelReactions[other])'
                        /\ cancelReactions'[other] \notin ctxDone' \cup cancelling'
      BY DEF EntriesOK
    <3>1. other # id /\ cancelReactions'[other] = cancelReactions[other]
      BY <2>2
    <3>2. /\ MsgId[cancelReactions[other]] = other
          /\ Registered(cancelReactions[other])
          /\ cancelReactions[other] \notin ctxDone \cup cancelling
          /\ cancelReactions[other] \in Msgs
      BY <3>1 DEF Ledger, EntriesOK, TypeOK
    <3>3. cancelReactions[other] # cancelReactions[id]
      BY <2>3, <3>1, <3>2
    <3>4. Registered(cancelReactions[other])'
      BY <1>0, <3>1, <3>2 DEF Registered
    <3> QED BY <2>2, <3>1, <3>2, <3>3, <3>4
  <2>6. Justified'
    BY <1>0, <2>2, <2>4 DEF Ledger, Justified
  <2>7. DiscardNeedsCancel'
    BY <1>0, <2>2 DEF Ledger, DiscardNeedsCancel
  <2> QED BY <2>5, <2>6, <2>7 DEF Ledger
<1>2. CASE CallCancel(m)
  <2>1. /\ m \in cancelling /\ cancelling' = cancelling \ {m}
        /\ ctxDone' = ctxDone \cup {m} /\ hits' = hits \cup {m}
        /\ UNCHANGED cancelReactions
    BY <1>2 DEF CallCancel
  <2>2. EntriesOK'
    BY <1>0, <2>1 DEF Ledger, EntriesOK, TypeOK
  <2>3. Justified'
    BY <1>0, <2>1 DEF Ledger, Justified
  <2>4. DiscardNeedsCancel'
    BY <1>0, <2>1 DEF Ledger, DiscardNeedsCancel
  <2> QED BY <2>2, <2>3, <2>4 DEF Ledger
<1> QED BY <1>1, <1>2

(* A job that decides about its own batch does not discard anything. *)
LEMMA LedgerOfSettling ==
    ASSUME TypeOK, TypeOK', Placement, Ledger, NEW m \in Msgs,
           CheckCancelled(m) \/ CheckBackground(m) \/ Reply(m)
    PROVE  Ledger'
<1>1. /\ pc[m] \in {"check", "reply"}
      /\ pc'[m] \in {"cleanup", "drain", "reply", "release"}
      /\ pc'[m] = "drain" => m \in ctxDone /\ pc[m] = "check"
      /\ pc[m] = "reply" /\ m \in Background => pc'[m] = "cleanup"
      /\ pc[m] = "check" => pc'[m] = "cleanup" \/ (m \in Background /\ pc'[m] \in {"drain", "reply"})
      /\ \A n \in Msgs \ {m} : pc'[n] = pc[n]
      /\ UNCHANGED <<cancelReactions, ctxDone, cancelling, hits>>
  BY DEF CheckCancelled, CheckBackground, Reply, cancelVars, TypeOK
<1>2. userCancelled' = userCancelled
      \/ (userCancelled' = userCancelled \cup {m} /\ pc[m] = "check" /\ m \in ctxDone)
  BY DEF CheckCancelled, CheckBackground, Reply
<1>3. \A n \in Msgs : fate'[n] = "discarded" => fate[n] = "discarded"
  BY DEF CheckCancelled, CheckBackground, Reply, Settle
<1>4. \A n \in Msgs : Registered(n) => Registered(n)'
  BY <1>1 DEF Registered
<1>5. EntriesOK'
  <2> SUFFICES ASSUME NEW id \in Ids, NEW e \in Msgs, e = cancelReactions[id], e # NoMsg
               PROVE  MsgId[e] = id /\ Registered(e)' /\ e \notin ctxDone \cup cancelling
    BY <1>1 DEF EntriesOK, TypeOK
  <2> QED BY <1>4 DEF Ledger, EntriesOK
<1>6. Justified'
  BY <1>1, <1>2 DEF Ledger, Justified
<1>7. DiscardNeedsCancel'
  BY <1>1, <1>3 DEF Ledger, DiscardNeedsCancel
<1> QED BY <1>5, <1>6, <1>7 DEF Ledger

(* Only a job that a user has cancelled drains the buffer. *)
LEMMA LedgerOfDrain ==
    ASSUME TypeOK, TypeOK', Placement, Ledger, NEW m \in Msgs, Drain(m)
    PROVE  Ledger'
<1>1. PICK k \in Keys : k = KeyOf[m]
  BY KeyOfAssumption
<1>2. /\ pc[m] = "drain" /\ pc'[m] = IF m \in Background THEN "cleanup" ELSE "done"
      /\ \A n \in Msgs \ {m} : pc'[n] = pc[n]
      /\ \A n \in Msgs : fate'[n] = IF n \in Buffered(k) THEN "discarded" ELSE fate[n]
      /\ UNCHANGED <<cancelReactions, ctxDone, cancelling, hits, userCancelled>>
  BY <1>1 DEF Drain, cancelVars, TypeOK
<1>3. m \in hits
  BY <1>2 DEF Ledger, Justified
<1>4. \A n \in Buffered(k) : KeyOf[n] = KeyOf[m]
  BY <1>1 DEF Placement, BufferOK
<1>5. \A n \in Msgs : Registered(n) => Registered(n)'
  BY <1>2 DEF Registered
<1>6. EntriesOK'
  <2> SUFFICES ASSUME NEW id \in Ids, NEW e \in Msgs, e = cancelReactions[id], e # NoMsg
               PROVE  MsgId[e] = id /\ Registered(e)' /\ e \notin ctxDone \cup cancelling
    BY <1>2 DEF EntriesOK, TypeOK
  <2> QED BY <1>5 DEF Ledger, EntriesOK
<1>7. Justified'
  BY <1>2 DEF Ledger, Justified
<1>8. DiscardNeedsCancel'
  BY <1>2, <1>3, <1>4 DEF Ledger, DiscardNeedsCancel
<1> QED BY <1>6, <1>7, <1>8 DEF Ledger

(* A new batch starts unregistered and with a fresh context. *)
LEMMA LedgerOfNewJob ==
    ASSUME TypeOK, TypeOK', Ledger, NEW m \in Msgs, pc[m] = "none", pc'[m] = "register",
           \A n \in Msgs \ {m} : pc'[n] = pc[n] \/ (pc[n] = "release" /\ pc'[n] = "done"),
           UNCHANGED <<cancelReactions, ctxDone, cancelling, hits, fate, userCancelled>>
    PROVE  Ledger'
<1>1. \A n \in Msgs : Registered(n) => Registered(n)'
  BY DEF Registered, Text
<1>2. \A n \in Msgs : /\ pc'[n] \in {"none", "register"} => pc[n] \in {"none", "register"}
                      /\ pc'[n] \in {"submit", "waiting", "check"} =>
                            pc[n] \in {"submit", "waiting", "check"}
                      /\ pc'[n] = "drain" => pc[n] = "drain" \/ n \in hits
  OBVIOUS
<1> QED BY <1>1, <1>2, LedgerOfSameEntries

(* All steps together. *)
LEMMA LedgerStep ==
    ASSUME TypeOK, TypeOK', Placement, Ledger, [Next]_vars
    PROVE  Ledger'
<1>1. ASSUME UNCHANGED <<cancelReactions, ctxDone, cancelling, hits, fate, userCancelled, pc>>
      PROVE  Ledger'
  <2>1. \A n \in Msgs : Registered(n) => Registered(n)'
    BY <1>1 DEF Registered
  <2> QED BY <1>1, <2>1, LedgerOfSameEntries
<1>2. ASSUME NEW m \in Msgs, QueueText(m) \/ DebounceText(m) PROVE Ledger'
  BY <1>2, <1>1 DEF QueueText, DebounceText, jobVars, cancelVars
<1>3. ASSUME NEW m \in Msgs, Bg(m) PROVE Ledger'
  <2>1. /\ pc[m] = "none" /\ pc'[m] = "register" /\ \A n \in Msgs \ {m} : pc'[n] = pc[n]
        /\ UNCHANGED <<cancelReactions, ctxDone, cancelling, hits, fate, userCancelled>>
    BY <1>3 DEF Bg, cancelVars, TypeOK, Placement, BatchOK
  <2> QED BY <2>1, LedgerOfNewJob
<1>4. ASSUME NEW k \in Keys, TimerStep(k) PROVE Ledger'
  <2>1. CASE CallbackRun(k)
    <3>1. PICK last \in Msgs : last = LastOf(msgs[k]) /\ last \in Buffered(k)
      BY <2>1, LastIsBuffered DEF CallbackRun
    <3>2. /\ pc[last] = "none" /\ pc'[last] = "register"
          /\ \A n \in Msgs \ {last} : pc'[n] = pc[n]
          /\ UNCHANGED <<cancelReactions, ctxDone, cancelling, hits, fate, userCancelled>>
      BY <2>1, <3>1 DEF CallbackRun, cancelVars, TypeOK, Placement, BufferOK
    <3> QED BY <3>2, LedgerOfNewJob
  <2>2. CASE Fire(k) \/ FireOrphan(k) \/ CallbackEmpty(k)
    BY <2>2, <1>1 DEF Fire, FireOrphan, CallbackEmpty, jobVars, cancelVars
  <2> QED BY <1>4, <2>1, <2>2 DEF TimerStep
<1>5. ASSUME NEW m \in Msgs, Submit(m) \/ Receive(m) \/ CheckAlive(m) \/ ReleaseIdle(m)
      PROVE Ledger'
  <2>1. /\ UNCHANGED <<cancelReactions, ctxDone, cancelling, hits, fate, userCancelled>>
        /\ \A n \in Msgs \ {m} : pc'[n] = pc[n]
        /\ \/ pc[m] = "submit" /\ pc'[m] = "waiting"
           \/ pc[m] = "waiting" /\ pc'[m] = "check"
           \/ pc[m] = "check" /\ pc'[m] = "cleanup"
           \/ pc[m] = "release" /\ pc'[m] = "done"
    BY <1>5 DEF Submit, Receive, CheckAlive, ReleaseIdle, cancelVars, TypeOK
  <2>2. pc[m] = "release" => ~Registered(m)
    BY DEF Registered
  <2>3. \A n \in Msgs : Registered(n) => Registered(n)'
    BY <2>1, <2>2 DEF Registered
  <2> QED BY <2>1, <2>3, LedgerOfSameEntries
<1>6. ASSUME NEW m \in Msgs, CheckCancelled(m) \/ CheckBackground(m) \/ Reply(m) PROVE Ledger'
  BY <1>6, LedgerOfSettling
<1>7. ASSUME NEW m \in Msgs, ReleaseNext(m) PROVE Ledger'
  <2>1. PICK k \in Keys : k = KeyOf[m]
    BY KeyOfAssumption
  <2>2. PICK last \in Msgs : last = LastOf(msgs[k]) /\ last \in Buffered(k)
    BY <1>7, <2>1, LastIsBuffered DEF ReleaseNext
  <2>3. /\ pc[m] = "release" /\ pc' = [pc EXCEPT ![m] = "done", ![last] = "register"]
        /\ UNCHANGED <<cancelReactions, ctxDone, cancelling, hits, fate, userCancelled>>
    BY <1>7, <2>1, <2>2 DEF ReleaseNext, cancelVars
  <2>4. pc[last] = "none"
    BY <2>2 DEF Placement, BufferOK
  <2>5. /\ pc'[last] = "register"
        /\ \A n \in Msgs \ {last} : pc'[n] = pc[n] \/ (pc[n] = "release" /\ pc'[n] = "done")
    BY <2>3, <2>4 DEF TypeOK
  <2> QED BY <2>3, <2>4, <2>5, LedgerOfNewJob
<1>8. ASSUME NEW m \in Msgs, Drain(m) PROVE Ledger'
  BY <1>8, LedgerOfDrain
<1>9. ASSUME NEW m \in Msgs, React(m) \/ CallCancel(m) PROVE Ledger'
  BY <1>9, LedgerOfReaction
<1>10. ASSUME NEW m \in Msgs, Register(m) PROVE Ledger'
  BY <1>10, LedgerOfRegister
<1>11. ASSUME NEW m \in Msgs, Cleanup(m) PROVE Ledger'
  BY <1>11, LedgerOfCleanup
<1>12. ASSUME NEW k \in Keys, RunnerStep(k) PROVE Ledger'
  BY <1>12, <1>1 DEF RunnerStep, RunnerAnswers, jobVars, cancelVars
<1>13. CASE UNCHANGED vars
  BY <1>13, <1>1 DEF vars, jobVars, cancelVars
<1> QED
  BY <1>2, <1>3, <1>4, <1>5, <1>6, <1>7, <1>8, <1>9, <1>10, <1>11, <1>12, <1>13
  DEF Next, JobStep

(* The cancel entries, the cancelled contexts and the discarded messages agree
   in every reachable state. *)
THEOREM LedgerInvariant == Spec => [](TypeOK /\ Placement /\ Ledger)
<1>1. Init => Ledger
  BY DEF Init, Ledger, EntriesOK, Justified, DiscardNeedsCancel
<1>2. TypeOK /\ TypeOK' /\ Placement /\ Ledger /\ [Next]_vars => Ledger'
  BY LedgerStep
<1> QED BY <1>1, <1>2, PlacementInvariant, PTL DEF Spec

(* A reaction never cancels a job that is over: see EntriesAreLive. *)
THEOREM CancelEntriesAreLive == Spec => []EntriesAreLive
<1>1. Ledger => EntriesAreLive
  BY DEF Ledger, EntriesOK, EntriesAreLive
<1> QED BY <1>1, LedgerInvariant, PTL

(* Waiting messages are only thrown away after a user's cancel: see
   DiscardNeedsCancel. *)
THEOREM DiscardsAreUsersChoice == Spec => []DiscardNeedsCancel
<1>1. Ledger => DiscardNeedsCancel
  BY DEF Ledger
<1> QED BY <1>1, LedgerInvariant, PTL

-----------------------------------------------------------------------------
(* A running job can be cancelled *)

(* The entry of a job with an ID of its own goes only by a reaction on it or by
   its own cleanup. *)
LEMMA CancellableStep ==
    ASSUME TypeOK, TypeOK', Placement, JobsCanBeCancelled, [Next]_vars
    PROVE  JobsCanBeCancelled'
<1>1. SUFFICES ASSUME NEW j \in Msgs, Registered(j)', j \notin cancelling' \cup hits',
                      \A n \in Msgs \ {j} : MsgId[n] # MsgId[j]
               PROVE  cancelReactions'[MsgId[j]] = j
  BY DEF JobsCanBeCancelled
<1>2. PICK id \in Ids : id = MsgId[j]
  BY DEF Ids
<1>3. Registered(j) /\ j \notin cancelling \cup hits => cancelReactions[id] = j
  BY <1>1, <1>2 DEF JobsCanBeCancelled
<1>4. ASSUME UNCHANGED <<cancelReactions, cancelling, hits>>, Registered(j)
      PROVE  cancelReactions'[id] = j
  BY <1>1, <1>3, <1>4
<1>5. ASSUME UNCHANGED <<cancelReactions, cancelling, hits, pc>> PROVE cancelReactions'[id] = j
  BY <1>1, <1>3, <1>5 DEF Registered
<1>6. ASSUME NEW m \in Msgs, QueueText(m) \/ DebounceText(m) PROVE cancelReactions'[id] = j
  BY <1>6, <1>5 DEF QueueText, DebounceText, jobVars, cancelVars
<1>7. ASSUME NEW m \in Msgs, Bg(m) PROVE cancelReactions'[id] = j
  <2>1. Registered(j)
    BY <1>1, <1>7 DEF Bg, Registered, TypeOK
  <2> QED BY <2>1, <1>4, <1>7 DEF Bg, cancelVars
<1>8. ASSUME NEW k \in Keys, TimerStep(k) PROVE cancelReactions'[id] = j
  <2>1. CASE CallbackRun(k)
    <3>1. PICK last \in Msgs : last = LastOf(msgs[k])
      BY <2>1, LastIsBuffered DEF CallbackRun
    <3>2. Registered(j)
      BY <1>1, <2>1, <3>1 DEF CallbackRun, Registered, TypeOK
    <3> QED BY <3>2, <1>4, <2>1 DEF CallbackRun, cancelVars
  <2>2. CASE Fire(k) \/ FireOrphan(k) \/ CallbackEmpty(k)
    BY <2>2, <1>5 DEF Fire, FireOrphan, CallbackEmpty, jobVars, cancelVars
  <2> QED BY <1>8, <2>1, <2>2 DEF TimerStep
<1>9. ASSUME NEW m \in Msgs, Register(m) PROVE cancelReactions'[id] = j
  <2>1. CASE m = j
    BY <2>1, <1>2, <1>9 DEF Register, TypeOK
  <2>2. CASE m # j
    <3>1. MsgId[m] # id /\ MsgId[m] \in Ids
      BY <2>2, <1>1, <1>2 DEF Ids
    <3>2. Registered(j) /\ UNCHANGED <<cancelling, hits>>
      BY <1>1, <2>2, <1>9 DEF Register, Registered, TypeOK
    <3>3. cancelReactions'[id] = cancelReactions[id]
      BY <1>9, <3>1 DEF Register, TypeOK
    <3> QED BY <1>1, <1>3, <3>2, <3>3
  <2> QED BY <2>1, <2>2
<1>10. ASSUME NEW m \in Msgs, Submit(m) \/ Receive(m) \/ CheckCancelled(m) \/ CheckAlive(m)
                \/ CheckBackground(m) \/ Reply(m) \/ Drain(m)
       PROVE cancelReactions'[id] = j
  <2>1. UNCHANGED <<cancelReactions, cancelling, hits>>
    BY <1>10 DEF Submit, Receive, CheckCancelled, CheckAlive, CheckBackground, Reply, Drain,
                 cancelVars
  <2>2. Registered(j)
    <3>1. CASE m # j
      <4>1. pc'[j] = pc[j]
        BY <1>10, <3>1 DEF Submit, Receive, CheckCancelled, CheckAlive, CheckBackground, Reply,
                           Drain, TypeOK
      <4> QED BY <1>1, <4>1 DEF Registered
    <3>2. CASE m = j
      <4>1. \/ pc[j] \in {"submit", "waiting", "check"}
            \/ pc[j] \in {"reply", "drain"} /\ j \in Background
            \/ pc'[j] \in {"release", "done"}
        BY <1>10, <3>2 DEF Submit, Receive, CheckCancelled, CheckAlive, CheckBackground, Reply,
                           Drain, TypeOK
      <4> QED BY <1>1, <4>1 DEF Registered
    <3> QED BY <3>1, <3>2
  <2> QED BY <2>1, <2>2, <1>4
<1>11. ASSUME NEW m \in Msgs, Cleanup(m) PROVE cancelReactions'[id] = j
  <2>1. CASE m = j
    <3>1. pc'[j] = "done" \/ (pc'[j] \in {"drain", "reply"} /\ j \notin Background)
      BY <1>11, <2>1 DEF Cleanup, TypeOK
    <3> QED BY <1>1, <3>1 DEF Registered
  <2>2. CASE m # j
    <3>1. MsgId[m] # id /\ MsgId[m] \in Ids
      BY <2>2, <1>1, <1>2 DEF Ids
    <3>2. Registered(j) /\ UNCHANGED <<cancelling, hits>>
      BY <1>1, <2>2, <1>11 DEF Cleanup, Registered, TypeOK
    <3>3. cancelReactions'[id] = cancelReactions[id]
      BY <1>11, <3>1 DEF Cleanup, TypeOK
    <3> QED BY <1>1, <1>3, <3>2, <3>3
  <2> QED BY <2>1, <2>2
<1>12. ASSUME NEW m \in Msgs, ReleaseIdle(m) \/ ReleaseNext(m) PROVE cancelReactions'[id] = j
  <2>1. Registered(j)
    <3>1. CASE ReleaseIdle(m)
      BY <1>1, <3>1 DEF ReleaseIdle, Registered, TypeOK
    <3>2. CASE ReleaseNext(m)
      <4>1. PICK last : pc' = [pc EXCEPT ![m] = "done", ![last] = "register"]
        BY <3>2 DEF ReleaseNext
      <4>2. pc'[j] = pc[j] \/ pc'[j] \in {"done", "register"}
        BY <4>1 DEF TypeOK
      <4> QED BY <1>1, <4>2 DEF Registered
    <3> QED BY <1>12, <3>1, <3>2
  <2> QED BY <2>1, <1>4, <1>12 DEF ReleaseIdle, ReleaseNext, cancelVars
<1>13. ASSUME NEW m \in Msgs, React(m) PROVE cancelReactions'[id] = j
  <2>1. Registered(j) /\ j \notin cancelling \cup hits
    BY <1>1, <1>13 DEF React, jobVars, Registered
  <2>2. cancelReactions[id] = j
    BY <2>1, <1>3
  <2>3. MsgId[m] = id => j \in cancelling'
    BY <2>2, <1>13 DEF React
  <2>4. MsgId[m] # id => cancelReactions'[id] = cancelReactions[id]
    BY <1>13 DEF React, TypeOK, Ids
  <2> QED BY <1>1, <2>2, <2>3, <2>4
<1>14. ASSUME NEW m \in Msgs, CallCancel(m) PROVE cancelReactions'[id] = j
  <2>1. /\ Registered(j) /\ UNCHANGED cancelReactions
        /\ cancelling' = cancelling \ {m} /\ hits' = hits \cup {m}
    BY <1>1, <1>14 DEF CallCancel, jobVars, Registered
  <2>2. j \notin cancelling \cup hits
    BY <2>1, <1>1
  <2> QED BY <2>1, <2>2, <1>3
<1>15. ASSUME NEW k \in Keys, RunnerStep(k) PROVE cancelReactions'[id] = j
  BY <1>15, <1>5 DEF RunnerStep, RunnerAnswers, jobVars, cancelVars
<1>16. CASE UNCHANGED vars
  BY <1>2, <1>16, <1>5 DEF vars, jobVars, cancelVars
<1> QED
  BY <1>2, <1>6, <1>7, <1>8, <1>9, <1>10, <1>11, <1>12, <1>13, <1>14, <1>15, <1>16
  DEF Next, JobStep

(* A running job that nobody cancelled can be cancelled: see
   JobsCanBeCancelled. *)
THEOREM RunningJobsCancellable == Spec => []JobsCanBeCancelled
<1>1. Init => JobsCanBeCancelled
  BY DEF Init, JobsCanBeCancelled, Registered
<1>2. TypeOK /\ TypeOK' /\ Placement /\ JobsCanBeCancelled /\ [Next]_vars => JobsCanBeCancelled'
  BY CancellableStep
<1> QED BY <1>1, <1>2, PlacementInvariant, PTL DEF Spec

-----------------------------------------------------------------------------
(* What became of a message is decided once *)

(* The dispatchJob of m still owes its messages an answer. *)
Undecided(m) ==
    \/ pc[m] \in {"register", "submit", "waiting", "check", "reply"}
    \/ pc[m] = "cleanup" /\ m \in Text /\ m \notin userCancelled

FatesOpen == \A m \in Msgs : Undecided(m) => \A n \in InBatch(m) : fate[n] = "none"

FinalStep == \A m \in Msgs : fate[m] # "none" => fate'[m] = fate[m]

(* A fate is given by the one batch a message is in, once, or by a drain of the
   buffer it is in. *)
LEMMA FatesStep ==
    ASSUME TypeOK, TypeOK', Placement, FatesOpen, [Next]_vars
    PROVE  FatesOpen' /\ FinalStep
<1>1. ASSUME UNCHANGED <<batch, fate>>, \A m \in Msgs : Undecided(m)' => Undecided(m)
      PROVE  FatesOpen' /\ FinalStep
  BY <1>1 DEF FatesOpen, FinalStep, InBatch
<1>2. ASSUME UNCHANGED <<batch, fate, pc, userCancelled>> PROVE FatesOpen' /\ FinalStep
  BY <1>2, <1>1 DEF Undecided
<1>3. ASSUME NEW m \in Msgs, QueueText(m) \/ DebounceText(m) PROVE FatesOpen' /\ FinalStep
  BY <1>3, <1>2 DEF QueueText, DebounceText, jobVars
<1>4. ASSUME NEW b \in Msgs, UNCHANGED fate,
             \A n \in InBatch(b)' : fate[n] = "none",
             \A m \in Msgs \ {b} : InBatch(m)' = InBatch(m) /\ (Undecided(m)' => Undecided(m))
      PROVE  FatesOpen' /\ FinalStep
  <2>1. FinalStep
    BY <1>4 DEF FinalStep
  <2>2. ASSUME NEW m \in Msgs, Undecided(m)', NEW n \in InBatch(m)' PROVE fate'[n] = "none"
    <3>1. CASE m = b
      BY <3>1, <2>2, <1>4
    <3>2. CASE m # b
      BY <3>2, <2>2, <1>4 DEF FatesOpen
    <3> QED BY <3>1, <3>2
  <2> QED BY <2>1, <2>2 DEF FatesOpen
<1>5. ASSUME NEW m \in Msgs, Bg(m) PROVE FatesOpen' /\ FinalStep
  <2>1. /\ UNCHANGED <<fate, userCancelled>>
        /\ batch'[m] = <<m>> /\ \A n \in Msgs \ {m} : batch'[n] = batch[n] /\ pc'[n] = pc[n]
        /\ fate[m] = "none"
    BY <1>5 DEF Bg, TypeOK, Placement, Unarrived
  <2>2. /\ InBatch(m)' = {m}
        /\ \A n \in Msgs \ {m} : InBatch(n)' = InBatch(n) /\ (Undecided(n)' => Undecided(n))
    BY <2>1 DEF InBatch, Undecided
  <2> QED BY <2>1, <2>2, <1>4
<1>6. ASSUME NEW k \in Keys, TimerStep(k) PROVE FatesOpen' /\ FinalStep
  <2>1. CASE CallbackRun(k)
    <3>1. PICK last \in Msgs : last = LastOf(msgs[k]) /\ last \in Buffered(k)
      BY <2>1, LastIsBuffered DEF CallbackRun
    <3>2. /\ msgs' = [msgs EXCEPT ![k] = <<>>] /\ batch' = [batch EXCEPT ![last] = msgs[k]]
          /\ \A n \in Msgs \ {last} : pc'[n] = pc[n]
          /\ UNCHANGED <<fate, userCancelled>>
      BY <2>1, <3>1 DEF CallbackRun, TypeOK
    <3>3. /\ \A n \in InBatch(last)' : fate[n] = "none"
          /\ \A n \in Msgs \ {last} : InBatch(n)' = InBatch(n)
      BY <3>2, TakeFacts DEF Placement, BufferOK
    <3>4. \A n \in Msgs \ {last} : Undecided(n)' => Undecided(n)
      BY <3>2 DEF Undecided
    <3> QED BY <3>2, <3>3, <3>4, <1>4
  <2>2. CASE Fire(k) \/ FireOrphan(k) \/ CallbackEmpty(k)
    BY <2>2, <1>2 DEF Fire, FireOrphan, CallbackEmpty, jobVars
  <2> QED BY <1>6, <2>1, <2>2 DEF TimerStep
<1>7. ASSUME NEW m \in Msgs, Register(m) \/ Submit(m) \/ Receive(m) \/ CheckAlive(m)
                \/ ReleaseIdle(m)
      PROVE FatesOpen' /\ FinalStep
  <2>1. /\ UNCHANGED <<batch, fate, userCancelled>>
        /\ \A n \in Msgs \ {m} : pc'[n] = pc[n]
        /\ pc[m] \in {"register", "submit", "waiting", "check"} \/ pc'[m] = "done"
    BY <1>7 DEF Register, Submit, Receive, CheckAlive, ReleaseIdle, TypeOK
  <2>2. \A n \in Msgs : Undecided(n)' => Undecided(n)
    BY <2>1 DEF Undecided
  <2> QED BY <2>1, <2>2, <1>1
<1>8. ASSUME NEW m \in Msgs, Cleanup(m) PROVE FatesOpen' /\ FinalStep
  <2>1. /\ UNCHANGED <<batch, fate, userCancelled>> /\ pc[m] = "cleanup"
        /\ \A n \in Msgs \ {m} : pc'[n] = pc[n]
        /\ pc'[m] \in {"done", "drain", "reply"}
        /\ pc'[m] = "reply" => m \in Text /\ m \notin userCancelled
    BY <1>8 DEF Cleanup, Text, TypeOK
  <2>2. \A n \in Msgs : Undecided(n)' => Undecided(n)
    BY <2>1 DEF Undecided
  <2> QED BY <2>1, <2>2, <1>1
<1>9. ASSUME NEW m \in Msgs, NEW what, fate' = Settle(m, what), UNCHANGED batch,
             Undecided(m), ~Undecided(m)',
             \A n \in Msgs \ {m} : Undecided(n)' => Undecided(n)
      PROVE  FatesOpen' /\ FinalStep
  <2>1. \A n \in Msgs : n \notin InBatch(m) => fate'[n] = fate[n]
    BY <1>9 DEF Settle
  <2>2. \A n \in InBatch(m) : fate[n] = "none"
    BY <1>9 DEF FatesOpen
  <2>3. FinalStep
    BY <2>1, <2>2 DEF FinalStep
  <2>4. \A n \in Msgs : InBatch(n)' = InBatch(n)
    BY <1>9 DEF InBatch
  <2>5. ASSUME NEW b \in Msgs, Undecided(b)', NEW n \in InBatch(b) PROVE fate'[n] = "none"
    <3>1. b # m /\ Undecided(b)
      BY <2>5, <1>9
    <3>2. n \notin InBatch(m)
      BY <3>1 DEF Placement, DispatchedOnce
    <3>3. n \in Msgs
      BY DEF Placement, BatchOK, TypeOK
    <3> QED BY <3>1, <3>2, <3>3, <2>1 DEF FatesOpen
  <2> QED BY <2>3, <2>4, <2>5 DEF FatesOpen
<1>10. ASSUME NEW m \in Msgs, CheckCancelled(m) PROVE FatesOpen' /\ FinalStep
  <2>1. /\ fate' = Settle(m, "cancelled") /\ UNCHANGED batch
        /\ pc[m] = "check" /\ pc'[m] = "cleanup" /\ \A n \in Msgs \ {m} : pc'[n] = pc[n]
        /\ userCancelled' = userCancelled \cup {m}
    BY <1>10 DEF CheckCancelled, TypeOK
  <2>2. /\ Undecided(m) /\ ~Undecided(m)'
        /\ \A n \in Msgs \ {m} : Undecided(n)' => Undecided(n)
    BY <2>1 DEF Undecided
  <2> QED BY <2>1, <2>2, <1>9
<1>11. ASSUME NEW m \in Msgs, CheckBackground(m) PROVE FatesOpen' /\ FinalStep
  <2>1. /\ UNCHANGED <<batch, userCancelled>> /\ pc[m] = "check"
        /\ \A n \in Msgs \ {m} : pc'[n] = pc[n]
        /\ \/ fate' = Settle(m, "cancelled") /\ pc'[m] = "drain"
           \/ fate' = fate /\ pc'[m] = "reply"
    BY <1>11 DEF CheckBackground, TypeOK
  <2>2. Undecided(m) /\ \A n \in Msgs \ {m} : Undecided(n)' => Undecided(n)
    BY <2>1 DEF Undecided
  <2>3. pc'[m] = "drain" => ~Undecided(m)'
    BY DEF Undecided
  <2>4. CASE fate' = Settle(m, "cancelled") /\ pc'[m] = "drain"
    BY <2>1, <2>2, <2>3, <2>4, <1>9
  <2>5. CASE fate' = fate /\ pc'[m] = "reply"
    BY <2>1, <2>2, <2>5, <1>1
  <2> QED BY <2>1, <2>4, <2>5
<1>12. ASSUME NEW m \in Msgs, Reply(m) PROVE FatesOpen' /\ FinalStep
  <2>1. PICK what : fate' = Settle(m, what)
    BY <1>12 DEF Reply
  <2>2. /\ UNCHANGED <<batch, userCancelled>> /\ pc[m] = "reply"
        /\ \A n \in Msgs \ {m} : pc'[n] = pc[n]
        /\ pc'[m] = IF m \in Background THEN "cleanup" ELSE "release"
    BY <1>12 DEF Reply, TypeOK
  <2>3. /\ Undecided(m) /\ ~Undecided(m)'
        /\ \A n \in Msgs \ {m} : Undecided(n)' => Undecided(n)
    BY <2>2 DEF Undecided, Text
  <2> QED BY <2>1, <2>2, <2>3, <1>9
<1>13. ASSUME NEW m \in Msgs, ReleaseNext(m) PROVE FatesOpen' /\ FinalStep
  <2>1. PICK k \in Keys : k = KeyOf[m]
    BY KeyOfAssumption
  <2>2. PICK last \in Msgs : last = LastOf(msgs[k]) /\ last \in Buffered(k)
    BY <1>13, <2>1, LastIsBuffered DEF ReleaseNext
  <2>3. /\ pc' = [pc EXCEPT ![m] = "done", ![last] = "register"]
        /\ msgs' = [msgs EXCEPT ![k] = <<>>] /\ batch' = [batch EXCEPT ![last] = msgs[k]]
        /\ UNCHANGED <<fate, userCancelled>>
    BY <1>13, <2>1, <2>2 DEF ReleaseNext
  <2>4. /\ \A n \in InBatch(last)' : fate[n] = "none"
        /\ \A n \in Msgs \ {last} : InBatch(n)' = InBatch(n)
    BY <2>3, TakeFacts DEF Placement, BufferOK
  <2>5. \A n \in Msgs \ {last} : pc'[n] = pc[n] \/ pc'[n] = "done"
    BY <2>3 DEF TypeOK
  <2>6. \A n \in Msgs \ {last} : Undecided(n)' => Undecided(n)
    BY <2>3, <2>5 DEF Undecided
  <2> QED BY <2>3, <2>4, <2>6, <1>4
<1>14. ASSUME NEW m \in Msgs, Drain(m) PROVE FatesOpen' /\ FinalStep
  <2>1. PICK k \in Keys : k = KeyOf[m]
    BY KeyOfAssumption
  <2>2. /\ UNCHANGED <<batch, userCancelled>> /\ pc[m] = "drain"
        /\ pc'[m] = IF m \in Background THEN "cleanup" ELSE "done"
        /\ \A n \in Msgs \ {m} : pc'[n] = pc[n]
        /\ \A n \in Msgs : fate'[n] = IF n \in Buffered(k) THEN "discarded" ELSE fate[n]
    BY <1>14, <2>1 DEF Drain, TypeOK
  <2>3. \A n \in Buffered(k) : fate[n] = "none"
    BY DEF Placement, BufferOK
  <2>4. \A n \in Msgs : Undecided(n)' => Undecided(n)
    BY <2>2 DEF Undecided, Text
  <2>5. \A b \in Msgs : InBatch(b)' = InBatch(b) /\ InBatch(b) \cap Buffered(k) = {}
    BY <2>2 DEF InBatch, Placement, DispatchedOnce
  <2>6. \A b \in Msgs : \A n \in InBatch(b) : n \in Msgs
    BY DEF Placement, BatchOK, TypeOK
  <2> QED BY <2>2, <2>3, <2>4, <2>5, <2>6 DEF FatesOpen, FinalStep
<1>15. ASSUME NEW m \in Msgs, React(m) \/ CallCancel(m) PROVE FatesOpen' /\ FinalStep
  BY <1>15, <1>2 DEF React, CallCancel, jobVars
<1>16. ASSUME NEW k \in Keys, RunnerStep(k) PROVE FatesOpen' /\ FinalStep
  BY <1>16, <1>2 DEF RunnerStep, RunnerAnswers, jobVars
<1>17. CASE UNCHANGED vars
  BY <1>17, <1>2 DEF vars, jobVars
<1> QED
  BY <1>3, <1>5, <1>6, <1>7, <1>8, <1>10, <1>11, <1>12, <1>13, <1>14, <1>15, <1>16, <1>17
  DEF Next, JobStep

(* What became of a message never changes afterwards: see FateIsFinal. *)
THEOREM FateNeverChanges == Spec => FateIsFinal
<1>1. Init => FatesOpen
  BY DEF Init, FatesOpen, Undecided
<1>2. TypeOK /\ TypeOK' /\ Placement /\ FatesOpen /\ [Next]_vars => FatesOpen'
  BY FatesStep
<1>3. TypeOK /\ TypeOK' /\ Placement /\ FatesOpen /\ [Next]_vars
         => [\A m \in Msgs : fate[m] # "none" => fate'[m] = fate[m]]_fate
  BY FatesStep DEF FinalStep
<1> QED BY <1>1, <1>2, <1>3, PlacementInvariant, PTL DEF Spec, FateIsFinal

-----------------------------------------------------------------------------
(* The runner's part *)

(* Every step is a step of JobService or leaves its state alone.  So the actions
   are built; the lemma lets what is proved of JobService be used here, and
   ResultsAreAwaited below says that dispatcher and runner fit together. *)
LEMMA UsesJobService == Spec => Runner!Spec
<1>1. Init => Runner!Init
  BY DEF Init
<1>2. [Next]_vars => [Runner!Next]_(Runner!vars)
  <2> SUFFICES ASSUME [Next]_vars PROVE Runner!Next \/ UNCHANGED <<pending, outcome>>
    BY DEF Runner!vars
  <2>1. ASSUME NEW m \in Msgs, Submit(m) PROVE Runner!Next
    BY <2>1 DEF Submit, Runner!Next
  <2>2. ASSUME NEW k \in Keys, RunnerStep(k) PROVE Runner!Next
    BY <2>2 DEF RunnerStep, RunnerAnswers, Runner!Next
  <2>3. ASSUME NEW m \in Msgs, QueueText(m) \/ DebounceText(m) \/ Bg(m) \/ React(m) \/ CallCancel(m)
        PROVE  UNCHANGED <<pending, outcome>>
    BY <2>3 DEF QueueText, DebounceText, Bg, React, CallCancel, runnerVars
  <2>4. ASSUME NEW k \in Keys, TimerStep(k) PROVE UNCHANGED <<pending, outcome>>
    BY <2>4 DEF TimerStep, Fire, FireOrphan, CallbackEmpty, CallbackRun, runnerVars
  <2>5. ASSUME NEW m \in Msgs, JobStep(m), ~Submit(m) PROVE UNCHANGED <<pending, outcome>>
    BY <2>5 DEF JobStep, Register, Receive, CheckCancelled, CheckAlive, CheckBackground, Cleanup,
                Reply, ReleaseIdle, ReleaseNext, Drain, runnerVars
  <2>6. CASE UNCHANGED vars
    BY <2>6 DEF vars, runnerVars
  <2> QED BY <2>1, <2>2, <2>3, <2>4, <2>5, <2>6 DEF Next
<1> QED BY <1>1, <1>2, PTL DEF Spec, Runner!Spec

-----------------------------------------------------------------------------
(* Every dispatchJob runs once, from its start to its end                  *)

(* Where dispatchJob goes next: a foreground job cleans up, then replies and
   lets the next batch in; a background job replies, then cleans up. *)
Onward(m) ==
    {<<"none", "register">>, <<"register", "submit">>, <<"submit", "waiting">>,
     <<"waiting", "check">>} \cup
    IF m \in Background
    THEN {<<"check", "reply">>, <<"check", "drain">>, <<"reply", "cleanup">>,
          <<"drain", "cleanup">>, <<"cleanup", "done">>}
    ELSE {<<"check", "cleanup">>, <<"cleanup", "reply">>, <<"cleanup", "drain">>,
          <<"reply", "release">>, <<"release", "done">>, <<"drain", "done">>}

OnlyTextReleases == \A m \in Msgs : pc[m] = "release" => m \in Text

(* Every step moves one job onward, the end of a batch two. *)
LEMMA JobMoves ==
    ASSUME TypeOK, Placement, OnlyTextReleases, [Next]_vars
    PROVE  /\ \A n \in Msgs : pc'[n] # pc[n] => <<pc[n], pc'[n]>> \in Onward(n)
           /\ \A n \in Msgs : JobStep(n) => pc'[n] # pc[n]
<1> DEFINE Moves == \A n \in Msgs : pc'[n] # pc[n] => <<pc[n], pc'[n]>> \in Onward(n)
<1>1. UNCHANGED pc => Moves
  OBVIOUS
<1>2. ASSUME NEW m \in Msgs, pc' = [pc EXCEPT ![m] = pc'[m]], <<pc[m], pc'[m]>> \in Onward(m)
      PROVE  Moves
  BY <1>2 DEF TypeOK
<1> HIDE DEF Moves
<1>3. ASSUME NEW m \in Msgs, Bg(m) PROVE Moves
  BY <1>3, <1>2 DEF Bg, TypeOK, Placement, BatchOK, Onward
<1>4. ASSUME NEW k \in Keys, TimerStep(k) PROVE Moves
  <2>1. CASE CallbackRun(k)
    <3>1. PICK last \in Msgs : last = LastOf(msgs[k]) /\ last \in Buffered(k)
      BY <2>1, LastIsBuffered DEF CallbackRun
    <3>2. pc[last] = "none" /\ pc' = [pc EXCEPT ![last] = "register"]
      BY <2>1, <3>1 DEF CallbackRun, Placement, BufferOK
    <3> QED BY <3>2, <1>2 DEF TypeOK, Onward
  <2>2. CASE Fire(k) \/ FireOrphan(k) \/ CallbackEmpty(k)
    BY <2>2, <1>1 DEF Fire, FireOrphan, CallbackEmpty, jobVars
  <2> QED BY <1>4, <2>1, <2>2 DEF TimerStep
<1>5. ASSUME NEW m \in Msgs, Register(m) \/ Submit(m) \/ Receive(m) \/ CheckCancelled(m)
                \/ CheckAlive(m) \/ CheckBackground(m)
      PROVE  Moves /\ pc'[m] # pc[m]
  <2>1. /\ pc' = [pc EXCEPT ![m] = pc'[m]] /\ pc'[m] # pc[m]
        /\ <<pc[m], pc'[m]>> \in Onward(m)
    BY <1>5 DEF Register, Submit, Receive, CheckCancelled, CheckAlive, CheckBackground,
                Text, TypeOK, Onward
  <2> QED BY <2>1, <1>2
<1>6. ASSUME NEW m \in Msgs, Cleanup(m) \/ Reply(m) \/ ReleaseIdle(m) \/ Drain(m)
      PROVE  Moves /\ pc'[m] # pc[m]
  <2>1. /\ pc' = [pc EXCEPT ![m] = pc'[m]] /\ pc'[m] # pc[m]
        /\ <<pc[m], pc'[m]>> \in Onward(m)
    BY <1>6 DEF Cleanup, Reply, ReleaseIdle, Drain, OnlyTextReleases, Text, TypeOK, Onward
  <2> QED BY <2>1, <1>2
<1>7. ASSUME NEW m \in Msgs, ReleaseNext(m) PROVE Moves /\ pc'[m] # pc[m]
  <2>1. PICK k \in Keys : k = KeyOf[m]
    BY KeyOfAssumption
  <2>2. PICK last \in Msgs : last = LastOf(msgs[k]) /\ last \in Buffered(k)
    BY <1>7, <2>1, LastIsBuffered DEF ReleaseNext
  <2>3. /\ pc[m] = "release" /\ m \in Text /\ pc[last] = "none"
        /\ pc' = [pc EXCEPT ![m] = "done", ![last] = "register"]
    BY <1>7, <2>1, <2>2 DEF ReleaseNext, OnlyTextReleases, Placement, BufferOK
  <2>4. /\ pc'[m] = "done" /\ pc'[last] = "register"
        /\ \A n \in Msgs \ {m, last} : pc'[n] = pc[n]
    BY <2>3 DEF TypeOK
  <2>5. <<pc[m], pc'[m]>> \in Onward(m) /\ <<pc[last], pc'[last]>> \in Onward(last)
    BY <2>3, <2>4 DEF Onward, Text
  <2> QED BY <2>3, <2>4, <2>5 DEF Moves
<1>8. ASSUME NEW m \in Msgs, \/ QueueText(m) \/ DebounceText(m) \/ React(m) \/ CallCancel(m)
      PROVE  Moves
  BY <1>8, <1>1 DEF QueueText, DebounceText, React, CallCancel, jobVars
<1>9. ASSUME NEW k \in Keys, RunnerStep(k) PROVE Moves
  BY <1>9, <1>1 DEF RunnerStep, RunnerAnswers, jobVars
<1>10. ASSUME UNCHANGED vars PROVE Moves
  BY <1>10, <1>1 DEF vars, jobVars
<1>11. Moves
  BY <1>3, <1>4, <1>5, <1>6, <1>7, <1>8, <1>9, <1>10 DEF Next, JobStep
<1> QED BY <1>5, <1>6, <1>7, <1>11 DEF JobStep, Moves

LEMMA OnlyTextReleasesStep ==
    ASSUME TypeOK, TypeOK', Placement, OnlyTextReleases, [Next]_vars
    PROVE  OnlyTextReleases'
<1>1. \A n \in Msgs : pc'[n] # pc[n] => <<pc[n], pc'[n]>> \in Onward(n)
  BY JobMoves
<1> QED BY <1>1 DEF OnlyTextReleases, Onward, Text

(* How far the job of m has come. *)
ForegroundPlaces ==
    [none |-> 0, register |-> 1, submit |-> 2, waiting |-> 3, check |-> 4,
     cleanup |-> 5, drain |-> 6, reply |-> 6, release |-> 7, done |-> 8]
BackgroundPlaces ==
    [none |-> 0, register |-> 1, submit |-> 2, waiting |-> 3, check |-> 4,
     drain |-> 5, reply |-> 5, cleanup |-> 6, release |-> 7, done |-> 8]
Place(m) == IF m \in Background THEN BackgroundPlaces[pc[m]] ELSE ForegroundPlaces[pc[m]]

GetsOn == \A m \in Msgs : Place(m)' >= Place(m) /\ (JobStep(m) => Place(m)' > Place(m))

(* The half of EveryMessageSettles that needs no fairness: whatever timers,
   callbacks, ends of batches, drains and reactions do to each other, no job is
   begun a second time and none falls back; each takes at most 8 steps. *)
THEOREM JobsRunOnce ==
    Spec => [](\A m \in Msgs : Place(m) \in 0 .. 8) /\ [][GetsOn]_vars
<1>1. Init => OnlyTextReleases
  BY DEF Init, OnlyTextReleases
<1>2. TypeOK /\ TypeOK' /\ Placement /\ OnlyTextReleases /\ [Next]_vars => OnlyTextReleases'
  BY OnlyTextReleasesStep
<1>3. TypeOK => \A m \in Msgs : Place(m) \in 0 .. 8
  BY DEF TypeOK, PcStates, Place, ForegroundPlaces, BackgroundPlaces
<1>4. TypeOK /\ TypeOK' /\ Placement /\ OnlyTextReleases /\ [Next]_vars => GetsOn
  <2> SUFFICES ASSUME TypeOK, TypeOK', Placement, OnlyTextReleases, [Next]_vars, NEW m \in Msgs
               PROVE  Place(m)' >= Place(m) /\ (JobStep(m) => Place(m)' > Place(m))
    BY DEF GetsOn
  <2>1. /\ pc'[m] # pc[m] => <<pc[m], pc'[m]>> \in Onward(m)
        /\ JobStep(m) => pc'[m] # pc[m]
    BY JobMoves
  <2>2. CASE pc'[m] = pc[m]
    BY <2>1, <2>2 DEF TypeOK, PcStates, Place, ForegroundPlaces, BackgroundPlaces
  <2>3. CASE m \in Background /\ <<pc[m], pc'[m]>> \in Onward(m)
    BY <2>3 DEF Place, BackgroundPlaces, Onward
  <2>4. CASE m \notin Background /\ <<pc[m], pc'[m]>> \in Onward(m)
    BY <2>4 DEF Place, ForegroundPlaces, Onward
  <2> QED BY <2>1, <2>2, <2>3, <2>4
<1> QED BY <1>1, <1>2, <1>3, <1>4, PlacementInvariant, PTL DEF Spec

-----------------------------------------------------------------------------
(* Where the promises hold that the runs topic_ids, topic_cancel and       *)
(* topic_overlap refute                                                    *)

(* handleReactionCancel cancels a task of the topic the reaction was made in as
   soon as no message ID is used in two topics: cancelReactions forgets the chat,
   and nothing else goes wrong with it - whatever cleans up when, an entry stays
   under the ID of its own job. *)
THEOREM UniqueIdsKeepReactionsHome ==
    ASSUME \A m, n \in Msgs : MsgId[m] = MsgId[n] => KeyOf[m] = KeyOf[n]
    PROVE  Spec => ReactionHitsOwnTopic
<1>1. TypeOK /\ Ledger => \A m \in Msgs : React(m) => KeyOf[cancelReactions[MsgId[m]]] = KeyOf[m]
  <2> SUFFICES ASSUME TypeOK, Ledger, NEW m \in Msgs, React(m)
               PROVE  KeyOf[cancelReactions[MsgId[m]]] = KeyOf[m]
    OBVIOUS
  <2>1. MsgId[m] \in Ids /\ cancelReactions[MsgId[m]] # NoMsg
    BY DEF React, Ids
  <2>2. cancelReactions[MsgId[m]] \in Msgs /\ MsgId[cancelReactions[MsgId[m]]] = MsgId[m]
    BY <2>1 DEF TypeOK, Ledger, EntriesOK
  <2> QED BY <2>2
<1> QED BY <1>1, LedgerInvariant, PTL DEF ReactionHitsOwnTopic

(* A foreground job that has seen its cancellation is on its way out, and
   "Cancelled" is only said of a job whose context has ended. *)
Noticed ==
    /\ hits \subseteq ctxDone
    /\ \A m \in userCancelled : m \in Text /\ pc[m] \in {"cleanup", "drain", "done"}

LEMMA NoticedStep ==
    ASSUME TypeOK, Placement, Noticed, [Next]_vars
    PROVE  Noticed'
<1>1. ASSUME UNCHANGED <<hits, ctxDone, userCancelled>>,
             \A m \in Msgs : pc[m] \in {"cleanup", "drain", "done"} => pc'[m] = pc[m]
      PROVE  Noticed'
  BY <1>1 DEF Noticed, Text
<1>2. ASSUME NEW m \in Msgs, QueueText(m) \/ DebounceText(m) PROVE Noticed'
  BY <1>2, <1>1 DEF QueueText, DebounceText, jobVars, cancelVars
<1>3. ASSUME NEW m \in Msgs, Bg(m) PROVE Noticed'
  <2>1. pc[m] = "none"
    BY <1>3 DEF Bg, Placement, BatchOK
  <2> QED BY <1>3, <2>1, <1>1 DEF Bg, cancelVars, TypeOK
<1>4. ASSUME NEW k \in Keys, TimerStep(k) PROVE Noticed'
  <2>1. CASE CallbackRun(k)
    <3>1. PICK last \in Msgs : last = LastOf(msgs[k]) /\ last \in Buffered(k)
      BY <2>1, LastIsBuffered DEF CallbackRun
    <3>2. pc[last] = "none" /\ pc' = [pc EXCEPT ![last] = "register"]
      BY <2>1, <3>1 DEF CallbackRun, Placement, BufferOK
    <3> QED BY <2>1, <3>2, <1>1 DEF CallbackRun, cancelVars, TypeOK
  <2>2. CASE Fire(k) \/ FireOrphan(k) \/ CallbackEmpty(k)
    BY <2>2, <1>1 DEF Fire, FireOrphan, CallbackEmpty, jobVars, cancelVars
  <2> QED BY <1>4, <2>1, <2>2 DEF TimerStep
<1>5. ASSUME NEW m \in Msgs, Register(m) \/ Submit(m) \/ Receive(m) \/ CheckAlive(m)
                \/ CheckBackground(m) \/ Reply(m) \/ ReleaseIdle(m)
      PROVE Noticed'
  <2>1. /\ UNCHANGED <<hits, ctxDone, userCancelled>>
        /\ pc[m] \in {"register", "submit", "waiting", "check", "reply", "release"}
        /\ \A n \in Msgs \ {m} : pc'[n] = pc[n]
    BY <1>5 DEF Register, Submit, Receive, CheckAlive, CheckBackground, Reply, ReleaseIdle,
                cancelVars, TypeOK
  <2> QED BY <2>1, <1>1
<1>6. ASSUME NEW m \in Msgs, CheckCancelled(m) PROVE Noticed'
  BY <1>6 DEF CheckCancelled, cancelVars, Noticed, TypeOK
<1>7. ASSUME NEW m \in Msgs, Cleanup(m) \/ Drain(m) PROVE Noticed'
  <2>1. /\ \A n \in Msgs \ {m} : pc'[n] = pc[n]
        /\ m \in userCancelled => m \in Text /\ pc'[m] \in {"drain", "done"}
        /\ UNCHANGED <<hits, userCancelled>> /\ ctxDone \subseteq ctxDone'
    BY <1>7 DEF Cleanup, Drain, cancelVars, Noticed, Text, TypeOK
  <2> QED BY <2>1 DEF Noticed, TypeOK
<1>8. ASSUME NEW m \in Msgs, ReleaseNext(m) PROVE Noticed'
  <2>1. PICK k \in Keys : k = KeyOf[m]
    BY KeyOfAssumption
  <2>2. PICK last \in Msgs : last = LastOf(msgs[k]) /\ last \in Buffered(k)
    BY <1>8, <2>1, LastIsBuffered DEF ReleaseNext
  <2>3. /\ pc[m] = "release" /\ pc[last] = "none"
        /\ pc' = [pc EXCEPT ![m] = "done", ![last] = "register"]
    BY <1>8, <2>1, <2>2 DEF ReleaseNext, Placement, BufferOK
  <2> QED BY <1>8, <2>3, <1>1 DEF ReleaseNext, cancelVars, TypeOK
<1>9. ASSUME NEW m \in Msgs, React(m) PROVE Noticed'
  BY <1>9, <1>1 DEF React, jobVars
<1>10. ASSUME NEW m \in Msgs, CallCancel(m) PROVE Noticed'
  BY <1>10 DEF CallCancel, jobVars, Noticed
<1>11. ASSUME NEW k \in Keys, RunnerStep(k) PROVE Noticed'
  BY <1>11, <1>1 DEF RunnerStep, RunnerAnswers, jobVars, cancelVars
<1>12. CASE UNCHANGED vars
  BY <1>12, <1>1 DEF vars, jobVars, cancelVars
<1> QED
  BY <1>2, <1>3, <1>4, <1>5, <1>6, <1>7, <1>8, <1>9, <1>10, <1>11, <1>12 DEF Next, JobStep

(* Once "Cancelled" was said before dispatchJob looks at jobCtx, the job is not
   taken for an uncancelled one; and a job that was seen to be cancelled neither
   replies nor starts the next batch. *)
CancelsInTimeHold ==
    [][\A m \in Msgs : /\ m \in hits => ~CheckAlive(m)
                       /\ m \in userCancelled => ~Reply(m) /\ ~ReleaseNext(m)]_vars

(* "Called on cancellation so queued messages are not auto-dispatched after a
   cancel" (drainPending) is true of every cancellation of a foreground job that
   comes before the look at jobCtx; CancelHoldsTheQueue fails for the later ones
   and for those of background jobs alone. *)
THEOREM CancelInTimeHoldsTheQueue == Spec => CancelsInTimeHold
<1>1. Init => Noticed
  BY DEF Init, Noticed
<1>2. TypeOK /\ Placement /\ Noticed /\ [Next]_vars => Noticed'
  BY NoticedStep
<1>3. Noticed => \A m \in Msgs : /\ m \in hits => ~CheckAlive(m)
                                 /\ m \in userCancelled => ~Reply(m) /\ ~ReleaseNext(m)
  BY DEF Noticed, CheckAlive, Reply, ReleaseNext
<1> QED BY <1>1, <1>2, <1>3, PlacementInvariant, PTL DEF Spec, CancelsInTimeHold

(* No message arrives between the firing of a debounce timer and its callback. *)
CallbacksInTime == \A k \in Keys : ~(armed[k] /\ callbacks[k] > 0)

(* No /bg job drains its topic. *)
NoForeignDrain == \A m \in Background : pc[m] # "drain"

Calm == CallbacksInTime /\ NoForeignDrain

(* A topic is free, waits for its timer or callback, or runs one batch. *)
Orderly(k) ==
    /\ orphans[k] = 0 /\ callbacks[k] \in {0, 1}
    /\ running[k] => ~armed[k] /\ callbacks[k] = 0
    /\ ActiveBatches(k) # {} => running[k]
    /\ \A m, n \in ActiveBatches(k) : m = n

AllOrderly == \A k \in Keys : Orderly(k)

(* What a step leaves alone of a topic leaves it orderly. *)
LEMMA SameTopic ==
    ASSUME NEW k \in Keys, Orderly(k), ActiveBatches(k)' = ActiveBatches(k),
           orphans'[k] = orphans[k], callbacks'[k] = callbacks[k],
           running'[k] = running[k], armed'[k] = armed[k]
    PROVE  Orderly(k)'
  BY DEF Orderly

LEMMA OrderlyStep ==
    ASSUME TypeOK, TypeOK', Placement, OnlyTextReleases, AllOrderly, Calm, Calm', [Next]_vars
    PROVE  AllOrderly'
<1> USE DEF Idle
<1>1. ASSUME UNCHANGED <<running, armed, orphans, callbacks>>,
             \A m \in Text : pc[m] \in Idle <=> pc'[m] \in Idle
      PROVE  AllOrderly'
  <2>1. \A k \in Keys : ActiveBatches(k)' = ActiveBatches(k)
    BY <1>1 DEF ActiveBatches, Text
  <2> QED BY <1>1, <2>1, SameTopic DEF AllOrderly
<1>2. ASSUME NEW m \in Msgs, QueueText(m) PROVE AllOrderly'
  BY <1>2, <1>1 DEF QueueText, jobVars
<1>3. ASSUME NEW m \in Msgs, DebounceText(m) PROVE AllOrderly'
  <2>1. PICK k \in Keys : k = KeyOf[m]
    BY KeyOfAssumption
  <2>2. /\ UNCHANGED <<running, orphans, callbacks, pc>> /\ ~running[k]
        /\ \A o \in Keys \ {k} : armed'[o] = armed[o]
    BY <1>3, <2>1 DEF DebounceText, jobVars, TypeOK
  <2>3. \A o \in Keys : ActiveBatches(o)' = ActiveBatches(o)
    BY <2>2 DEF ActiveBatches
  <2>4. Orderly(k)'
    BY <2>1, <2>2, <2>3 DEF AllOrderly, Orderly
  <2>5. \A o \in Keys \ {k} : Orderly(o)'
    BY <2>2, <2>3, SameTopic DEF AllOrderly
  <2> QED BY <2>4, <2>5 DEF AllOrderly
<1>4. ASSUME NEW m \in Msgs, Bg(m) PROVE AllOrderly'
  BY <1>4, <1>1 DEF Bg, bufferVars, TypeOK, Text
<1>5. ASSUME NEW k \in Keys, Fire(k) \/ FireOrphan(k) \/ CallbackEmpty(k) PROVE AllOrderly'
  <2>1. \A o \in Keys : ActiveBatches(o)' = ActiveBatches(o)
    BY <1>5 DEF Fire, FireOrphan, CallbackEmpty, jobVars, ActiveBatches
  <2>2. /\ \A o \in Keys \ {k} : armed'[o] = armed[o] /\ orphans'[o] = orphans[o]
                                 /\ callbacks'[o] = callbacks[o]
        /\ running' = running
    BY <1>5 DEF Fire, FireOrphan, CallbackEmpty, TypeOK
  <2>3. ~FireOrphan(k)
    BY DEF FireOrphan, AllOrderly, Orderly
  <2>4. Orderly(k)'
    <3>1. CASE Fire(k)
      <4>1. armed[k] /\ callbacks[k] = 0 /\ ~running[k]
        BY <3>1 DEF Fire, Calm, CallbacksInTime, AllOrderly, Orderly
      <4>2. callbacks'[k] = 1 /\ ~armed'[k] /\ orphans'[k] = orphans[k]
        BY <3>1, <4>1 DEF Fire, TypeOK
      <4> QED BY <2>1, <2>2, <4>1, <4>2 DEF AllOrderly, Orderly
    <3>2. CASE CallbackEmpty(k)
      <4>1. callbacks[k] = 1
        BY <3>2 DEF CallbackEmpty, AllOrderly, Orderly
      <4>2. callbacks'[k] = 0 /\ armed'[k] = armed[k] /\ orphans'[k] = orphans[k]
        BY <3>2, <4>1 DEF CallbackEmpty, TypeOK
      <4> QED BY <2>1, <2>2, <4>1, <4>2 DEF AllOrderly, Orderly
    <3> QED BY <1>5, <2>3, <3>1, <3>2
  <2>5. \A o \in Keys \ {k} : Orderly(o)'
    BY <2>1, <2>2, SameTopic DEF AllOrderly
  <2> QED BY <2>4, <2>5 DEF AllOrderly
<1>6. ASSUME NEW k \in Keys, CallbackRun(k) PROVE AllOrderly'
  <2>1. PICK last \in Msgs : last = LastOf(msgs[k]) /\ last \in Buffered(k)
    BY <1>6, LastIsBuffered DEF CallbackRun
  <2>2. callbacks[k] = 1 /\ ~running[k] /\ ~armed[k] /\ ActiveBatches(k) = {}
    BY <1>6 DEF CallbackRun, Calm, CallbacksInTime, AllOrderly, Orderly
  <2>3. /\ last \in Text /\ KeyOf[last] = k /\ pc'[last] = "register"
        /\ \A n \in Msgs \ {last} : pc'[n] = pc[n]
    BY <1>6, <2>1 DEF CallbackRun, TypeOK, Placement, BufferOK
  <2>4. /\ callbacks'[k] = 0 /\ running'[k] /\ ~armed'[k] /\ orphans'[k] = orphans[k]
        /\ \A o \in Keys \ {k} : /\ running'[o] = running[o] /\ callbacks'[o] = callbacks[o]
                                /\ armed'[o] = armed[o] /\ orphans'[o] = orphans[o]
    BY <1>6, <2>2 DEF CallbackRun, TypeOK
  <2>5. ActiveBatches(k)' = {last}
    BY <2>2, <2>3 DEF ActiveBatches, Text
  <2>6. \A o \in Keys \ {k} : ActiveBatches(o)' = ActiveBatches(o)
    BY <2>3 DEF ActiveBatches, Text
  <2>7. Orderly(k)'
    BY <2>4, <2>5 DEF AllOrderly, Orderly
  <2> QED BY <2>4, <2>6, <2>7, SameTopic DEF AllOrderly
<1>7. ASSUME NEW m \in Msgs, Register(m) \/ Submit(m) \/ Receive(m) \/ CheckCancelled(m)
                \/ CheckAlive(m) \/ CheckBackground(m) \/ Cleanup(m) \/ Reply(m)
      PROVE AllOrderly'
  <2>1. \A n \in Text : pc[n] \in Idle <=> pc'[n] \in Idle
    BY <1>7 DEF Register, Submit, Receive, CheckCancelled, CheckAlive, CheckBackground,
                Cleanup, Reply, Text, TypeOK
  <2>2. UNCHANGED <<running, armed, orphans, callbacks>>
    BY <1>7 DEF Register, Submit, Receive, CheckCancelled, CheckAlive, CheckBackground,
                Cleanup, Reply, bufferVars
  <2> QED BY <2>1, <2>2, <1>1
<1>8. ASSUME NEW m \in Msgs, ReleaseIdle(m) \/ Drain(m) PROVE AllOrderly'
  <2>1. PICK k \in Keys : k = KeyOf[m]
    BY KeyOfAssumption
  <2>2. m \in Text
    BY <1>8, <2>1 DEF ReleaseIdle, Drain, Calm, NoForeignDrain, OnlyTextReleases, Text
  <2>3. m \in ActiveBatches(k)
    BY <1>8, <2>1, <2>2 DEF ReleaseIdle, Drain, ActiveBatches
  <2>4. ActiveBatches(k) = {m} /\ running[k] /\ ~armed[k] /\ callbacks[k] = 0 /\ orphans[k] = 0
    BY <2>3 DEF AllOrderly, Orderly
  <2>5. /\ \A n \in Msgs \ {m} : pc'[n] = pc[n] /\ pc'[m] = "done"
        /\ \A o \in Keys \ {k} : running'[o] = running[o] /\ armed'[o] = armed[o]
        /\ ~running'[k] /\ ~armed'[k] /\ UNCHANGED <<orphans, callbacks>>
    BY <1>8, <2>1, <2>2, <2>4 DEF ReleaseIdle, Drain, Text, TypeOK
  <2>6. ActiveBatches(k)' = {}
    <3>1. pc'[m] = "done"
      BY <1>8, <2>2 DEF ReleaseIdle, Drain, Text, TypeOK
    <3> QED BY <2>4, <2>5, <3>1 DEF ActiveBatches, Text
  <2>7. \A o \in Keys \ {k} : ActiveBatches(o)' = ActiveBatches(o)
    BY <2>1, <2>5 DEF ActiveBatches, Text
  <2>8. Orderly(k)'
    BY <2>4, <2>5, <2>6 DEF Orderly
  <2> QED BY <2>5, <2>7, <2>8, SameTopic DEF AllOrderly
<1>9. ASSUME NEW m \in Msgs, ReleaseNext(m) PROVE AllOrderly'
  <2>1. PICK k \in Keys : k = KeyOf[m]
    BY KeyOfAssumption
  <2>2. PICK last \in Msgs : last = LastOf(msgs[k]) /\ last \in Buffered(k)
    BY <1>9, <2>1, LastIsBuffered DEF ReleaseNext
  <2>3. /\ pc[m] = "release" /\ m \in Text /\ pc[last] = "none" /\ last \in Text /\ KeyOf[last] = k
        /\ pc' = [pc EXCEPT ![m] = "done", ![last] = "register"]
        /\ UNCHANGED <<running, armed, orphans, callbacks>>
    BY <1>9, <2>1, <2>2 DEF ReleaseNext, OnlyTextReleases, Placement, BufferOK
  <2>4. /\ pc'[m] = "done" /\ pc'[last] = "register"
        /\ \A n \in Msgs \ {m, last} : pc'[n] = pc[n]
    BY <2>3 DEF TypeOK
  <2>5. ActiveBatches(k) = {m} /\ running[k]
    BY <1>9, <2>1, <2>3 DEF AllOrderly, Orderly, ActiveBatches
  <2>6. ActiveBatches(k)' = {last}
    BY <2>3, <2>4, <2>5 DEF ActiveBatches, Text
  <2>7. \A o \in Keys \ {k} : ActiveBatches(o)' = ActiveBatches(o)
    BY <2>1, <2>3, <2>4 DEF ActiveBatches, Text
  <2>8. Orderly(k)'
    BY <2>3, <2>5, <2>6 DEF AllOrderly, Orderly
  <2> QED BY <2>3, <2>7, <2>8, SameTopic DEF AllOrderly
<1>10. ASSUME NEW m \in Msgs, React(m) \/ CallCancel(m) PROVE AllOrderly'
  BY <1>10, <1>1 DEF React, CallCancel, bufferVars, jobVars
<1>11. ASSUME NEW k \in Keys, RunnerStep(k) PROVE AllOrderly'
  BY <1>11, <1>1 DEF RunnerStep, RunnerAnswers, bufferVars, jobVars
<1>12. CASE UNCHANGED vars
  BY <1>12, <1>1 DEF vars, bufferVars, jobVars
<1> QED
  BY <1>2, <1>3, <1>4, <1>5, <1>6, <1>7, <1>8, <1>9, <1>10, <1>11, <1>12
  DEF Next, JobStep, TimerStep

(* "If a job is running, the message waits; runBatch will pick it up when done"
   (submitOrQueue): at most one batch of a topic is under way as long as no
   message comes between the firing of a timer and its callback, and no /bg job
   is cancelled.  The run topic_overlap shows the first of these two ways; there
   is no third. *)
THEOREM OneBatchIfCalm == Spec /\ []Calm => []OneBatchPerTopic
<1>1. Init => AllOrderly /\ OnlyTextReleases
  <2> SUFFICES ASSUME Init PROVE AllOrderly /\ OnlyTextReleases
    OBVIOUS
  <2>1. \A m \in Msgs : pc[m] = "none"
    BY DEF Init
  <2>2. \A k \in Keys : ActiveBatches(k) = {}
    BY <2>1 DEF ActiveBatches, Text, Idle
  <2>3. AllOrderly
    BY <2>2 DEF Init, AllOrderly, Orderly
  <2> QED BY <2>1, <2>3 DEF OnlyTextReleases
<1>2. TypeOK /\ TypeOK' /\ Placement /\ OnlyTextReleases /\ [Next]_vars => OnlyTextReleases'
  BY OnlyTextReleasesStep
<1>3. /\ TypeOK /\ TypeOK' /\ Placement /\ OnlyTextReleases /\ AllOrderly
      /\ Calm /\ Calm' /\ [Next]_vars
      => AllOrderly'
  BY OrderlyStep
<1>4. AllOrderly => OneBatchPerTopic
  <2> SUFFICES ASSUME AllOrderly, NEW k \in Keys PROVE Cardinality(ActiveBatches(k)) <= 1
    BY DEF OneBatchPerTopic
  <2>1. ActiveBatches(k) = {} \/ \E m : ActiveBatches(k) = {m}
    BY DEF AllOrderly, Orderly
  <2>2. CASE ActiveBatches(k) = {}
    BY <2>2, FS_EmptySet
  <2>3. ASSUME NEW m, ActiveBatches(k) = {m} PROVE Cardinality(ActiveBatches(k)) <= 1
    <3>1. Cardinality({m}) = 1
      BY FS_Singleton
    <3> QED BY <2>3, <3>1
  <2> QED BY <2>1, <2>2, <2>3
<1> QED BY <1>1, <1>2, <1>3, <1>4, PlacementInvariant, PTL DEF Spec

-----------------------------------------------------------------------------
(* Every accepted job has its dispatchJob at the other end of resultCh     *)

Lines == INSTANCE JobService_proofs WITH Jobs <- Msgs

(* A job is new to the runner until its dispatchJob hands it over, and then
   accepted for as long as that waits for it. *)
Awaited(m) ==
    /\ pc[m] \in {"none", "register", "submit"} <=> outcome[m] = "new"
    /\ outcome[m] = "accepted" => pc[m] = "waiting"
    /\ outcome[m] # "lost"

AllAwaited == \A m \in Msgs : Awaited(m)

LEMMA AwaitedStep ==
    ASSUME TypeOK, Placement, OnlyTextReleases, Runner!LinesAreExact, AllAwaited, [Next]_vars
    PROVE  AllAwaited'
<1> USE DEF Runner!TypeOK
<1>1. \A n \in Msgs : pc'[n] # pc[n] => <<pc[n], pc'[n]>> \in Onward(n)
  BY JobMoves
<1>2. ASSUME UNCHANGED outcome,
             \A n \in Msgs : ~(pc[n] = "submit" /\ pc'[n] # pc[n]),
             \A n \in Msgs : pc[n] = "waiting" /\ pc'[n] # pc[n] => outcome[n] # "accepted"
      PROVE  AllAwaited'
  BY <1>1, <1>2 DEF AllAwaited, Awaited, Onward
<1>3. ASSUME NEW m \in Msgs, Submit(m) PROVE AllAwaited'
  <2>1. /\ pc[m] = "submit" /\ pc'[m] = "waiting" /\ \A n \in Msgs \ {m} : pc'[n] = pc[n]
        /\ outcome'[m] \in {"accepted", "refused"}
        /\ \A n \in Msgs \ {m} : outcome'[n] = outcome[n]
    BY <1>3 DEF Submit, Runner!Accept, Runner!Refuse, TypeOK
  <2> QED BY <2>1 DEF AllAwaited, Awaited
<1>4. ASSUME NEW k \in Keys, RunnerStep(k) PROVE AllAwaited'
  <2>1. PICK answer \in Runner!Answers : Runner!Resolve(k, answer) /\ UNCHANGED pc
    BY <1>4 DEF RunnerStep, RunnerAnswers, jobVars
  <2>2. pending[k] \in Seq(Msgs) /\ pending[k] # <<>>
    BY <2>1 DEF Runner!Resolve, TypeOK
  <2>3. Head(pending[k]) \in Msgs /\ outcome[Head(pending[k])] = "accepted"
    <3>1. 1 \in 1 .. Len(pending[k]) /\ Head(pending[k]) = pending[k][1]
      BY <2>2
    <3> QED BY <2>2, <3>1 DEF Runner!LinesAreExact
  <2>4. /\ outcome'[Head(pending[k])] = answer
        /\ \A n \in Msgs \ {Head(pending[k])} : outcome'[n] = outcome[n]
    BY <2>1, <2>3 DEF Runner!Resolve, TypeOK
  <2> QED BY <2>1, <2>3, <2>4 DEF AllAwaited, Awaited, Runner!Answers
<1>5. ASSUME UNCHANGED <<pc, outcome>> PROVE AllAwaited'
  BY <1>5 DEF AllAwaited, Awaited
<1>6. ASSUME NEW m \in Msgs, QueueText(m) \/ DebounceText(m) \/ React(m) \/ CallCancel(m)
      PROVE  AllAwaited'
  BY <1>6, <1>5 DEF QueueText, DebounceText, React, CallCancel, jobVars, runnerVars
<1>7. ASSUME NEW m \in Msgs, UNCHANGED outcome, \A n \in Msgs \ {m} : pc'[n] = pc[n] \/ pc[n] = "none",
             pc[m] \notin {"submit", "waiting"} \/ Receive(m)
      PROVE  AllAwaited'
  BY <1>2, <1>7 DEF Receive
<1>8. ASSUME NEW m \in Msgs, Bg(m) \/ (JobStep(m) /\ ~Submit(m)) PROVE AllAwaited'
  <2>1. UNCHANGED outcome
    BY <1>8 DEF Bg, JobStep, Register, Receive, CheckCancelled, CheckAlive, CheckBackground, Cleanup,
                Reply, ReleaseIdle, ReleaseNext, Drain, runnerVars
  <2>2. pc[m] \notin {"submit", "waiting"} \/ Receive(m)
    BY <1>8 DEF Bg, JobStep, Register, CheckCancelled, CheckAlive, CheckBackground, Cleanup,
                Reply, ReleaseIdle, ReleaseNext, Drain, Placement, BatchOK
  <2>3. \A n \in Msgs \ {m} : pc'[n] = pc[n] \/ pc[n] = "none"
    <3>1. CASE ReleaseNext(m)
      <4>1. PICK k \in Keys : k = KeyOf[m]
        BY KeyOfAssumption
      <4>2. PICK last \in Msgs : last = LastOf(msgs[k]) /\ last \in Buffered(k)
        BY <3>1, <4>1, LastIsBuffered DEF ReleaseNext
      <4>3. pc[last] = "none" /\ pc' = [pc EXCEPT ![m] = "done", ![last] = "register"]
        BY <3>1, <4>1, <4>2 DEF ReleaseNext, Placement, BufferOK
      <4> QED BY <4>3 DEF TypeOK
    <3>2. CASE ~ReleaseNext(m)
      BY <1>8, <3>2 DEF Bg, JobStep, Register, Receive, CheckCancelled, CheckAlive,
                        CheckBackground, Cleanup, Reply, ReleaseIdle, Drain, TypeOK
    <3> QED BY <3>1, <3>2
  <2> QED BY <2>1, <2>2, <2>3, <1>7
<1>9. ASSUME NEW k \in Keys, TimerStep(k) PROVE AllAwaited'
  <2>1. CASE CallbackRun(k)
    <3>1. PICK last \in Msgs : last = LastOf(msgs[k]) /\ last \in Buffered(k)
      BY <2>1, LastIsBuffered DEF CallbackRun
    <3>2. pc[last] = "none" /\ pc' = [pc EXCEPT ![last] = "register"] /\ UNCHANGED outcome
      BY <2>1, <3>1 DEF CallbackRun, Placement, BufferOK, runnerVars
    <3> QED BY <3>1, <3>2, <1>2 DEF TypeOK
  <2>2. CASE Fire(k) \/ FireOrphan(k) \/ CallbackEmpty(k)
    BY <2>2, <1>5 DEF Fire, FireOrphan, CallbackEmpty, jobVars, runnerVars
  <2> QED BY <1>9, <2>1, <2>2 DEF TimerStep
<1>10. CASE UNCHANGED vars
  BY <1>10, <1>5 DEF vars, jobVars, runnerVars
<1> QED BY <1>3, <1>4, <1>6, <1>8, <1>9, <1>10 DEF Next

(* Every job is handed to the runner once, and every result finds the dispatchJob
   that made the job at the other end of its channel: none is answered into the
   void, although runner and dispatcher only share that channel. *)
THEOREM ResultsAreAwaited == Spec => []AllAwaited
<1>1. Init => OnlyTextReleases /\ AllAwaited
  BY DEF Init, OnlyTextReleases, AllAwaited, Awaited, Runner!Init
<1>2. TypeOK /\ TypeOK' /\ Placement /\ OnlyTextReleases /\ [Next]_vars => OnlyTextReleases'
  BY OnlyTextReleasesStep
<1>3. /\ TypeOK /\ Placement /\ OnlyTextReleases /\ Runner!LinesAreExact
      /\ AllAwaited /\ [Next]_vars
      => AllAwaited'
  BY AwaitedStep
<1>4. /\ TypeOK /\ Runner!LinesAreExact /\ [Runner!Next]_(Runner!vars)
      => Runner!LinesAreExact'
  <2> SUFFICES ASSUME TypeOK, Runner!LinesAreExact, [Runner!Next]_(Runner!vars)
               PROVE  Runner!LinesAreExact'
    OBVIOUS
  <2>1. Lines!TypeOK /\ Lines!LinesAreExact /\ [Lines!Next]_(Lines!vars)
    BY DEF TypeOK, Runner!TypeOK, Runner!LinesAreExact, Runner!Next, Runner!vars, Runner!Accept,
           Runner!Refuse, Runner!Resolve, Runner!Forget, Runner!Outcomes, Runner!Answers,
           Lines!TypeOK, Lines!LinesAreExact, Lines!Next, Lines!vars, Lines!Accept,
           Lines!Refuse, Lines!Resolve, Lines!Forget, Lines!Outcomes, Lines!Answers
  <2>2. CASE Lines!Next
    BY <2>1, <2>2, KeyOfAssumption, Lines!LinesStep DEF Runner!LinesAreExact, Lines!LinesAreExact
  <2>3. CASE UNCHANGED Lines!vars
    BY <2>1, <2>3 DEF Runner!LinesAreExact, Lines!LinesAreExact, Lines!vars
  <2> QED BY <2>1, <2>2, <2>3
<1>5. Runner!Init => Runner!LinesAreExact
  BY DEF Runner!Init, Runner!LinesAreExact
<1> QED BY <1>1, <1>2, <1>3, <1>4, <1>5, UsesJobService, PlacementInvariant, PTL
        DEF Spec, Runner!Spec
===============================================================================

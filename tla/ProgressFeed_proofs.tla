------------------------- MODULE ProgressFeed_proofs -------------------------
(***************************************************************************)
(* Proofs about ProgressFeed: its types, and that the goroutine of a job   *)
(* ends only with every reported event taken in and the last text sent,    *)
(* that no text of the message is forgotten while it runs, that tailers    *)
(* and forwarders start and end with their agents, and that the loop has a *)
(* bounded way to its end, for every number of tools and agents and every  *)
(* capacity of the channels.                                               *)
(***************************************************************************)
EXTENDS ProgressFeed, TLAPS

(* What the loop knows when it has left its select: the channel is closed and
   empty, and the last text has been sent. *)
LeftWithAll ==
    loop # "open" => closed /\ events = <<>> /\ shown = current

(* The newest event of a tool call in the channel says what the reader has
   reported last; without one the loop knows it already. *)
NewestIsReported ==
    /\ \A i \in 1 .. Len(events) :
          (\A j \in 1 .. Len(events) : j > i => events[j].tool # events[i].tool)
             => events[i].what = reported[events[i].tool]
    /\ \A t \in Tools :
          (\A i \in 1 .. Len(events) : events[i].tool # t) => seen[t] = reported[t]

ReaderSteps == (\E t \in Tools, what \in Progress : Report(t, what)) \/ EndStream \/ Cancel
FlushSteps  == TwoSecondsPass \/ FireFlush \/ (\E v \in Texts : SendFlush(v))
TailSteps   == \E a \in Agents :
                  TailLine(a) \/ TailGivesUp(a) \/ TailNoticesEnd(a) \/ Forward(a)

LEMMA NextCases == Next <=> ReaderSteps \/ FlushSteps \/ LoopStep \/ TailSteps
BY DEF Next, ReaderSteps, FlushSteps, TailSteps

-----------------------------------------------------------------------------
(* Types *)

LEMMA InitType == Init => TypeOK
<1>1. \A S : <<>> \in Seq(S) /\ Len(<<>>) = 0
  OBVIOUS
<1>2. 0 <= EventCap /\ 0 <= TextCap
  BY CapAssumption
<1>3. SUFFICES ASSUME Init PROVE TypeOK
  OBVIOUS
<1>4. /\ events \in Seq([tool : Tools, what : {"started", "completed"}])
      /\ Len(events) <= EventCap
      /\ texts \in Seq([flush : BOOLEAN, text : Texts])
      /\ Len(texts) <= TextCap
  BY <1>1, <1>2, <1>3 DEF Init
<1>5. /\ flushes \in [Texts -> Nat]
      /\ lines \in [Agents -> Nat] /\ tailed \in [Agents -> Nat]
  BY <1>3 DEF Init
<1>6. /\ reported \in [Tools -> Progress] /\ seen \in [Tools -> Progress]
      /\ tailer \in [Agents -> {"none", "running", "stopping", "closed"}]
      /\ forwarder \in [Agents -> {"none", "idle", "holding", "ended"}]
  BY <1>3 DEF Init, Progress
<1> QED BY <1>3, <1>4, <1>5, <1>6, TextsAssumption DEF Init, TypeOK

LEMMA HeadAndTail ==
    ASSUME NEW S, NEW s \in Seq(S), s # <<>>
    PROVE  /\ Head(s) \in S
           /\ Tail(s) \in Seq(S)
           /\ Head(s) = s[1]
           /\ Len(s) \in Nat \ {0}
           /\ Len(Tail(s)) = Len(s) - 1
           /\ \A i \in 1 .. Len(Tail(s)) : Tail(s)[i] = s[i + 1]
OBVIOUS

LEMMA AppendIs ==
    ASSUME NEW S, NEW s \in Seq(S), NEW e \in S
    PROVE  /\ Len(Append(s, e)) = Len(s) + 1
           /\ Append(s, e)[Len(s) + 1] = e
           /\ \A i \in 1 .. Len(s) : Append(s, e)[i] = s[i] /\ s[i] \in S
OBVIOUS

LEMMA ReaderType == ASSUME TypeOK, ReaderSteps PROVE TypeOK'
<1>1. ASSUME NEW t \in Tools, NEW what \in Progress, Report(t, what) PROVE TypeOK'
  <2>1. [tool |-> t, what |-> what] \in [tool : Tools, what : {"started", "completed"}]
    BY <1>1 DEF Report, Progress
  <2>2. /\ events' \in Seq([tool : Tools, what : {"started", "completed"}])
        /\ Len(events') <= EventCap
    BY <1>1, <2>1, CapAssumption DEF Report, TypeOK
  <2> QED BY <1>1, <2>2 DEF Report, TypeOK, loopVars, editVars, tailVars
<1>2. CASE EndStream
  BY <1>2 DEF EndStream, TypeOK, loopVars, editVars, tailVars
<1>3. CASE Cancel
  BY <1>3 DEF Cancel, Stopped, TypeOK, readerVars, loopVars, editVars
<1> QED BY <1>1, <1>2, <1>3 DEF ReaderSteps

LEMMA FlushType == ASSUME TypeOK, FlushSteps PROVE TypeOK'
<1>1. CASE TwoSecondsPass
  BY <1>1 DEF TwoSecondsPass, TypeOK, readerVars, loopVars, tailVars
<1>2. CASE FireFlush
  BY <1>2, TextsAssumption DEF FireFlush, TypeOK, readerVars, loopVars, tailVars
<1>3. ASSUME NEW v \in Texts, SendFlush(v) PROVE TypeOK'
  <2>1. Flush(v) \in [flush : BOOLEAN, text : Texts]
    BY DEF Flush
  <2>2. texts' \in Seq([flush : BOOLEAN, text : Texts]) /\ Len(texts') <= TextCap
    BY <1>3, <2>1, CapAssumption DEF SendFlush, TypeOK
  <2>3. flushes' \in [Texts -> Nat]
    BY <1>3 DEF SendFlush, TypeOK
  <2> QED BY <1>3, <2>2, <2>3 DEF SendFlush, TypeOK, readerVars, loopVars, editVars, tailVars
<1> QED BY <1>1, <1>2, <1>3 DEF FlushSteps

EditOK == /\ shown \in Texts /\ recent \in BOOLEAN /\ ripe \in BOOLEAN
          /\ outdated \in BOOLEAN /\ timer \in Texts \cup {NoText}

LEMMA EditType ==
    ASSUME EditOK, NEW v \in Texts, Edit(v) \/ Throttled(v)
    PROVE  EditOK'
BY DEF EditOK, Edit, Throttled, editVars

LEMMA LoopType == ASSUME TypeOK, LoopStep PROVE TypeOK'
<1> USE DEF TypeOK
<1>1. CASE TakeEvent
  <2> DEFINE Event == [tool : Tools, what : {"started", "completed"}]
  <2>1. /\ Head(events) \in Event /\ Tail(events) \in Seq(Event)
        /\ Len(Tail(events)) <= EventCap
    <3>1. events \in Seq(Event) /\ events # <<>> /\ Len(events) <= EventCap
      BY <1>1 DEF TakeEvent
    <3>2. /\ Head(events) \in Event /\ Tail(events) \in Seq(Event)
          /\ Len(events) \in Nat /\ Len(Tail(events)) = Len(events) - 1
      BY <3>1, HeadAndTail
    <3> QED BY <3>1, <3>2, CapAssumption
  <2>2. Head(events).tool \in Tools /\ Head(events).what \in {"started", "completed"}
    BY <2>1
  <2>3. seen' \in [Tools -> Progress] /\ events' \in Seq(Event) /\ Len(events') <= EventCap
    BY <1>1, <2>1, <2>2 DEF TakeEvent, Progress
  <2>4. /\ tailer' \in [Agents -> {"none", "running", "stopping", "closed"}]
        /\ forwarder' \in [Agents -> {"none", "idle", "holding", "ended"}]
    BY <1>1 DEF TakeEvent, Stopped
  <2>5. current' \in Texts
    BY <1>1 DEF TakeEvent, NewText
  <2>6. EditOK'
    BY <1>1, <2>5, EditType DEF TakeEvent, EditOK
  <2> QED BY <1>1, <2>3, <2>4, <2>5, <2>6 DEF TakeEvent, EditOK, readerVars
<1>2. CASE TakeText
  <2> DEFINE T == [flush : BOOLEAN, text : Texts]
  <2>1. Head(texts) \in T /\ Tail(texts) \in Seq(T) /\ Len(Tail(texts)) <= TextCap
    <3>1. texts \in Seq(T) /\ texts # <<>> /\ Len(texts) <= TextCap
      BY <1>2 DEF TakeText
    <3>2. /\ Head(texts) \in T /\ Tail(texts) \in Seq(T)
          /\ Len(texts) \in Nat /\ Len(Tail(texts)) = Len(texts) - 1
      BY <3>1, HeadAndTail
    <3> QED BY <3>1, <3>2, CapAssumption
  <2>2. current' \in Texts
    BY <1>2 DEF TakeText, NewText
  <2>3. EditOK'
    BY <1>2, <2>1, <2>2, EditType DEF TakeText, EditOK
  <2> QED BY <1>2, <2>1, <2>2, <2>3 DEF TakeText, EditOK, readerVars, tailVars
<1>3. CASE TakeClose
  <2>1. EditOK'
    BY <1>3, EditType DEF TakeClose, EditOK
  <2> QED BY <1>3, <2>1 DEF TakeClose, EditOK, readerVars, tailVars
<1>4. CASE End
  BY <1>4 DEF End, Stopped, readerVars
<1> QED BY <1>1, <1>2, <1>3, <1>4 DEF LoopStep

LEMMA TailType == ASSUME TypeOK, TailSteps PROVE TypeOK'
<1> SUFFICES ASSUME NEW a \in Agents,
                    TailLine(a) \/ TailGivesUp(a) \/ TailNoticesEnd(a) \/ Forward(a)
             PROVE  TypeOK'
  BY DEF TailSteps
<1>1. CASE TailLine(a)
  <2>1. \A lost \in Lost(a) : tailed[a] + 1 - lost \in Nat
    BY CapAssumption DEF Lost, TypeOK
  <2> QED BY <1>1, <2>1 DEF TailLine, TypeOK, readerVars, loopVars, editVars
<1>2. CASE TailGivesUp(a) \/ TailNoticesEnd(a)
  BY <1>2 DEF TailGivesUp, TailNoticesEnd, TailCloses, TypeOK, readerVars, loopVars, editVars
<1>3. CASE Forward(a)
  <2>1. Line \in [flush : BOOLEAN, text : Texts]
    BY TextsAssumption DEF Line
  <2>2. texts' \in Seq([flush : BOOLEAN, text : Texts]) /\ Len(texts') <= TextCap
    <3>1. texts' = texts \/ (texts' = Append(texts, Line) /\ Len(texts) < TextCap)
      BY <1>3 DEF Forward
    <3>2. CASE texts' = texts
      BY <3>2 DEF TypeOK
    <3>3. CASE texts' = Append(texts, Line) /\ Len(texts) < TextCap
      BY <3>3, <2>1, CapAssumption DEF TypeOK
    <3> QED BY <3>1, <3>2, <3>3
  <2>3. /\ forwarder' \in [Agents -> {"none", "idle", "holding", "ended"}]
        /\ tailed' \in [Agents -> Nat]
    <3>1. forwarder \in [Agents -> {"none", "idle", "holding", "ended"}]
          /\ tailed \in [Agents -> Nat]
      BY DEF TypeOK
    <3>2. \/ /\ forwarder' = [forwarder EXCEPT ![a] = "holding"]
             /\ tailed' = [tailed EXCEPT ![a] = @ - 1] /\ tailed[a] > 0
          \/ forwarder' = [forwarder EXCEPT ![a] = "idle"] /\ tailed' = tailed
          \/ forwarder' = [forwarder EXCEPT ![a] = "ended"] /\ tailed' = tailed
      BY <1>3 DEF Forward
    <3>3. tailed[a] > 0 => tailed[a] - 1 \in Nat
      BY <3>1
    <3> QED BY <3>1, <3>2, <3>3
  <2> QED BY <1>3, <2>2, <2>3 DEF Forward, TypeOK, readerVars, loopVars, editVars
<1> QED BY <1>1, <1>2, <1>3

LEMMA NextType == ASSUME TypeOK, [Next]_vars PROVE TypeOK'
<1>1. CASE UNCHANGED vars
  BY <1>1 DEF vars, TypeOK, readerVars, loopVars, editVars, tailVars
<1> QED BY <1>1, NextCases, ReaderType, FlushType, LoopType, TailType

(* The state variables keep their types. *)
THEOREM TypeCorrect == Spec => []TypeOK
BY InitType, NextType, PTL DEF Spec

-----------------------------------------------------------------------------
(* The loop leaves its select with everything done *)

LEMMA NextLeft ==
    ASSUME TypeOK, LeftWithAll, [Next]_vars
    PROVE  LeftWithAll'
<1> USE DEF LeftWithAll
<1>1. CASE UNCHANGED vars
  BY <1>1 DEF vars, readerVars, loopVars, editVars
<1>2. CASE ReaderSteps
  <2>1. ASSUME NEW t \in Tools, NEW what \in Progress, Report(t, what) PROVE LeftWithAll'
    BY <2>1 DEF Report, loopVars
  <2>2. CASE EndStream
    BY <2>2 DEF EndStream, loopVars, editVars
  <2>3. CASE Cancel
    BY <2>3 DEF Cancel, readerVars, loopVars, editVars
  <2> QED BY <1>2, <2>1, <2>2, <2>3 DEF ReaderSteps
<1>3. CASE FlushSteps
  BY <1>3 DEF FlushSteps, TwoSecondsPass, FireFlush, SendFlush, readerVars, loopVars, editVars
<1>4. CASE TakeEvent \/ TakeText
  BY <1>4 DEF TakeEvent, TakeText
<1>5. CASE TakeClose
  BY <1>5 DEF TakeClose, Edit, editVars, readerVars
<1>6. CASE End
  BY <1>6 DEF End, readerVars
<1>7. CASE TailSteps
  BY <1>7 DEF TailSteps, TailLine, TailGivesUp, TailNoticesEnd, TailCloses, Forward,
              readerVars, loopVars, editVars
<1> QED BY <1>1, <1>2, <1>3, <1>4, <1>5, <1>6, <1>7, NextCases DEF LoopStep

(* Only Report and TakeEvent touch the channel of events. *)
LEMMA EventsMoveBy ==
    ASSUME [Next]_vars
    PROVE  \/ UNCHANGED <<events, seen, reported>>
           \/ \E t \in Tools, what \in Progress : Report(t, what)
           \/ TakeEvent
<1>1. CASE UNCHANGED vars
  BY <1>1 DEF vars, readerVars, loopVars
<1>2. CASE EndStream \/ Cancel \/ FlushSteps
  BY <1>2 DEF EndStream, Cancel, FlushSteps, TwoSecondsPass, FireFlush, SendFlush,
              readerVars, loopVars
<1>3. CASE TakeText \/ TakeClose \/ End
  BY <1>3 DEF TakeText, TakeClose, End, readerVars
<1>4. CASE TailSteps
  BY <1>4 DEF TailSteps, TailLine, TailGivesUp, TailNoticesEnd, TailCloses, Forward,
              readerVars, loopVars
<1> QED BY <1>1, <1>2, <1>3, <1>4, NextCases DEF ReaderSteps, LoopStep

LEMMA ReportNewest ==
    ASSUME TypeOK, NewestIsReported, NEW t \in Tools, NEW what \in Progress, Report(t, what)
    PROVE  NewestIsReported'
<1> DEFINE Event == [tool : Tools, what : {"started", "completed"}]
           e == [tool |-> t, what |-> what]
           n == Len(events)
<1>1. /\ events \in Seq(Event) /\ n \in Nat
      /\ events' = Append(events, e) /\ reported' = [reported EXCEPT ![t] = what]
      /\ seen' = seen /\ reported \in [Tools -> Progress]
  BY DEF Report, TypeOK, loopVars
<1>2. e \in Event
  BY DEF Report, Progress
<1>3. /\ Len(events') = n + 1 /\ events'[n + 1] = e
      /\ \A i \in 1 .. n : events'[i] = events[i] /\ events[i] \in Event
  <2> HIDE DEF e, Event
  <2> QED BY <1>1, <1>2, AppendIs
<1>4. reported'[t] = what /\ \A u \in Tools : u # t => reported'[u] = reported[u]
  BY <1>1
<1>5. ASSUME NEW i \in 1 .. Len(events'),
             \A j \in 1 .. Len(events') : j > i => events'[j].tool # events'[i].tool
      PROVE  events'[i].what = reported'[events'[i].tool]
  <2>1. CASE i = n + 1
    BY <2>1, <1>3, <1>4
  <2>2. CASE i # n + 1
    <3>1. i \in 1 .. n /\ n + 1 \in 1 .. Len(events') /\ n + 1 > i
      BY <2>2, <1>1, <1>3
    <3>2. events[i].tool # t /\ events[i].tool \in Tools
      BY <1>3, <1>5, <3>1
    <3>3. \A j \in 1 .. n : j > i => events[j].tool # events[i].tool
      BY <1>1, <1>3, <1>5, <3>1
    <3>4. events[i].what = reported[events[i].tool]
      BY <3>1, <3>3 DEF NewestIsReported
    <3> QED BY <3>1, <3>2, <3>4, <1>3, <1>4
  <2> QED BY <2>1, <2>2
<1>6. ASSUME NEW u \in Tools, \A i \in 1 .. Len(events') : events'[i].tool # u
      PROVE  seen'[u] = reported'[u]
  <2>1. u # t
    BY <1>1, <1>3, <1>6
  <2>2. \A i \in 1 .. n : events[i].tool # u
    BY <1>1, <1>3, <1>6
  <2> QED BY <2>1, <2>2, <1>1, <1>4 DEF NewestIsReported
<1> QED BY <1>5, <1>6 DEF NewestIsReported

LEMMA TakeNewest ==
    ASSUME TypeOK, NewestIsReported, TakeEvent
    PROVE  NewestIsReported'
<1> DEFINE Event == [tool : Tools, what : {"started", "completed"}]
           t == Head(events).tool
           n == Len(events)
<1>1. /\ events \in Seq(Event) /\ events # <<>> /\ events' = Tail(events)
      /\ seen' = [seen EXCEPT ![t] = Head(events).what] /\ reported' = reported
      /\ seen \in [Tools -> Progress]
  BY DEF TakeEvent, TypeOK, readerVars
<1>2. /\ Head(events) \in Event /\ Head(events) = events[1] /\ n \in Nat \ {0}
      /\ Len(events') = n - 1
      /\ \A i \in 1 .. n - 1 : events'[i] = events[i + 1]
  BY <1>1, HeadAndTail
<1>3. t \in Tools
  BY <1>2
<1>4. ASSUME NEW i \in 1 .. Len(events'),
             \A j \in 1 .. Len(events') : j > i => events'[j].tool # events'[i].tool
      PROVE  events'[i].what = reported'[events'[i].tool]
  <2>1. i + 1 \in 1 .. n /\ events'[i] = events[i + 1]
    BY <1>2
  <2>2. ASSUME NEW j \in 1 .. n, j > i + 1 PROVE events[j].tool # events[i + 1].tool
    <3>1. j - 1 \in 1 .. Len(events') /\ j - 1 > i /\ events'[j - 1] = events[j]
      <4>1. j - 1 \in 1 .. n - 1 /\ j - 1 > i /\ (j - 1) + 1 = j
        BY <2>2, <1>2
      <4> QED BY <4>1, <1>2
    <3> QED BY <3>1, <2>1, <1>4
  <2>3. events[i + 1].what = reported[events[i + 1].tool]
    BY <2>1, <2>2 DEF NewestIsReported
  <2> QED BY <2>1, <2>3, <1>1
<1>5. ASSUME NEW u \in Tools, \A i \in 1 .. Len(events') : events'[i].tool # u
      PROVE  seen'[u] = reported'[u]
  <2>1. ASSUME NEW j \in 1 .. n, j > 1 PROVE events[j].tool # u
    <3>1. j - 1 \in 1 .. n - 1 /\ (j - 1) + 1 = j
      BY <2>1, <1>2
    <3> QED BY <3>1, <1>2, <1>5
  <2>2. CASE u = t
    <3>1. 1 \in 1 .. n /\ \A j \in 1 .. n : j > 1 => events[j].tool # events[1].tool
      BY <2>1, <2>2, <1>2
    <3>2. events[1].what = reported[events[1].tool]
      BY <3>1 DEF NewestIsReported
    <3> QED BY <3>2, <2>2, <1>1, <1>2, <1>3
  <2>3. CASE u # t
    <3>1. \A j \in 1 .. n : events[j].tool # u
      BY <2>1, <2>3, <1>2
    <3>2. seen[u] = reported[u]
      BY <3>1 DEF NewestIsReported
    <3> QED BY <3>2, <2>3, <1>1, <1>3
  <2> QED BY <2>2, <2>3
<1> QED BY <1>4, <1>5 DEF NewestIsReported

LEMMA NextNewest ==
    ASSUME TypeOK, NewestIsReported, [Next]_vars
    PROVE  NewestIsReported'
<1>1. CASE UNCHANGED <<events, seen, reported>>
  BY <1>1 DEF NewestIsReported
<1> QED BY <1>1, EventsMoveBy, ReportNewest, TakeNewest

(* "Wait for all agent events to be processed" holds of every job. *)
THEOREM AllEventsAreSeen == Spec => []AllEventsSeen
<1>1. Init => LeftWithAll /\ NewestIsReported
  BY DEF Init, LeftWithAll, NewestIsReported
<1>2. TypeOK /\ LeftWithAll /\ NewestIsReported => AllEventsSeen
  <2> SUFFICES ASSUME TypeOK, LeftWithAll, NewestIsReported, loop = "ended"
               PROVE  seen = reported
    BY DEF AllEventsSeen
  <2>1. \A i \in 1 .. Len(events) : FALSE
    BY DEF LeftWithAll
  <2>2. \A t \in Tools : seen[t] = reported[t]
    BY <2>1 DEF NewestIsReported
  <2> QED BY <2>2 DEF TypeOK
<1> QED BY <1>1, <1>2, InitType, NextType, NextLeft, NextNewest, PTL DEF Spec

(* Whatever flush was armed, fired or waiting, the final text is sent last. *)
THEOREM FinalTextIsShown == Spec => []FinalTextShown
<1>1. Init => LeftWithAll
  BY DEF Init, LeftWithAll
<1>2. LeftWithAll => FinalTextShown
  BY DEF LeftWithAll, FinalTextShown
<1> QED BY <1>1, <1>2, InitType, NextType, NextLeft, PTL DEF Spec

-----------------------------------------------------------------------------
(* No text is forgotten while the loop runs *)

(* A text stays on its way as long as neither the timer nor the channel nor the
   fired flushes lose it. *)
LEMMA StaysOnItsWay ==
    ASSUME TypeOK, NEW v \in Texts, OnItsWay(v),
           timer' = timer, flushes' = flushes,
           texts' = texts \/ \E e \in [flush : BOOLEAN, text : Texts] : texts' = Append(texts, e)
    PROVE  OnItsWay(v)'
<1>1. CASE timer = v \/ flushes[v] > 0
  BY <1>1 DEF OnItsWay
<1>2. CASE texts' = texts
  BY <1>2 DEF OnItsWay
<1>3. ASSUME NEW i \in 1 .. Len(texts), texts[i] = Flush(v),
             NEW e \in [flush : BOOLEAN, text : Texts], texts' = Append(texts, e)
      PROVE  OnItsWay(v)'
  <2>1. i \in 1 .. Len(texts') /\ texts'[i] = Flush(v)
    BY <1>3, AppendIs DEF TypeOK
  <2> QED BY <2>1 DEF OnItsWay, Flush
<1> QED BY <1>1, <1>2, <1>3 DEF OnItsWay

LEMMA NextStuck ==
    ASSUME TypeOK, NoTextGetsStuck, [Next]_vars
    PROVE  NoTextGetsStuck'
<1> DEFINE T == [flush : BOOLEAN, text : Texts]
<1> SUFFICES ASSUME loop' = "open", shown' # current', ~outdated'
             PROVE  OnItsWay(current)'
  BY DEF NoTextGetsStuck, OnItsWay
<1>1. ASSUME UNCHANGED <<loop, shown, current, outdated, timer, flushes>>,
             texts' = texts \/ \E e \in T : texts' = Append(texts, e)
      PROVE  OnItsWay(current)'
  <2>1. OnItsWay(current) /\ current \in Texts
    BY <1>1 DEF NoTextGetsStuck, TypeOK
  <2>2. OnItsWay(current)'
    BY <1>1, <2>1, StaysOnItsWay
  <2> QED BY <2>2
<1>2. CASE UNCHANGED vars \/ ReaderSteps \/ TwoSecondsPass
  <2>1. UNCHANGED <<loop, shown, current, outdated, timer, flushes, texts>>
    BY <1>2 DEF vars, ReaderSteps, Report, EndStream, Cancel, TwoSecondsPass, loopVars, editVars
  <2> QED BY <1>1, <2>1
<1>3. CASE TailSteps
  <2>1. Line \in T
    BY TextsAssumption DEF Line
  <2>2. /\ UNCHANGED <<loop, shown, current, outdated, timer, flushes>>
        /\ texts' = texts \/ texts' = Append(texts, Line)
    BY <1>3 DEF TailSteps, TailLine, TailGivesUp, TailNoticesEnd, TailCloses, Forward,
                loopVars, editVars
  <2> QED BY <1>1, <2>1, <2>2
<1>4. CASE FireFlush
  <2>1. OnItsWay(current) /\ current' = current /\ current \in Texts
    BY <1>4 DEF FireFlush, NoTextGetsStuck, TypeOK, loopVars
  <2>2. flushes'[current] >= flushes[current] /\ (timer = current => flushes'[current] > 0)
    BY <1>4, <2>1 DEF FireFlush, TypeOK
  <2>3. texts' = texts
    BY <1>4 DEF FireFlush
  <2>4. flushes[current] \in Nat /\ flushes'[current] \in Int
    BY <1>4, <2>1 DEF FireFlush, TypeOK
  <2> QED BY <2>1, <2>2, <2>3, <2>4 DEF OnItsWay
<1>5. ASSUME NEW v \in Texts, SendFlush(v) PROVE OnItsWay(current)'
  <2>1. OnItsWay(current) /\ current' = current /\ current \in Texts /\ timer' = timer
    BY <1>5 DEF SendFlush, NoTextGetsStuck, TypeOK, loopVars, editVars
  <2>2. /\ Len(texts') = Len(texts) + 1 /\ texts'[Len(texts) + 1] = Flush(v)
        /\ \A i \in 1 .. Len(texts) : texts'[i] = texts[i]
        /\ Len(texts) \in Nat
    <3>1. Flush(v) \in T /\ texts \in Seq(T) /\ texts' = Append(texts, Flush(v))
      BY <1>5 DEF SendFlush, TypeOK, Flush
    <3>2. Len(texts) \in Nat
      BY <3>1
    <3> HIDE DEF T
    <3> QED BY <3>1, <3>2, AppendIs
  <2>3. CASE v = current
    <3>1. Len(texts) + 1 \in 1 .. Len(texts')
      BY <2>2
    <3> QED BY <3>1, <2>1, <2>2, <2>3 DEF OnItsWay, Flush
  <2>4. CASE v # current
    <3>1. flushes'[current] = flushes[current]
      BY <1>5, <2>1, <2>4 DEF SendFlush, TypeOK
    <3>2. \A i \in 1 .. Len(texts) : i \in 1 .. Len(texts')
      BY <2>2
    <3> QED BY <2>1, <2>2, <3>1, <3>2 DEF OnItsWay, Flush
  <2> QED BY <2>3, <2>4
<1>6. CASE TakeEvent \/ (TakeText /\ ~Head(texts).flush)
  <2>1. Throttled(current')
    BY <1>6 DEF TakeEvent, TakeText
  <2>2. timer' = current'
    BY <2>1 DEF Throttled, Edit, editVars
  <2> QED BY <2>2 DEF OnItsWay
<1>7. CASE TakeText /\ Head(texts).flush
  <2> DEFINE w == Head(texts).text
  <2>1. /\ Edit(w) /\ current' = current /\ flushes' = flushes
        /\ loop = "open" /\ texts' = Tail(texts) /\ texts \in Seq(T) /\ texts # <<>>
        /\ current \in Texts
    BY <1>7 DEF TakeText, TypeOK
  <2>2. w = shown /\ shown' = shown /\ outdated' = outdated /\ timer' = timer
    BY <2>1 DEF Edit, editVars
  <2>3. OnItsWay(current) /\ w # current
    BY <2>1, <2>2 DEF NoTextGetsStuck
  <2>4. CASE timer = current \/ flushes[current] > 0
    BY <2>1, <2>2, <2>4 DEF OnItsWay
  <2>5. ASSUME NEW i \in 1 .. Len(texts), texts[i] = Flush(current)
        PROVE  OnItsWay(current)'
    <3>1. /\ Head(texts) = texts[1] /\ Len(texts) \in Nat \ {0}
          /\ Len(Tail(texts)) = Len(texts) - 1
          /\ \A j \in 1 .. Len(Tail(texts)) : Tail(texts)[j] = texts[j + 1]
      BY <2>1, HeadAndTail
    <3>2. i # 1
      BY <2>3, <2>5, <3>1 DEF Flush
    <3>3. i - 1 \in 1 .. Len(Tail(texts)) /\ (i - 1) + 1 = i
      BY <3>1, <3>2
    <3>4. texts'[i - 1] = Flush(current) /\ i - 1 \in 1 .. Len(texts')
      BY <2>1, <2>5, <3>1, <3>3
    <3> QED BY <3>4, <2>1 DEF OnItsWay, Flush
  <2> QED BY <2>3, <2>4, <2>5 DEF OnItsWay
<1>8. CASE TakeClose \/ End
  BY <1>8 DEF TakeClose, End
<1> QED BY <1>2, <1>3, <1>4, <1>5, <1>6, <1>7, <1>8, NextCases DEF FlushSteps, LoopStep

(* While the loop runs, the current text is shown or on its way, unless a late
   flush has just replaced it. *)
THEOREM NoTextIsForgotten == Spec => []NoTextGetsStuck
<1>1. Init => NoTextGetsStuck
  BY DEF Init, NoTextGetsStuck
<1> QED BY <1>1, InitType, NextType, NextStuck, PTL DEF Spec

-----------------------------------------------------------------------------
(* Tailers and forwarders start and end with their agents *)

(* The report that an agent has started reaches a loop that knows nothing of it:
   no event of the same tool call comes before it. *)
StartsComeFirst ==
    /\ \A i \in 1 .. Len(events) : events[i].what = "started" =>
          /\ seen[events[i].tool] = "none"
          /\ \A j \in 1 .. Len(events) : j < i => events[j].tool # events[i].tool
    /\ \A t \in Tools : reported[t] = "none" =>
          /\ seen[t] = "none"
          /\ \A i \in 1 .. Len(events) : events[i].tool # t

(* A tailer comes with its forwarder, runs only for an agent at work in a job that
   goes on, and its channel never holds more than it can; the forwarder ends only
   when the tailer has, with nothing left behind. *)
TailersKept ==
    \A a \in Agents :
       /\ seen[a] = "none" => tailer[a] = "none"
       /\ tailer[a] = "none" <=> forwarder[a] = "none"
       /\ tailer[a] = "running" => loop # "ended" /\ ~ctxDone /\ seen[a] = "started"
       /\ tailer[a] = "none" => tailed[a] = 0
       /\ forwarder[a] = "ended" => tailer[a] = "closed" /\ tailed[a] = 0
       /\ tailed[a] <= TailCap

(* What a tailer may do in a step: it starts once, and never again. *)
TailersGoForward ==
    \A a \in Agents :
       /\ tailer[a] # "none" => tailer'[a] # "none"
       /\ tailer[a] \in {"stopping", "closed"} => tailer'[a] # "running"
       /\ tailer[a] = "closed" => tailer'[a] = "closed"
       /\ forwarder[a] = "ended" => forwarder'[a] = "ended"

LEMMA ReportStarts ==
    ASSUME TypeOK, StartsComeFirst, NEW t \in Tools, NEW what \in Progress, Report(t, what)
    PROVE  StartsComeFirst'
<1> DEFINE Event == [tool : Tools, what : {"started", "completed"}]
           e == [tool |-> t, what |-> what]
           n == Len(events)
<1>1. /\ events \in Seq(Event) /\ n \in Nat
      /\ events' = Append(events, e) /\ reported' = [reported EXCEPT ![t] = what]
      /\ seen' = seen /\ reported \in [Tools -> Progress]
      /\ what = "started" => reported[t] = "none"
      /\ what # "none"
  BY DEF Report, TypeOK, loopVars
<1>2. e \in Event
  BY DEF Report, Progress
<1>3. /\ Len(events') = n + 1 /\ events'[n + 1] = e
      /\ \A i \in 1 .. n : events'[i] = events[i] /\ events[i] \in Event
  <2> HIDE DEF e, Event
  <2> QED BY <1>1, <1>2, AppendIs
<1>4. ASSUME NEW i \in 1 .. Len(events'), events'[i].what = "started"
      PROVE  /\ seen'[events'[i].tool] = "none"
             /\ \A j \in 1 .. Len(events') : j < i => events'[j].tool # events'[i].tool
  <2>1. CASE i = n + 1
    <3>1. events'[i].tool = t /\ reported[t] = "none"
      BY <2>1, <1>1, <1>3, <1>4
    <3>2. seen[t] = "none" /\ \A j \in 1 .. n : events[j].tool # t
      BY <3>1 DEF StartsComeFirst
    <3>3. ASSUME NEW j \in 1 .. Len(events'), j < i PROVE events'[j].tool # t
      BY <3>2, <3>3, <2>1, <1>1, <1>3
    <3> QED BY <3>1, <3>2, <3>3, <1>1
  <2>2. CASE i # n + 1
    <3>1. i \in 1 .. n /\ events'[i] = events[i]
      BY <2>2, <1>1, <1>3
    <3>2. /\ seen[events[i].tool] = "none"
          /\ \A j \in 1 .. n : j < i => events[j].tool # events[i].tool
      BY <3>1, <1>4 DEF StartsComeFirst
    <3>3. ASSUME NEW j \in 1 .. Len(events'), j < i
          PROVE  j \in 1 .. n /\ events'[j] = events[j]
      BY <3>1, <3>3, <1>1, <1>3
    <3> QED BY <3>1, <3>2, <3>3, <1>1
  <2> QED BY <2>1, <2>2
<1>5. ASSUME NEW u \in Tools, reported'[u] = "none"
      PROVE  seen'[u] = "none" /\ \A i \in 1 .. Len(events') : events'[i].tool # u
  <2>1. u # t /\ reported[u] = "none"
    BY <1>1, <1>5
  <2>2. seen[u] = "none" /\ \A i \in 1 .. n : events[i].tool # u
    BY <2>1 DEF StartsComeFirst
  <2>3. ASSUME NEW i \in 1 .. Len(events') PROVE events'[i].tool # u
    <3>1. CASE i = n + 1
      BY <3>1, <1>3, <2>1
    <3>2. CASE i # n + 1
      BY <3>2, <1>1, <1>3, <2>2
    <3> QED BY <3>1, <3>2
  <2> QED BY <2>2, <2>3, <1>1
<1> QED BY <1>4, <1>5 DEF StartsComeFirst

LEMMA TakeStarts ==
    ASSUME TypeOK, StartsComeFirst, TakeEvent
    PROVE  StartsComeFirst'
<1> DEFINE Event == [tool : Tools, what : {"started", "completed"}]
           t == Head(events).tool
           n == Len(events)
<1>1. /\ events \in Seq(Event) /\ events # <<>> /\ events' = Tail(events)
      /\ seen' = [seen EXCEPT ![t] = Head(events).what] /\ reported' = reported
      /\ seen \in [Tools -> Progress]
  BY DEF TakeEvent, TypeOK, readerVars
<1>2. /\ Head(events) \in Event /\ Head(events) = events[1] /\ n \in Nat \ {0}
      /\ Len(events') = n - 1
      /\ \A i \in 1 .. n - 1 : events'[i] = events[i + 1]
  BY <1>1, HeadAndTail
<1>3. t \in Tools /\ t = events[1].tool /\ 1 \in 1 .. n
  BY <1>2
<1>4. \A i \in 1 .. Len(events') : i + 1 \in 1 .. n /\ 1 < i + 1 /\ events'[i] = events[i + 1]
  BY <1>2
<1>5. ASSUME NEW i \in 1 .. Len(events'), events'[i].what = "started"
      PROVE  /\ seen'[events'[i].tool] = "none"
             /\ \A j \in 1 .. Len(events') : j < i => events'[j].tool # events'[i].tool
  <2>1. /\ seen[events[i + 1].tool] = "none"
        /\ \A j \in 1 .. n : j < i + 1 => events[j].tool # events[i + 1].tool
    BY <1>4, <1>5 DEF StartsComeFirst
  <2>2. events[i + 1].tool # t
    BY <2>1, <1>3, <1>4
  <2>3. ASSUME NEW j \in 1 .. Len(events'), j < i PROVE events'[j].tool # events'[i].tool
    <3>1. j + 1 < i + 1
      BY <2>3, <1>2
    <3> QED BY <3>1, <2>1, <1>4
  <2> QED BY <2>1, <2>2, <2>3, <1>1, <1>4
<1>6. ASSUME NEW u \in Tools, reported'[u] = "none"
      PROVE  seen'[u] = "none" /\ \A i \in 1 .. Len(events') : events'[i].tool # u
  <2>1. seen[u] = "none" /\ \A i \in 1 .. n : events[i].tool # u
    BY <1>1, <1>6 DEF StartsComeFirst
  <2> QED BY <2>1, <1>1, <1>3, <1>4
<1> QED BY <1>5, <1>6 DEF StartsComeFirst

LEMMA NextStarts ==
    ASSUME TypeOK, StartsComeFirst, [Next]_vars
    PROVE  StartsComeFirst'
<1>1. CASE UNCHANGED <<events, seen, reported>>
  BY <1>1 DEF StartsComeFirst
<1> QED BY <1>1, EventsMoveBy, ReportStarts, TakeStarts

(* The first event of the channel: a start finds no tailer. *)
LEMMA HeadIsNews ==
    ASSUME TypeOK, StartsComeFirst, TailersKept, TakeEvent
    PROVE  /\ Head(events).tool \in Tools /\ Head(events).what \in {"started", "completed"}
           /\ Head(events).what = "started" /\ Head(events).tool \in Agents =>
                 /\ tailer[Head(events).tool] = "none"
                 /\ forwarder[Head(events).tool] = "none"
<1> DEFINE Event == [tool : Tools, what : {"started", "completed"}]
<1>1. events \in Seq(Event) /\ events # <<>>
  BY DEF TakeEvent, TypeOK
<1>2. Head(events) \in Event /\ Head(events) = events[1] /\ Len(events) \in Nat \ {0}
  <2> HIDE DEF Event
  <2> QED BY <1>1, HeadAndTail
<1>3. Head(events).what = "started" => seen[Head(events).tool] = "none"
  BY <1>2 DEF StartsComeFirst
<1> QED BY <1>2, <1>3 DEF TailersKept

LEMMA TakeTailers ==
    ASSUME TypeOK, StartsComeFirst, TailersKept, TakeEvent
    PROVE  TailersKept' /\ TailersGoForward
<1> DEFINE t == Head(events).tool
           what == Head(events).what
<1>1. /\ loop = "open" /\ loop' = loop /\ ctxDone' = ctxDone /\ tailed' = tailed
      /\ seen' = [seen EXCEPT ![t] = what]
      /\ \A a \in Agents :
            /\ tailer'[a] = IF a = t /\ what = "started"
                            THEN IF ctxDone THEN "stopping" ELSE "running"
                            ELSE IF what = "completed" /\ a = t /\ tailer[a] = "running"
                                 THEN "stopping" ELSE tailer[a]
            /\ forwarder'[a] = IF a = t /\ what = "started" THEN "idle" ELSE forwarder[a]
  BY HeadIsNews DEF TakeEvent, Stopped
<1>2. seen \in [Tools -> Progress] /\ \A a \in Agents : a \in Tools
  BY AgentsAssumption DEF TypeOK
<1>3. /\ t \in Tools /\ what \in {"started", "completed"}
      /\ what = "started" /\ t \in Agents => tailer[t] = "none" /\ forwarder[t] = "none"
  BY HeadIsNews
<1> HIDE DEF t, what
<1>4. ASSUME NEW a \in Agents, a = t, what = "started"
      PROVE  /\ tailer[a] = "none" /\ forwarder[a] = "none" /\ seen'[a] = "started"
             /\ tailer'[a] = IF ctxDone THEN "stopping" ELSE "running"
             /\ forwarder'[a] = "idle"
  BY <1>1, <1>2, <1>3, <1>4
<1>5. ASSUME NEW a \in Agents, a = t, what = "completed"
      PROVE  /\ seen'[a] = "completed" /\ forwarder'[a] = forwarder[a]
             /\ tailer'[a] = IF tailer[a] = "running" THEN "stopping" ELSE tailer[a]
  BY <1>1, <1>2, <1>3, <1>5
<1>6. ASSUME NEW a \in Agents, a # t
      PROVE  seen'[a] = seen[a] /\ forwarder'[a] = forwarder[a] /\ tailer'[a] = tailer[a]
  BY <1>1, <1>2, <1>6
<1>7. TailersKept'
  BY <1>1, <1>3, <1>4, <1>5, <1>6 DEF TailersKept
<1>8. TailersGoForward
  BY <1>1, <1>3, <1>4, <1>5, <1>6 DEF TailersGoForward, TailersKept
<1> QED BY <1>7, <1>8

LEMMA NextTailers ==
    ASSUME TypeOK, StartsComeFirst, TailersKept, [Next]_vars
    PROVE  TailersKept' /\ TailersGoForward
<1> USE DEF TailersKept, TailersGoForward
<1>1. CASE UNCHANGED vars
  BY <1>1 DEF vars, loopVars, tailVars
<1>2. CASE ReaderSteps
  <2>1. CASE Cancel
    <3>1. /\ \A a \in Agents : tailer'[a] = IF tailer[a] = "running" THEN "stopping" ELSE tailer[a]
          /\ UNCHANGED <<seen, loop, tailed, forwarder>>
      BY <2>1 DEF Cancel, Stopped, loopVars
    <3> QED BY <3>1
  <2>2. CASE (\E t \in Tools, what \in Progress : Report(t, what)) \/ EndStream
    <3>1. UNCHANGED <<seen, loop, ctxDone, tailer, tailed, forwarder>>
      BY <2>2 DEF Report, EndStream, loopVars, tailVars
    <3> QED BY <3>1
  <2> QED BY <1>2, <2>1, <2>2 DEF ReaderSteps
<1>3. CASE FlushSteps
  BY <1>3 DEF FlushSteps, TwoSecondsPass, FireFlush, SendFlush, loopVars, tailVars
<1>4. CASE TakeText \/ TakeClose
  BY <1>4 DEF TakeText, TakeClose, tailVars
<1>5. CASE End
  <2>1. /\ \A a \in Agents : tailer'[a] = IF tailer[a] = "running" THEN "stopping" ELSE tailer[a]
        /\ UNCHANGED <<seen, tailed, forwarder, ctxDone>>
    BY <1>5 DEF End, Stopped
  <2> QED BY <2>1
<1>6. ASSUME NEW a \in Agents,
             TailLine(a) \/ TailGivesUp(a) \/ TailNoticesEnd(a) \/ Forward(a)
      PROVE  TailersKept' /\ TailersGoForward
  <2>1. /\ UNCHANGED <<seen, loop, ctxDone>>
        /\ tailed \in [Agents -> Nat] /\ TailCap \in Nat \ {0}
        /\ tailer \in [Agents -> {"none", "running", "stopping", "closed"}]
        /\ forwarder \in [Agents -> {"none", "idle", "holding", "ended"}]
    BY <1>6, CapAssumption DEF TypeOK, TailLine, TailGivesUp, TailNoticesEnd, TailCloses,
       Forward, loopVars
  <2>2. CASE TailLine(a)
    <3>1. PICK lost \in Lost(a) : tailed' = [tailed EXCEPT ![a] = @ + 1 - lost]
      BY <2>2 DEF TailLine
    <3>2. tailed[a] + 1 - lost <= TailCap
      BY <2>1, <3>1 DEF Lost
    <3>3. /\ tailer[a] \in {"running", "stopping"} /\ UNCHANGED <<tailer, forwarder>>
          /\ tailed'[a] <= TailCap /\ \A b \in Agents \ {a} : tailed'[b] = tailed[b]
      BY <2>1, <2>2, <3>1, <3>2 DEF TailLine
    <3> QED BY <2>1, <3>3
  <2>3. CASE TailGivesUp(a) \/ TailNoticesEnd(a)
    <3>1. /\ tailer[a] \in {"running", "stopping"} /\ tailer' = [tailer EXCEPT ![a] = "closed"]
          /\ UNCHANGED <<tailed, forwarder>>
      BY <2>3 DEF TailGivesUp, TailNoticesEnd, TailCloses
    <3> QED BY <2>1, <3>1
  <2>4. CASE Forward(a)
    <3>1. /\ UNCHANGED tailer /\ forwarder[a] \in {"idle", "holding"}
          /\ \A b \in Agents \ {a} : tailed'[b] = tailed[b] /\ forwarder'[b] = forwarder[b]
          /\ forwarder'[a] # "none"
          /\ tailed'[a] <= TailCap
          /\ forwarder'[a] = "ended" => tailer[a] = "closed" /\ tailed'[a] = 0
      BY <2>1, <2>4 DEF Forward
    <3> QED BY <2>1, <3>1
  <2> QED BY <1>6, <2>2, <2>3, <2>4
<1> QED BY <1>1, <1>2, <1>3, <1>4, <1>5, <1>6, TakeTailers, NextCases DEF LoopStep, TailSteps

LEMMA TailersAreKept == Spec => [](TypeOK /\ StartsComeFirst /\ TailersKept)
<1>1. Init => StartsComeFirst /\ TailersKept
  BY CapAssumption, AgentsAssumption DEF Init, StartsComeFirst, TailersKept
<1> QED BY <1>1, InitType, NextType, NextStarts, NextTailers, PTL DEF Spec

(* No tailer polls for an agent that has not started or has its result, nor once
   the job is cancelled or its goroutine has ended: stopping them all is never
   undone by a start that comes late.  Its forwarder ends only after it, with no
   text left in the channel, which never holds more than its capacity. *)
THEOREM TailersHaveTheirEnd ==
    Spec => []( \A a \in Agents :
                   /\ tailer[a] = "running" => loop # "ended" /\ ~ctxDone /\ seen[a] = "started"
                   /\ forwarder[a] = "ended" => tailer[a] = "closed" /\ tailed[a] = 0
                   /\ tailed[a] <= TailCap )
<1>1. TailersKept =>
        \A a \in Agents :
           /\ tailer[a] = "running" => loop # "ended" /\ ~ctxDone /\ seen[a] = "started"
           /\ forwarder[a] = "ended" => tailer[a] = "closed" /\ tailed[a] = 0
           /\ tailed[a] <= TailCap
  BY DEF TailersKept
<1> QED BY <1>1, TailersAreKept, PTL

(* An agent has one tailer: what has been stopped or closed is not started again,
   whatever events are still in the channel. *)
THEOREM TailersStartOnce == Spec => [][TailersGoForward]_vars
BY TailersAreKept, NextTailers, PTL DEF Spec

-----------------------------------------------------------------------------
(* The loop has a bounded way to go *)

(* What the loop still has to do before agentDone is closed: the events in the
   channel, the last text and its end. *)
Remaining == Len(events) + (IF loop = "open" THEN 2 ELSE IF loop = "stopping" THEN 1 ELSE 0)

LoopRunsOut ==
    closed =>
       /\ closed'
       /\ Remaining' \in Nat /\ Remaining' <= Remaining
       /\ TakeEvent \/ TakeClose \/ End => Remaining' = Remaining - 1

LEMMA RemainingMoves == ASSUME TypeOK, [Next]_vars PROVE LoopRunsOut
<1> DEFINE n == Len(events)
<1>0. n \in Nat /\ (events \in Seq([tool : Tools, what : {"started", "completed"}]))
  BY DEF TypeOK
<1>1. CASE UNCHANGED vars
  <2>1. UNCHANGED <<closed, events, loop>>
    BY <1>1 DEF vars, readerVars, loopVars
  <2>2. ~TakeEvent /\ ~TakeClose /\ ~End
    <3>1. TakeEvent => Len(events') = n - 1
      BY <1>0, HeadAndTail DEF TakeEvent
    <3> QED BY <1>0, <2>1, <3>1 DEF TakeClose, End
  <2> QED BY <1>0, <2>1, <2>2 DEF LoopRunsOut, Remaining
<1>2. CASE TakeEvent
  <2>1. closed' = closed /\ loop' = loop /\ Len(events') = n - 1 /\ loop = "open" /\ n > 0
    BY <1>0, <1>2, HeadAndTail DEF TakeEvent, readerVars
  <2>2. ~TakeClose /\ ~End
    BY <1>2 DEF TakeEvent, TakeClose, End
  <2> QED BY <1>0, <2>1, <2>2 DEF LoopRunsOut, Remaining
<1>3. CASE TakeClose \/ End
  <2>1. /\ UNCHANGED <<closed, events>>
        /\ \/ loop = "open" /\ loop' = "stopping"
           \/ loop = "stopping" /\ loop' = "ended"
    BY <1>3 DEF TakeClose, End, readerVars
  <2> QED BY <1>0, <2>1 DEF LoopRunsOut, Remaining
<1>4. CASE ~TakeEvent /\ ~TakeClose /\ ~End /\ ~UNCHANGED vars
  <2>1. closed => UNCHANGED <<closed, events, loop>>
    <3>1. CASE ReaderSteps
      BY <3>1 DEF ReaderSteps, Report, EndStream, Cancel, readerVars, loopVars
    <3>2. CASE FlushSteps
      BY <3>2 DEF FlushSteps, TwoSecondsPass, FireFlush, SendFlush, readerVars, loopVars
    <3>3. CASE TakeText
      BY <3>3 DEF TakeText, readerVars
    <3>4. CASE TailSteps
      BY <3>4 DEF TailSteps, TailLine, TailGivesUp, TailNoticesEnd, TailCloses, Forward,
                  readerVars, loopVars
    <3> QED BY <1>4, <3>1, <3>2, <3>3, <3>4, NextCases DEF LoopStep
  <2> QED BY <1>0, <1>4, <2>1 DEF LoopRunsOut, Remaining
<1> QED BY <1>1, <1>2, <1>3, <1>4

(* Once the process has ended, the loop has a bounded number of steps to take
   before agentDone is closed, and nothing that the flushes, the forwarders, the
   tailers or a cancellation do adds to them; the safety half of EveryFeedEnds. *)
THEOREM FeedRunsOut == Spec => [][LoopRunsOut]_vars
BY InitType, NextType, RemainingMoves, PTL DEF Spec
=============================================================================

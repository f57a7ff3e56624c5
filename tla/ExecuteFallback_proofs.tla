------------------------ MODULE ExecuteFallback_proofs ------------------------
(***************************************************************************)
(* Theorems about ExecuteFallback, for any workers, keys and credentials.  *)
(***************************************************************************)
EXTENDS ExecuteFallback, TLAPS

USE DEF vars, flowVars, fileVars, history

(* The attempts are numbered 1 .. Count, and there is at least one. *)
LEMMA CountIsPositive == Count \in Nat \ {0}
  BY KeyCountAssumption, CredsAssumption DEF Count

-----------------------------------------------------------------------------
(* Types *)

FlowTypeOK ==
    /\ pc \in [Workers -> PcStates]
    /\ at \in [Workers -> 1 .. Count]
    /\ last \in [Workers -> Results \cup {"none"}]
    /\ ctxDone \subseteq Workers
    /\ tried \in [Workers -> Seq([attempt : 1 .. Count, result : Results])]
    /\ skipped \in [Workers -> SUBSET (1 .. Count)]

FileTypeOK ==
    /\ fd \in [Workers -> Inodes \cup {NoInode}]
    /\ credFile \in Inodes
    /\ tmpFile \in Inodes \cup {NoInode}
    /\ content \in [Inodes -> [text : Garbled .. Count + 1, size : Nat]]

(* The initial state is well typed. *)
LEMMA TypeInit == Init => FlowTypeOK /\ FileTypeOK
<1> SUFFICES ASSUME Init PROVE FlowTypeOK /\ FileTypeOK
  OBVIOUS
<1>1. FlowTypeOK
  BY CountIsPositive DEF Init, FlowTypeOK, PcStates, Results
<1>2. credFile \in Inodes
  BY InodeAssumption DEF Init
<1>3. content \in [Inodes -> [text : Garbled .. Count + 1, size : Nat]]
  BY CountIsPositive DEF Init, Garbled, NoText, Original
<1> QED BY <1>1, <1>2, <1>3 DEF Init, FileTypeOK

(* The end of an attempt keeps the flow's types ... *)
LEMMA EndedTypes ==
    ASSUME FlowTypeOK, NEW w \in Workers, NEW r \in Results, Ended(w, r)
    PROVE  FlowTypeOK'
<1>1. [attempt |-> at[w], result |-> r] \in [attempt : 1 .. Count, result : Results]
  BY DEF FlowTypeOK
<1>2. tried' \in [Workers -> Seq([attempt : 1 .. Count, result : Results])]
  <2> DEFINE Record == [attempt |-> at[w], result |-> r]
             Records == [attempt : 1 .. Count, result : Results]
  <2>1. Record \in Records /\ tried' = [tried EXCEPT ![w] = Append(tried[w], Record)]
    BY <1>1 DEF Ended
  <2>2. tried \in [Workers -> Seq(Records)]
    BY DEF FlowTypeOK
  <2> HIDE DEF Record, Records
  <2>3. Append(tried[w], Record) \in Seq(Records)
    BY <2>1, <2>2
  <2>4. tried' \in [Workers -> Seq(Records)]
    BY <2>1, <2>2, <2>3
  <2> QED BY <2>4 DEF Records
<1>3. at' \in [Workers -> 1 .. Count]
  <2>1. \/ at' = [at EXCEPT ![w] = at[w]]
        \/ at[w] < Count /\ at' = [at EXCEPT ![w] = at[w] + 1]
    <3>1. CASE r = "keyError" /\ at[w] < Count
      BY <3>1 DEF Ended
    <3>2. CASE ~(r = "keyError" /\ at[w] < Count)
      BY <3>2 DEF Ended
    <3> QED BY <3>1, <3>2
  <2>2. at \in [Workers -> 1 .. Count]
    BY DEF FlowTypeOK
  <2>3. at[w] < Count => at[w] + 1 \in 1 .. Count
    BY <2>2, CountIsPositive
  <2>4. at[w] \in 1 .. Count
    BY <2>2
  <2> QED BY ONLY <2>1, <2>2, <2>3, <2>4
<1>4. pc' \in [Workers -> PcStates]
  BY DEF FlowTypeOK, Ended, GoTo, PcStates
<1> QED BY <1>2, <1>3, <1>4 DEF FlowTypeOK, Ended

(* ... and so does passing over a credential. *)
LEMMA PassOverTypes ==
    ASSUME FlowTypeOK, NEW w \in Workers, PassOver(w)
    PROVE  FlowTypeOK'
<1>1. at' \in [Workers -> 1 .. Count]
  BY CountIsPositive DEF FlowTypeOK, PassOver
<1>2. pc' \in [Workers -> PcStates]
  BY DEF FlowTypeOK, PassOver, GoTo, PcStates
<1>3. skipped' \in [Workers -> SUBSET (1 .. Count)]
  BY DEF FlowTypeOK, PassOver
<1> QED BY <1>1, <1>2, <1>3 DEF FlowTypeOK, PassOver

(* Every step keeps the types of the flow ... *)
LEMMA FlowTypeStep == FlowTypeOK /\ [Next]_vars => FlowTypeOK'
<1> SUFFICES ASSUME FlowTypeOK, [Next]_vars PROVE FlowTypeOK'
  OBVIOUS
<1>1. ASSUME NEW w \in Workers,
             \/ Choose(w) \/ Launch(w) \/ ReadFile(w) \/ OpenTmp(w)
             \/ WriteTmp(w) \/ Rename(w) \/ RenameFails(w)
      PROVE FlowTypeOK'
  <2>1. /\ pc' \in [Workers -> PcStates]
        /\ UNCHANGED <<at, last, ctxDone, tried, skipped>>
    BY <1>1 DEF FlowTypeOK, Choose, Launch, ReadFile, OpenTmp, WriteTmp, Rename,
                RenameFails, GoTo, PcStates
  <2> QED BY <2>1 DEF FlowTypeOK
<1>2. ASSUME NEW w \in Workers, ChooseUnusable(w) \/ ReadFails(w) \/ Discard(w)
      PROVE FlowTypeOK'
  BY <1>2, PassOverTypes DEF ChooseUnusable, ReadFails, Discard
<1>3. ASSUME NEW w \in Workers, LaunchRefused(w) PROVE FlowTypeOK'
  BY <1>3, EndedTypes DEF LaunchRefused, Results
<1>4. ASSUME NEW w \in Workers, NEW r \in Results, Finish(w, r) PROVE FlowTypeOK'
  BY <1>4, EndedTypes DEF Finish
<1>5. ASSUME NEW w \in Workers, Cancel(w) PROVE FlowTypeOK'
  BY <1>5 DEF Cancel, FlowTypeOK
<1>6. CASE UNCHANGED vars
  BY <1>6 DEF FlowTypeOK
<1> QED BY ONLY [Next]_vars, <1>1, <1>2, <1>3, <1>4, <1>5, <1>6 DEF Next, Step

(* ... and of the files. *)
LEMMA FileTypeStep == FlowTypeOK /\ FileTypeOK /\ [Next]_vars => FileTypeOK'
<1> SUFFICES ASSUME FlowTypeOK, FileTypeOK, [Next]_vars PROVE FileTypeOK'
  OBVIOUS
<1> DEFINE Contents == [text : Garbled .. Count + 1, size : Nat]
<1>1. ASSUME NEW w \in Workers, OpenTmp(w) PROVE FileTypeOK'
  <2>1. [text |-> NoText, size |-> 0] \in Contents
    BY CountIsPositive DEF Garbled, NoText
  <2>2. PICK i \in Inodes : /\ tmpFile' = i /\ fd' = [fd EXCEPT ![w] = i]
                            /\ content' = [content EXCEPT ![i] = [text |-> NoText, size |-> 0]]
                            /\ credFile' = credFile
    BY <1>1 DEF OpenTmp
  <2> HIDE DEF Contents
  <2>3. content' \in [Inodes -> Contents]
    BY <2>1, <2>2 DEF FileTypeOK, Contents
  <2> QED BY <2>2, <2>3 DEF FileTypeOK, Contents
<1>2. ASSUME NEW w \in Workers, WriteTmp(w) PROVE FileTypeOK'
  <2>1. at[w] \in 1 .. Count /\ SizeOf[at[w]] \in Nat
    BY SizeOfAssumption DEF FlowTypeOK
  <2>2. content' \in [Inodes -> Contents]
    <3>1. /\ [text |-> at[w], size |-> SizeOf[at[w]]] \in Contents
          /\ \A i \in Inodes : [text |-> Garbled, size |-> content[i].size] \in Contents
      BY <2>1, CountIsPositive DEF FileTypeOK, Garbled
    <3>2. \/ content' = [content EXCEPT ![fd[w]] = [text |-> at[w], size |-> SizeOf[at[w]]]]
          \/ content' = [content EXCEPT ![fd[w]] = [text |-> Garbled, size |-> content[fd[w]].size]]
      BY <1>2 DEF WriteTmp
    <3>3. content \in [Inodes -> Contents]
      BY DEF FileTypeOK
    <3> HIDE DEF Contents
    <3> QED BY <3>1, <3>2, <3>3
  <2>3. fd' \in [Workers -> Inodes \cup {NoInode}]
    BY <1>2 DEF WriteTmp, FileTypeOK
  <2> QED BY <1>2, <2>2, <2>3 DEF WriteTmp, FileTypeOK
<1>3. ASSUME NEW w \in Workers, Rename(w) PROVE FileTypeOK'
  BY <1>3 DEF Rename, FileTypeOK
<1>4. ASSUME NEW w \in Workers, Discard(w) PROVE FileTypeOK'
  BY <1>4 DEF Discard, FileTypeOK
<1>5. ASSUME NEW w \in Workers,
             \/ Choose(w) \/ Launch(w) \/ ReadFile(w) \/ RenameFails(w)
             \/ ChooseUnusable(w) \/ ReadFails(w) \/ LaunchRefused(w) \/ Cancel(w)
      PROVE UNCHANGED fileVars
  BY <1>5 DEF Choose, Launch, ReadFile, RenameFails, ChooseUnusable, ReadFails,
              LaunchRefused, Ended, Cancel
<1>6. ASSUME NEW w \in Workers, NEW r \in Results, Finish(w, r) PROVE UNCHANGED fileVars
  BY <1>6 DEF Finish, Ended
<1>7. UNCHANGED fileVars => FileTypeOK'
  BY DEF FileTypeOK
<1>8. UNCHANGED vars => UNCHANGED fileVars
  OBVIOUS
<1> QED BY ONLY [Next]_vars, <1>1, <1>2, <1>3, <1>4, <1>5, <1>6, <1>7, <1>8 DEF Next, Step

(* runner.go's fallback loop and credentials.go's swap keep their types; in
   particular the index never runs past the last credential. *)
THEOREM TypeCorrect == Spec => []TypeOK
<1>1. FlowTypeOK /\ FileTypeOK => TypeOK
  BY DEF FlowTypeOK, FileTypeOK, TypeOK
<1> QED BY <1>1, TypeInit, FlowTypeStep, FileTypeStep, PTL DEF Spec

-----------------------------------------------------------------------------
(* The order of the attempts *)

Tries(w) == 1 .. Len(tried[w])

(* What holds of the attempts of one worker: in order, all key errors while it
   goes on, all but the last once it is done ... *)
InOrder(w) ==
    /\ \A i \in 1 .. Len(tried[w]) - 1 :
          /\ tried[w][i].result = "keyError"
          /\ tried[w][i].attempt < tried[w][i + 1].attempt
    /\ pc[w] # "done" => \A i \in Tries(w) :
          tried[w][i].result = "keyError" /\ tried[w][i].attempt < at[w]
    /\ last[w] = IF tried[w] = <<>> THEN "none" ELSE tried[w][Len(tried[w])].result

(* ... and none left out on the way. *)
Covered(w, n) == n \in skipped[w] \/ \E i \in Tries(w) : tried[w][i].attempt = n

NoneLeftOut(w) ==
    \A n \in 1 .. Count :
        n < at[w] \/ (pc[w] = "done" /\ last[w] = "keyError") => Covered(w, n)

Disciplined(w) == InOrder(w) /\ NoneLeftOut(w)

AllDisciplined == \A w \in Workers : Disciplined(w)

Record == [attempt : 1 .. Count, result : Results]

(* What the types say of one worker's attempts. *)
LEMMA Entries ==
    ASSUME FlowTypeOK, NEW w \in Workers
    PROVE  /\ tried[w] \in Seq(Record) /\ Len(tried[w]) \in Nat
           /\ \A i \in Tries(w) : tried[w][i].attempt \in 1 .. Count
<1>1. tried \in [Workers -> Seq(Record)]
  BY DEF FlowTypeOK, Record
<1>2. tried[w] \in Seq(Record) /\ Len(tried[w]) \in Nat
      /\ \A i \in 1 .. Len(tried[w]) : tried[w][i] \in Record
  BY <1>1
<1> QED BY <1>2 DEF Tries, Record

(* Append, on the attempts. *)
LEMMA AppendEntry ==
    ASSUME NEW s \in Seq(Record), NEW e
    PROVE  /\ Len(Append(s, e)) = Len(s) + 1 /\ Append(s, e) # <<>>
           /\ Append(s, e)[Len(s) + 1] = e
           /\ \A i \in 1 .. Len(s) : Append(s, e)[i] = s[i]
  OBVIOUS

(* Nothing has been tried at first. *)
LEMMA OrderInit == Init => AllDisciplined
<1> SUFFICES ASSUME Init, NEW w \in Workers PROVE Disciplined(w)
  BY DEF AllDisciplined
<1>1. tried[w] = <<>> /\ at[w] = 1 /\ last[w] = "none"
  BY DEF Init
<1>2. \A n \in 1 .. Count : ~(n < 1)
  BY CountIsPositive
<1> QED BY <1>1, <1>2 DEF Disciplined, InOrder, NoneLeftOut, Tries

(* An attempt that ends is entered behind the others. *)
LEMMA EndedOrder ==
    ASSUME FlowTypeOK, NEW w \in Workers, Disciplined(w), pc[w] # "done",
           NEW r \in Results, Ended(w, r)
    PROVE  Disciplined(w)'
<1> DEFINE e == [attempt |-> at[w], result |-> r]
           s == tried[w]
           n == Len(s)
<1>1. /\ s \in Seq(Record) /\ n \in Nat
      /\ at[w] \in 1 .. Count /\ e.attempt = at[w] /\ e.result = r
  BY Entries DEF FlowTypeOK
<1>2. tried'[w] = Append(s, e) /\ last'[w] = r /\ skipped'[w] = skipped[w]
  BY DEF FlowTypeOK, Ended
<1>3. /\ Len(tried'[w]) = n + 1 /\ tried'[w] # <<>> /\ tried'[w][n + 1] = e
      /\ \A i \in 1 .. n : tried'[w][i] = s[i]
  BY ONLY <1>1, <1>2, AppendEntry
<1>4. \/ /\ r = "keyError" /\ at[w] < Count
         /\ at'[w] = at[w] + 1 /\ pc'[w] = "choose"
      \/ /\ ~(r = "keyError" /\ at[w] < Count)
         /\ at'[w] = at[w] /\ pc'[w] = "done"
  BY DEF FlowTypeOK, Ended, GoTo
<1>5. \A i \in 1 .. n : s[i].result = "keyError" /\ s[i].attempt < at[w]
  BY DEF Disciplined, InOrder, Tries
<1>6. \A i \in 1 .. n - 1 : s[i].attempt < s[i + 1].attempt
  BY DEF Disciplined, InOrder
<1> HIDE DEF e, s, n
<1>7. \A i \in 1 .. Len(tried'[w]) - 1 :
          /\ tried'[w][i].result = "keyError"
          /\ tried'[w][i].attempt < tried'[w][i + 1].attempt
  <2> SUFFICES ASSUME NEW i \in 1 .. n
               PROVE  tried'[w][i].result = "keyError"
                      /\ tried'[w][i].attempt < tried'[w][i + 1].attempt
    BY <1>1, <1>3
  <2>1. CASE i = n
    BY <1>1, <1>3, <1>5, <2>1
  <2>2. CASE i # n
    <3>1. i \in 1 .. n - 1 /\ i + 1 \in 1 .. n
      BY <1>1, <2>2
    <3> QED BY <1>3, <1>5, <1>6, <3>1
  <2> QED BY <2>1, <2>2
<1>8. pc'[w] # "done" => \A i \in 1 .. n + 1 :
          tried'[w][i].result = "keyError" /\ tried'[w][i].attempt < at'[w]
  <2> SUFFICES ASSUME pc'[w] # "done", NEW i \in 1 .. n + 1
               PROVE  tried'[w][i].result = "keyError" /\ tried'[w][i].attempt < at'[w]
    OBVIOUS
  <2>1. r = "keyError" /\ at'[w] = at[w] + 1
    BY <1>4
  <2>2. CASE i = n + 1
    BY <1>1, <1>3, <2>1, <2>2
  <2>3. CASE i # n + 1
    <3>1. /\ i \in 1 .. n /\ tried'[w][i] = s[i]
          /\ s[i].attempt < at[w] /\ s[i].result = "keyError"
      BY <1>1, <1>3, <1>5, <2>3
    <3>2. s[i].attempt \in 1 .. Count
      BY <3>1, Entries DEF n, s, Tries
    <3> QED BY <1>1, <2>1, <3>1, <3>2
  <2> QED BY <2>2, <2>3
<1>9. InOrder(w)'
  BY <1>2, <1>3, <1>1, <1>7, <1>8 DEF InOrder, Tries
<1>10. NoneLeftOut(w)'
  <2> SUFFICES ASSUME NEW m \in 1 .. Count,
                      m < at'[w] \/ (pc'[w] = "done" /\ last'[w] = "keyError")
               PROVE  m \in skipped'[w] \/ \E i \in 1 .. n + 1 : tried'[w][i].attempt = m
    BY <1>3 DEF NoneLeftOut, Covered, Tries
  <2>1. m < at[w] \/ m = at[w]
    BY <1>1, <1>2, <1>4, CountIsPositive
  <2>2. CASE m = at[w]
    BY <1>1, <1>3, <2>2
  <2>3. CASE m < at[w]
    <3>1. m \in skipped[w] \/ \E i \in 1 .. n : s[i].attempt = m
      BY <2>3 DEF Disciplined, NoneLeftOut, Covered, Tries, n, s
    <3> QED BY <1>1, <1>2, <1>3, <3>1
  <2> QED BY <2>1, <2>2, <2>3
<1> QED BY <1>9, <1>10 DEF Disciplined

(* A credential that is passed over is remembered as such. *)
LEMMA PassOverOrder ==
    ASSUME FlowTypeOK, NEW w \in Workers, Disciplined(w), pc[w] # "done", PassOver(w)
    PROVE  Disciplined(w)'
<1>1. /\ tried'[w] = tried[w] /\ last'[w] = last[w]
      /\ skipped'[w] = skipped[w] \cup {at[w]} /\ at[w] \in 1 .. Count
  BY DEF FlowTypeOK, PassOver
<1>2. \/ at[w] < Count /\ at'[w] = at[w] + 1 /\ pc'[w] = "choose"
      \/ ~(at[w] < Count) /\ at'[w] = at[w] /\ pc'[w] = "done"
  BY DEF FlowTypeOK, PassOver, GoTo
<1>3. \A i \in Tries(w) : /\ tried[w][i].result = "keyError"
                          /\ tried[w][i].attempt < at[w] /\ tried[w][i].attempt \in 1 .. Count
  BY Entries DEF Disciplined, InOrder
<1>4. InOrder(w)'
  BY <1>1, <1>2, <1>3, Entries DEF Disciplined, InOrder, Tries
<1>5. NoneLeftOut(w)'
  <2> SUFFICES ASSUME NEW m \in 1 .. Count,
                      m < at'[w] \/ (pc'[w] = "done" /\ last'[w] = "keyError")
               PROVE  Covered(w, m)'
    BY DEF NoneLeftOut
  <2>1. m < at[w] \/ m = at[w]
    BY <1>1, <1>2, CountIsPositive
  <2>2. m < at[w] => Covered(w, m)
    BY DEF Disciplined, NoneLeftOut
  <2> QED BY <1>1, <2>1, <2>2 DEF Covered, Tries
<1> QED BY <1>4, <1>5 DEF Disciplined

(* Every step keeps the order of every worker's attempts. *)
LEMMA OrderStep ==
    FlowTypeOK /\ AllDisciplined /\ [Next]_vars => AllDisciplined'
<1> SUFFICES ASSUME FlowTypeOK, AllDisciplined, [Next]_vars, NEW w \in Workers
             PROVE  Disciplined(w)'
  BY DEF AllDisciplined
<1>d. \A v \in Workers : Disciplined(v)
  BY DEF AllDisciplined
<1>s. ASSUME /\ at'[w] = at[w] /\ last'[w] = last[w]
             /\ tried'[w] = tried[w] /\ skipped'[w] = skipped[w]
             /\ pc'[w] = pc[w] \/ (pc[w] # "done" /\ pc'[w] # "done")
      PROVE  Disciplined(w)'
  BY <1>s, <1>d DEF Disciplined, InOrder, NoneLeftOut, Covered, Tries
<1>1. ASSUME NEW u \in Workers,
             \/ Choose(u) \/ Launch(u) \/ ReadFile(u) \/ OpenTmp(u)
             \/ WriteTmp(u) \/ Rename(u) \/ RenameFails(u)
      PROVE Disciplined(w)'
  <2>1. /\ UNCHANGED <<at, last, tried, skipped>>
        /\ pc[u] # "done" /\ pc'[u] # "done"
        /\ u # w => pc'[w] = pc[w]
    BY <1>1 DEF FlowTypeOK, Choose, Launch, ReadFile, OpenTmp, WriteTmp, Rename,
                RenameFails, GoTo
  <2> QED BY <1>s, <2>1
<1>2. ASSUME NEW u \in Workers, PassOver(u), pc[u] # "done" PROVE Disciplined(w)'
  <2>1. CASE u = w
    BY <1>2, <1>d, <2>1, PassOverOrder
  <2>2. CASE u # w
    BY <1>2, <1>s, <2>2 DEF FlowTypeOK, PassOver, GoTo
  <2> QED BY <2>1, <2>2
<1>3. ASSUME NEW u \in Workers, NEW r \in Results, Ended(u, r), pc[u] # "done"
      PROVE  Disciplined(w)'
  <2>1. CASE u = w
    BY <1>3, <1>d, <2>1, EndedOrder
  <2>2. CASE u # w
    BY <1>3, <1>s, <2>2 DEF FlowTypeOK, Ended, GoTo
  <2> QED BY <2>1, <2>2
<1>4. ASSUME NEW u \in Workers, ChooseUnusable(u) \/ ReadFails(u) \/ Discard(u)
      PROVE  Disciplined(w)'
  BY <1>2, <1>4 DEF ChooseUnusable, ReadFails, Discard
<1>5. ASSUME NEW u \in Workers, LaunchRefused(u) PROVE Disciplined(w)'
  BY <1>3, <1>5 DEF LaunchRefused, Results
<1>6. ASSUME NEW u \in Workers, NEW r \in Results, Finish(u, r) PROVE Disciplined(w)'
  BY <1>3, <1>6 DEF Finish
<1>7. ASSUME NEW u \in Workers, Cancel(u) PROVE Disciplined(w)'
  BY <1>7, <1>s DEF Cancel
<1>8. CASE UNCHANGED vars
  BY <1>8, <1>s
<1> QED BY ONLY [Next]_vars, <1>1, <1>4, <1>5, <1>6, <1>7, <1>8 DEF Next, Step

(* Only a key error is retried, in the order of the config, and the answer is
   the last attempt's: runner.go, execute. *)
THEOREM OnlyKeyErrorsAreRetried == Spec => []RetriesOnlyKeyErrors
<1>1. AllDisciplined => RetriesOnlyKeyErrors
  BY DEF AllDisciplined, Disciplined, InOrder, RetriesOnlyKeyErrors
<1> QED BY <1>1, TypeInit, FlowTypeStep, OrderInit, OrderStep, PTL DEF Spec

(* execute answers with a key error only when no key and no credential is left
   untried that could be put in place. *)
THEOREM KeyErrorMeansExhausted == Spec => []GivesUpExhausted
<1>1. AllDisciplined => GivesUpExhausted
  BY DEF AllDisciplined, Disciplined, NoneLeftOut, Covered, Tries, GivesUpExhausted
<1> QED BY <1>1, TypeInit, FlowTypeStep, OrderInit, OrderStep, PTL DEF Spec

-----------------------------------------------------------------------------
(* A worker without rivals at the credentials file                         *)

Reached(v) == \E i \in 1 .. at[v] : Kind(i) = "login"
Unrivalled(w) == \A v \in Workers \ {w} : ~Reached(v)

(* Only a worker whose attempt is a login is in swapCredential. *)
Swapping == {"read", "open", "write", "rename", "discard"}
AtLogin(v) == pc[v] \in Swapping => Kind(at[v]) = "login"

(* What the files are then: as the worker has left them. *)
OwnFiles(w) ==
    /\ Whole(content[credFile])
    /\ pc[w] # "discard"
    /\ \A n \in skipped[w] : Kind(n) # "login"
    /\ pc[w] \notin {"write", "rename"} => tmpFile = NoInode
    /\ pc[w] = "write" => /\ tmpFile = fd[w] /\ fd[w] \in Inodes /\ fd[w] # credFile
                          /\ content[fd[w]].size = 0
    /\ pc[w] = "rename" => tmpFile \in Inodes /\ tmpFile # credFile /\ Whole(content[tmpFile])

SoleInv == \A w \in Workers : AtLogin(w) /\ (Unrivalled(w) => OwnFiles(w))

LEMMA SoleInit == Init => SoleInv
<1> SUFFICES ASSUME Init, NEW w \in Workers
             PROVE  AtLogin(w) /\ OwnFiles(w)
  BY DEF SoleInv
<1>1. credFile \in Inodes /\ content[credFile].text = Count + 1
  BY InodeAssumption DEF Init, Original
<1>2. Whole(content[credFile])
  BY <1>1, CountIsPositive DEF Whole, NoText, Garbled
<1> QED BY <1>2 DEF Init, AtLogin, Swapping, OwnFiles

(* What a step of worker u does to the flow: the index only grows, the others
   stay where they are. *)
LEMMA FlowFrame ==
    ASSUME FlowTypeOK, NEW u \in Workers, Step(u) \/ Cancel(u)
    PROVE  /\ at'[u] = at[u] \/ at'[u] = at[u] + 1
           /\ \A v \in Workers \ {u} : at'[v] = at[v] /\ pc'[v] = pc[v] /\ skipped'[v] = skipped[v]
<1>1. ASSUME PassOver(u)
      PROVE  /\ at'[u] = at[u] \/ at'[u] = at[u] + 1
             /\ \A v \in Workers \ {u} : at'[v] = at[v] /\ pc'[v] = pc[v] /\ skipped'[v] = skipped[v]
  BY <1>1 DEF PassOver, GoTo, FlowTypeOK
<1>2. ASSUME NEW r, Ended(u, r)
      PROVE  /\ at'[u] = at[u] \/ at'[u] = at[u] + 1
             /\ \A v \in Workers \ {u} : at'[v] = at[v] /\ pc'[v] = pc[v] /\ skipped'[v] = skipped[v]
  BY <1>2 DEF Ended, GoTo, FlowTypeOK
<1>3. CASE \/ Choose(u) \/ Launch(u) \/ ReadFile(u) \/ OpenTmp(u)
           \/ WriteTmp(u) \/ Rename(u) \/ RenameFails(u) \/ Cancel(u)
  BY <1>3 DEF Choose, Launch, ReadFile, OpenTmp, WriteTmp, Rename, RenameFails, Cancel, GoTo, FlowTypeOK
<1>4. CASE ChooseUnusable(u) \/ ReadFails(u) \/ Discard(u)
  BY <1>4, <1>1 DEF ChooseUnusable, ReadFails, Discard
<1>5. CASE LaunchRefused(u) \/ \E r \in Results : Finish(u, r)
  BY <1>5, <1>2 DEF LaunchRefused, Finish
<1> QED BY <1>3, <1>4, <1>5 DEF Step

LEMMA ReachedStays ==
    ASSUME FlowTypeOK, NEW u \in Workers, Step(u) \/ Cancel(u), NEW v \in Workers, Reached(v)
    PROVE  Reached(v)'
<1>1. at'[v] = at[v] \/ at'[v] = at[v] + 1
  BY FlowFrame
<1>2. at[v] \in 1 .. Count
  BY DEF FlowTypeOK
<1>3. PICK i \in 1 .. at[v] : Kind(i) = "login"
  BY DEF Reached
<1>4. i \in 1 .. at'[v]
  BY <1>1, <1>2, CountIsPositive
<1> QED BY <1>3, <1>4 DEF Reached

(* Entering swapCredential takes a login, and it is left when the index moves. *)
LEMMA AtLoginStep ==
    ASSUME FlowTypeOK, NEW u \in Workers, AtLogin(u), Step(u) \/ Cancel(u)
    PROVE  AtLogin(u)'
<1>1. CASE Choose(u)
  BY <1>1 DEF Choose, GoTo, AtLogin, Swapping, FlowTypeOK
<1>2. CASE \/ Launch(u) \/ ReadFile(u) \/ OpenTmp(u)
           \/ WriteTmp(u) \/ Rename(u) \/ RenameFails(u) \/ Cancel(u)
  BY <1>2 DEF Launch, ReadFile, OpenTmp, WriteTmp, Rename, RenameFails, Cancel, GoTo,
              AtLogin, Swapping, FlowTypeOK
<1>3. CASE ChooseUnusable(u) \/ ReadFails(u) \/ Discard(u)
  BY <1>3 DEF ChooseUnusable, ReadFails, Discard, PassOver, GoTo, AtLogin, Swapping, FlowTypeOK
<1>4. CASE LaunchRefused(u) \/ \E r \in Results : Finish(u, r)
  BY <1>4 DEF LaunchRefused, Finish, Ended, GoTo, AtLogin, Swapping, FlowTypeOK
<1> QED BY <1>1, <1>2, <1>3, <1>4 DEF Step

(* A worker that is in no swap leaves the files alone. *)
LEMMA OutsideSwap ==
    ASSUME NEW u \in Workers, Step(u) \/ Cancel(u), pc[u] \notin Swapping
    PROVE  UNCHANGED fileVars
<1>1. CASE Choose(u) \/ Launch(u) \/ ChooseUnusable(u) \/ LaunchRefused(u) \/ Cancel(u)
  BY <1>1 DEF Choose, Launch, ChooseUnusable, LaunchRefused, Ended, Cancel
<1>2. CASE \E r \in Results : Finish(u, r)
  BY <1>2 DEF Finish, Ended
<1>3. ~(ReadFile(u) \/ ReadFails(u) \/ OpenTmp(u) \/ WriteTmp(u) \/ Rename(u)
        \/ RenameFails(u) \/ Discard(u))
  BY DEF ReadFile, ReadFails, OpenTmp, WriteTmp, Rename, RenameFails, Discard, Swapping
<1> QED BY <1>1, <1>2, <1>3 DEF Step

(* Writing from the start of an empty file of one's own leaves exactly the text. *)
LEMMA OwnWrite ==
    ASSUME FlowTypeOK, FileTypeOK, NEW w \in Workers, OwnFiles(w), WriteTmp(w)
    PROVE  content'[tmpFile].text = at[w] /\ content'[credFile] = content[credFile]
<1>1. tmpFile = fd[w] /\ fd[w] \in Inodes /\ fd[w] # credFile /\ content[fd[w]].size = 0
  BY DEF WriteTmp, OwnFiles
<1>2. at[w] \in 1 .. Count /\ SizeOf[at[w]] \in Nat
  BY SizeOfAssumption DEF FlowTypeOK
<1>3. ~(content[fd[w]].size > SizeOf[at[w]])
  BY <1>1, <1>2
<1>4. content' = [content EXCEPT ![fd[w]] =
          IF content[fd[w]].size > SizeOf[at[w]]
          THEN [text |-> Garbled, size |-> content[fd[w]].size]
          ELSE [text |-> at[w], size |-> SizeOf[at[w]]]]
  BY Zenon DEF WriteTmp
<1>5. content' = [content EXCEPT ![fd[w]] = [text |-> at[w], size |-> SizeOf[at[w]]]]
  BY <1>3, <1>4, Zenon
<1> QED BY <1>1, <1>5 DEF FileTypeOK

(* The worker's own steps. *)
LEMMA OwnStep ==
    ASSUME FlowTypeOK, FileTypeOK, NEW w \in Workers, AtLogin(w), OwnFiles(w),
           Step(w) \/ Cancel(w)
    PROVE  OwnFiles(w)'
<1>1. CASE Choose(w) \/ Launch(w) \/ Cancel(w) \/ ReadFile(w)
  BY <1>1 DEF Choose, Launch, Cancel, ReadFile, GoTo, OwnFiles, FlowTypeOK
<1>2. CASE ChooseUnusable(w)
  BY <1>2 DEF ChooseUnusable, PassOver, GoTo, OwnFiles, FlowTypeOK
<1>3. CASE LaunchRefused(w) \/ \E r \in Results : Finish(w, r)
  BY <1>3 DEF LaunchRefused, Finish, Ended, GoTo, OwnFiles, FlowTypeOK
<1>4. ~(ReadFails(w) \/ RenameFails(w) \/ Discard(w))
  BY InodeAssumption DEF ReadFails, RenameFails, Discard, OwnFiles
<1>5. CASE OpenTmp(w)
  <2>1. tmpFile = NoInode /\ pc'[w] = "write" /\ credFile' = credFile /\ skipped' = skipped
    BY <1>5 DEF OpenTmp, OwnFiles, GoTo, FlowTypeOK
  <2>2. PICK i \in Inodes : /\ i # credFile /\ tmpFile' = i /\ fd' = [fd EXCEPT ![w] = i]
                            /\ content' = [content EXCEPT ![i] = [text |-> NoText, size |-> 0]]
    BY <1>5, <2>1 DEF OpenTmp, Free
  <2>3. fd'[w] = i /\ content'[i].size = 0 /\ content'[credFile] = content[credFile]
    BY <2>2 DEF FileTypeOK
  <2> QED BY <2>1, <2>2, <2>3 DEF OwnFiles
<1>6. CASE WriteTmp(w)
  <2>1. /\ pc'[w] = "rename" /\ credFile' = credFile /\ tmpFile' = tmpFile /\ skipped' = skipped
        /\ tmpFile = fd[w] /\ fd[w] \in Inodes /\ fd[w] # credFile
    BY <1>6 DEF WriteTmp, OwnFiles, GoTo, FlowTypeOK
  <2>2. at[w] \in 1 .. Count
    BY DEF FlowTypeOK
  <2>3. content'[tmpFile].text = at[w] /\ content'[credFile] = content[credFile]
    BY <1>6, OwnWrite
  <2>4. Whole(content'[tmpFile])
    BY <2>2, <2>3, CountIsPositive DEF Whole, NoText, Garbled
  <2> QED BY <2>1, <2>3, <2>4 DEF OwnFiles
<1>7. CASE Rename(w)
  BY <1>7 DEF Rename, GoTo, OwnFiles, FlowTypeOK
<1> QED BY <1>1, <1>2, <1>3, <1>4, <1>5, <1>6, <1>7 DEF Step

(* The others leave the files to a worker without rivals. *)
LEMMA RivalsStayOut ==
    ASSUME FlowTypeOK, NEW w \in Workers, Unrivalled(w),
           NEW u \in Workers \ {w}, AtLogin(u), Step(u) \/ Cancel(u)
    PROVE  UNCHANGED fileVars
<1>1. ~Reached(u) /\ at[u] \in 1 .. Count
  BY DEF Unrivalled, FlowTypeOK
<1>2. Kind(at[u]) # "login"
  BY <1>1, CountIsPositive DEF Reached
<1> QED BY <1>2, OutsideSwap DEF AtLogin

LEMMA SoleStep == FlowTypeOK /\ FileTypeOK /\ SoleInv /\ [Next]_vars => SoleInv'
<1> SUFFICES ASSUME FlowTypeOK, FileTypeOK, SoleInv, [Next]_vars, NEW w \in Workers
             PROVE  AtLogin(w)' /\ (Unrivalled(w)' => OwnFiles(w)')
  BY DEF SoleInv
<1>1. ASSUME NEW u \in Workers, Step(u) \/ Cancel(u)
      PROVE  AtLogin(w)' /\ (Unrivalled(w)' => OwnFiles(w)')
  <2>1. AtLogin(w)'
    BY <1>1, AtLoginStep, FlowFrame DEF SoleInv, AtLogin
  <2>2. Unrivalled(w)' => Unrivalled(w)
    BY <1>1, ReachedStays DEF Unrivalled
  <2>3. ASSUME Unrivalled(w), u = w
        PROVE  OwnFiles(w)'
    BY <1>1, <2>3, OwnStep DEF SoleInv
  <2>4. ASSUME Unrivalled(w), u # w
        PROVE  OwnFiles(w)'
    <3>1. UNCHANGED fileVars
      BY <1>1, <2>4, RivalsStayOut DEF SoleInv
    <3>2. pc'[w] = pc[w] /\ skipped'[w] = skipped[w]
      BY <1>1, <2>4, FlowFrame
    <3> QED BY <2>4, <3>1, <3>2 DEF SoleInv, OwnFiles
  <2> QED BY <2>1, <2>2, <2>3, <2>4
<1>2. CASE UNCHANGED vars
  BY <1>2 DEF SoleInv, AtLogin, Unrivalled, Reached, OwnFiles
<1> QED BY <1>1, <1>2 DEF Next

(* A worker that no other has met at the credentials file gets to use every
   login: credentials.go's swap fails only by another worker's doing. *)
THEOREM SwapsFailInCompanyOnly == Spec => []NoSwapFailsAlone
<1>1. FlowTypeOK /\ SoleInv => NoSwapFailsAlone
  BY DEF SoleInv, OwnFiles, Unrivalled, Reached, NoSwapFailsAlone
<1> QED BY <1>1, TypeInit, FlowTypeStep, FileTypeStep, SoleInit, SoleStep, PTL DEF Spec
(* A worker whose claude process is about to start, or runs, at a login.    *)

RunsLogin(w) == pc[w] \in {"ready", "running"} /\ Kind(at[w]) = "login"

HasOwnLogin(w) == RunsLogin(w) => content[credFile].text = at[w]

OwnLogin(w) ==
    /\ pc[w] = "rename" => content[tmpFile].text = at[w]
    /\ HasOwnLogin(w)

(* The worker's own steps, when what it finds are its own files. *)
LEMMA OwnLoginStep ==
    ASSUME FlowTypeOK, FileTypeOK, NEW w \in Workers, AtLogin(w), OwnFiles(w), OwnLogin(w),
           Step(w) \/ Cancel(w)
    PROVE  OwnLogin(w)'
<1>1. CASE Choose(w)
  BY <1>1 DEF Choose, GoTo, OwnLogin, HasOwnLogin, RunsLogin, FlowTypeOK
<1>2. CASE Launch(w) \/ ReadFile(w) \/ Cancel(w)
  BY <1>2 DEF Launch, ReadFile, Cancel, GoTo, OwnLogin, HasOwnLogin, RunsLogin, FlowTypeOK
<1>3. CASE ChooseUnusable(w)
  BY <1>3 DEF ChooseUnusable, PassOver, GoTo, OwnLogin, HasOwnLogin, RunsLogin, FlowTypeOK
<1>4. CASE LaunchRefused(w) \/ \E r \in Results : Finish(w, r)
  BY <1>4 DEF LaunchRefused, Finish, Ended, GoTo, OwnLogin, HasOwnLogin, RunsLogin, FlowTypeOK
<1>5. ~(ReadFails(w) \/ RenameFails(w) \/ Discard(w))
  BY InodeAssumption DEF ReadFails, RenameFails, Discard, OwnFiles
<1>6. CASE OpenTmp(w)
  BY <1>6 DEF OpenTmp, GoTo, OwnLogin, HasOwnLogin, RunsLogin, FlowTypeOK
<1>7. CASE WriteTmp(w)
  BY <1>7, OwnWrite DEF WriteTmp, GoTo, OwnLogin, HasOwnLogin, RunsLogin, FlowTypeOK
<1>8. CASE Rename(w)
  BY <1>8 DEF Rename, GoTo, OwnLogin, HasOwnLogin, RunsLogin, FlowTypeOK
<1> QED BY <1>1, <1>2, <1>3, <1>4, <1>5, <1>6, <1>7, <1>8 DEF Step

SoleLogin == \A w \in Workers : Unrivalled(w) => OwnLogin(w)

LEMMA SoleLoginStep ==
    FlowTypeOK /\ FileTypeOK /\ SoleInv /\ SoleLogin /\ [Next]_vars => SoleLogin'
<1> SUFFICES ASSUME FlowTypeOK, FileTypeOK, SoleInv, SoleLogin, [Next]_vars,
                    NEW w \in Workers, Unrivalled(w)'
             PROVE  OwnLogin(w)'
  BY DEF SoleLogin
<1>1. ASSUME NEW u \in Workers, Step(u) \/ Cancel(u)
      PROVE  OwnLogin(w)'
  <2>1. Unrivalled(w)
    BY <1>1, ReachedStays DEF Unrivalled
  <2>2. CASE u = w
    BY <1>1, <2>1, <2>2, OwnLoginStep DEF SoleInv, SoleLogin
  <2>3. CASE u # w
    <3>1. UNCHANGED fileVars
      BY <1>1, <2>1, <2>3, RivalsStayOut DEF SoleInv
    <3>2. pc'[w] = pc[w] /\ at'[w] = at[w]
      BY <1>1, <2>3, FlowFrame
    <3> QED BY <2>1, <3>1, <3>2 DEF SoleLogin, OwnLogin, HasOwnLogin, RunsLogin
  <2> QED BY <2>2, <2>3
<1>2. CASE UNCHANGED vars
  BY <1>2 DEF SoleLogin, OwnLogin, HasOwnLogin, RunsLogin, Unrivalled, Reached
<1> QED BY <1>1, <1>2 DEF Next

(* A claude process runs under another worker's login (runner.go leaves a gap
   between swapCredential and the start of the process, and the process keeps
   reading the file) only when that other worker has come to a login too. *)
THEOREM OwnLoginUnlessRival ==
    Spec => [](\A w \in Workers : ~HasOwnLogin(w) => \E v \in Workers \ {w} : Reached(v))
<1>1. Init => SoleLogin
  BY DEF Init, SoleLogin, OwnLogin, HasOwnLogin, RunsLogin
<1>2. SoleLogin => \A w \in Workers : ~HasOwnLogin(w) => \E v \in Workers \ {w} : Reached(v)
  BY DEF SoleLogin, OwnLogin, Unrivalled
<1> QED BY <1>1, <1>2, TypeInit, FlowTypeStep, FileTypeStep, SoleInit, SoleStep,
           SoleLoginStep, PTL DEF Spec

-----------------------------------------------------------------------------
(* Workers that do not meet between os.WriteFile and os.Rename             *)

Apart(v, w) == pc[v] \in {"write", "rename"} /\ pc[w] \in {"write", "rename"} => v = w
SwapsApart  == \A v, w \in Workers : Apart(v, w)

(* The temporary file is one worker's own: empty, then whole, then gone. *)
OwnTmp(w) ==
    /\ pc[w] = "write" => /\ tmpFile = fd[w] /\ fd[w] \in Inodes /\ fd[w] # credFile
                          /\ content[fd[w]].size = 0
    /\ pc[w] = "rename" => /\ tmpFile \in Inodes /\ tmpFile # credFile
                           /\ content[tmpFile].text = at[w]

(* No step that a failed swap takes is ever taken. *)
NoneFails(w) == pc[w] # "discard" /\ \A n \in skipped[w] : Kind(n) # "login"

SwapInv ==
    /\ CredentialsFileWhole
    /\ (\A w \in Workers : pc[w] \notin {"write", "rename"}) => tmpFile = NoInode
    /\ \A w \in Workers : AtLogin(w) /\ OwnTmp(w) /\ NoneFails(w)

LEMMA AttemptIsWhole ==
    ASSUME NEW c, c.text \in 1 .. Count
    PROVE  Whole(c)
BY CountIsPositive DEF Whole, NoText, Garbled

LEMMA SwapInit == Init => SwapInv
<1> SUFFICES ASSUME Init PROVE SwapInv
  OBVIOUS
<1>1. credFile \in Inodes /\ content[credFile].text = Count + 1
  BY InodeAssumption DEF Init, Original
<1>2. CredentialsFileWhole
  BY <1>1, CountIsPositive DEF CredentialsFileWhole, Whole, NoText, Garbled
<1> QED BY <1>2 DEF Init, SwapInv, AtLogin, Swapping, OwnTmp, NoneFails

(* A step that is not of the swap itself. *)
LEMMA SwapFrame ==
    ASSUME FlowTypeOK, SwapInv, NEW u \in Workers, Step(u) \/ Cancel(u),
           UNCHANGED fileVars,
           pc[u] \notin {"write", "rename"}, pc'[u] \notin {"write", "rename"},
           NoneFails(u)'
    PROVE  SwapInv'
<1>1. \A w \in Workers \ {u} : pc'[w] = pc[w] /\ at'[w] = at[w] /\ skipped'[w] = skipped[w]
  BY FlowFrame
<1>2. AtLogin(u)'
  BY AtLoginStep DEF SwapInv
<1> QED BY <1>1, <1>2 DEF SwapInv, CredentialsFileWhole, Whole, AtLogin, OwnTmp, NoneFails

LEMMA SwapStep ==
    ASSUME FlowTypeOK, FileTypeOK, SwapInv, SwapsApart, SwapsApart', [Next]_vars
    PROVE  SwapInv'
<1>1. ASSUME NEW u \in Workers, Step(u) \/ Cancel(u)
      PROVE  SwapInv'
  <2>1. \A w \in Workers \ {u} : pc'[w] = pc[w] /\ at'[w] = at[w] /\ skipped'[w] = skipped[w]
    BY <1>1, FlowFrame
  <2>2. AtLogin(u)' /\ \A w \in Workers \ {u} : AtLogin(w)'
    BY <1>1, <2>1, AtLoginStep DEF SwapInv, AtLogin
  <2>3. CASE Choose(u) \/ Launch(u) \/ ReadFile(u)
    BY <1>1, <2>3, SwapFrame
    DEF Choose, Launch, ReadFile, GoTo, FlowTypeOK, SwapInv, NoneFails
  <2>4. CASE ChooseUnusable(u)
    BY <1>1, <2>4, SwapFrame
    DEF ChooseUnusable, PassOver, GoTo, FlowTypeOK, SwapInv, NoneFails
  <2>5. CASE LaunchRefused(u) \/ \E r \in Results : Finish(u, r)
    BY <1>1, <2>5, SwapFrame
    DEF LaunchRefused, Finish, Ended, GoTo, FlowTypeOK, SwapInv, NoneFails
  <2>6. ~(ReadFails(u) \/ Discard(u) \/ RenameFails(u))
    BY InodeAssumption
    DEF ReadFails, Discard, RenameFails, SwapInv, NoneFails, CredentialsFileWhole, OwnTmp
  <2>7. CASE Cancel(u)
    <3>1. UNCHANGED <<pc, at, skipped, fileVars>>
      BY <2>7 DEF Cancel
    <3> QED BY <3>1 DEF SwapInv, CredentialsFileWhole, Whole, AtLogin, OwnTmp, NoneFails
  <2>8. CASE OpenTmp(u)
    <3>1. /\ pc[u] = "open" /\ pc'[u] = "write" /\ UNCHANGED <<credFile, at, skipped>>
      BY <2>8 DEF OpenTmp, GoTo, FlowTypeOK
    <3>2. \A w \in Workers : pc[w] \notin {"write", "rename"}
      BY <2>1, <3>1 DEF SwapsApart, Apart
    <3>3. PICK i \in Inodes : /\ i # credFile /\ tmpFile' = i /\ fd' = [fd EXCEPT ![u] = i]
                              /\ content' = [content EXCEPT ![i] = [text |-> NoText, size |-> 0]]
      BY <2>8, <3>2 DEF OpenTmp, Free, SwapInv
    <3>4. fd'[u] = i /\ content'[i].size = 0 /\ content'[credFile] = content[credFile]
      BY <3>3 DEF FileTypeOK
    <3> QED BY <2>1, <2>2, <3>1, <3>2, <3>3, <3>4
            DEF SwapInv, CredentialsFileWhole, OwnTmp, NoneFails, Whole
  <2>9. CASE WriteTmp(u)
    <3>1. /\ pc[u] = "write" /\ pc'[u] = "rename" /\ UNCHANGED <<credFile, tmpFile, at, skipped>>
          /\ tmpFile = fd[u] /\ fd[u] \in Inodes /\ fd[u] # credFile /\ content[fd[u]].size = 0
      BY <2>9 DEF WriteTmp, GoTo, FlowTypeOK, SwapInv, OwnTmp
    <3>2. SizeOf[at[u]] \in Nat
      BY SizeOfAssumption DEF FlowTypeOK
    <3>3. content' = [content EXCEPT ![fd[u]] = [text |-> at[u], size |-> SizeOf[at[u]]]]
      <4>1. ~(content[fd[u]].size > SizeOf[at[u]])
        BY <3>1, <3>2
      <4>2. content' = [content EXCEPT ![fd[u]] =
                IF content[fd[u]].size > SizeOf[at[u]]
                THEN [text |-> Garbled, size |-> content[fd[u]].size]
                ELSE [text |-> at[u], size |-> SizeOf[at[u]]]]
        BY <2>9, Zenon DEF WriteTmp
      <4> QED BY <4>1, <4>2, Zenon
    <3>4. content'[tmpFile].text = at[u] /\ content'[credFile] = content[credFile]
      BY <3>1, <3>3 DEF FileTypeOK
    <3>5. \A w \in Workers \ {u} : pc[w] \notin {"write", "rename"}
      BY <3>1 DEF SwapsApart, Apart
    <3> QED BY <2>1, <2>2, <3>1, <3>4, <3>5
            DEF SwapInv, CredentialsFileWhole, OwnTmp, NoneFails, Whole
  <2>10. CASE Rename(u)
    <3>1. /\ pc[u] = "rename" /\ pc'[u] = "ready" /\ UNCHANGED <<content, at, skipped>>
          /\ credFile' = tmpFile /\ tmpFile' = NoInode /\ content[tmpFile].text = at[u]
      BY <2>10 DEF Rename, GoTo, FlowTypeOK, SwapInv, OwnTmp
    <3>2. Whole(content[tmpFile])
      BY <3>1, AttemptIsWhole DEF FlowTypeOK
    <3>3. \A w \in Workers \ {u} : pc[w] \notin {"write", "rename"}
      BY <3>1 DEF SwapsApart, Apart
    <3> QED BY <2>1, <2>2, <3>1, <3>2, <3>3
            DEF SwapInv, CredentialsFileWhole, OwnTmp, NoneFails
  <2> QED BY <1>1, <2>3, <2>4, <2>5, <2>6, <2>7, <2>8, <2>9, <2>10 DEF Step
<1>2. CASE UNCHANGED vars
  BY <1>2 DEF SwapInv, CredentialsFileWhole, Whole, AtLogin, OwnTmp, NoneFails
<1> QED BY <1>1, <1>2 DEF Next

(* "The write is atomic (temp file + rename)" (credentials.go): it is, as long as
   no two workers are between os.WriteFile and os.Rename at once - which nothing
   in runner.go prevents, see the run credential_swap.  All that is missing is a
   lock around these two calls; with it no swap fails either. *)
THEOREM SwapIsAtomicIfApart ==
    Spec /\ []SwapsApart
        => [](CredentialsFileWhole /\ \A w \in Workers : NoneFails(w))
<1>1. SwapInv => CredentialsFileWhole /\ \A w \in Workers : NoneFails(w)
  BY DEF SwapInv
<1>2. FlowTypeOK /\ FileTypeOK /\ SwapInv /\ SwapsApart /\ SwapsApart' /\ [Next]_vars => SwapInv'
  BY SwapStep
<1> QED BY <1>1, <1>2, TypeInit, FlowTypeStep, FileTypeStep, SwapInit, PTL DEF Spec

(* A bot with one topic at a time has this for nothing. *)
THEOREM SwapIsAtomicAlone ==
    ASSUME \A v, w \in Workers : v = w
    PROVE  Spec => []CredentialsFileWhole
<1>1. SwapsApart
  BY DEF SwapsApart, Apart
<1> QED BY <1>1, SwapIsAtomicIfApart, PTL

-----------------------------------------------------------------------------
(* Workers that do not meet from os.WriteFile to the end of the process *)

UsesFile(w)   == pc[w] \in {"write", "rename"} \/ RunsLogin(w)
LoginsApart   == \A v, w \in Workers : UsesFile(v) /\ UsesFile(w) => v = w
AllOwnLogins  == \A w \in Workers : HasOwnLogin(w)

LEMMA ApartLoginStep ==
    ASSUME FlowTypeOK, FileTypeOK, SwapInv, AllOwnLogins, LoginsApart, LoginsApart', [Next]_vars
    PROVE  AllOwnLogins'
<1> SUFFICES ASSUME NEW w \in Workers, RunsLogin(w)'
             PROVE  content'[credFile'].text = at'[w]
  BY DEF AllOwnLogins, HasOwnLogin
<1>1. ASSUME NEW u \in Workers, Step(u) \/ Cancel(u), u = w
      PROVE  content'[credFile'].text = at'[w]
  <2>1. CASE Rename(w)
    BY <2>1 DEF Rename, GoTo, SwapInv, OwnTmp, FlowTypeOK
  <2>2. CASE Launch(w) \/ Cancel(w)
    BY <2>2 DEF Launch, Cancel, GoTo, RunsLogin, AllOwnLogins, HasOwnLogin, FlowTypeOK
  <2>3. CASE Choose(w)
    BY <2>3 DEF Choose, GoTo, RunsLogin, FlowTypeOK
  <2>4. ~(ReadFile(w) \/ OpenTmp(w) \/ WriteTmp(w) \/ RenameFails(w))
    BY DEF ReadFile, OpenTmp, WriteTmp, RenameFails, GoTo, RunsLogin, FlowTypeOK
  <2>5. ~(ChooseUnusable(w) \/ ReadFails(w) \/ Discard(w))
    BY DEF ChooseUnusable, ReadFails, Discard, PassOver, GoTo, RunsLogin, FlowTypeOK
  <2>6. ~(LaunchRefused(w) \/ \E r \in Results : Finish(w, r))
    BY DEF LaunchRefused, Finish, Ended, GoTo, RunsLogin, FlowTypeOK
  <2> QED BY <1>1, <2>1, <2>2, <2>3, <2>4, <2>5, <2>6 DEF Step
<1>2. ASSUME NEW u \in Workers, Step(u) \/ Cancel(u), u # w
      PROVE  content'[credFile'].text = at'[w]
  <2>1. pc'[w] = pc[w] /\ at'[w] = at[w]
    BY <1>2, FlowFrame
  <2>2. RunsLogin(w) /\ content[credFile].text = at[w]
    BY <2>1 DEF RunsLogin, AllOwnLogins, HasOwnLogin
  <2>3. ~WriteTmp(u) /\ ~Rename(u)
    BY <1>2, <2>2 DEF WriteTmp, Rename, LoginsApart, UsesFile
  <2>4. ~OpenTmp(u)
    BY <1>2 DEF OpenTmp, GoTo, FlowTypeOK, LoginsApart, UsesFile
  <2>5. UNCHANGED <<credFile, content>>
    <3>1. CASE Choose(u) \/ Launch(u) \/ Cancel(u) \/ ReadFile(u) \/ RenameFails(u)
      BY <3>1 DEF Choose, Launch, Cancel, ReadFile, RenameFails
    <3>2. CASE ChooseUnusable(u) \/ ReadFails(u) \/ Discard(u)
      BY <3>2 DEF ChooseUnusable, ReadFails, Discard
    <3>3. CASE LaunchRefused(u) \/ \E r \in Results : Finish(u, r)
      BY <3>3 DEF LaunchRefused, Finish, Ended
    <3> QED BY <1>2, <2>3, <2>4, <3>1, <3>2, <3>3 DEF Step
  <2> QED BY <2>1, <2>2, <2>5
<1>3. CASE UNCHANGED vars
  BY <1>3 DEF AllOwnLogins, HasOwnLogin, RunsLogin
<1> QED BY <1>1, <1>2, <1>3 DEF Next

(* How far the exclusion would have to reach: with one worker at a time between
   os.WriteFile and the end of the process that reads the file, every process
   that was started for a login runs under that login (runner.go, execute). *)
THEOREM OwnLoginIfApart == Spec /\ []LoginsApart => []AllOwnLogins
<1>1. LoginsApart => SwapsApart
  BY DEF LoginsApart, SwapsApart, UsesFile, Apart
<1>2. Init => AllOwnLogins
  BY DEF Init, AllOwnLogins, HasOwnLogin, RunsLogin
<1>3. FlowTypeOK /\ FileTypeOK /\ SwapInv /\ SwapsApart /\ SwapsApart' /\ [Next]_vars => SwapInv'
  BY SwapStep
<1>4. /\ FlowTypeOK /\ FileTypeOK /\ SwapInv /\ AllOwnLogins
      /\ LoginsApart /\ LoginsApart' /\ [Next]_vars
      => AllOwnLogins'
  BY ApartLoginStep
<1> QED BY <1>1, <1>2, <1>3, <1>4, TypeInit, FlowTypeStep, FileTypeStep, SwapInit, PTL DEF Spec

-----------------------------------------------------------------------------
(* Every execution gets on                                                 *)

Stage == [choose |-> 8, read |-> 7, open |-> 6, write |-> 5, rename |-> 4,
          discard |-> 3, ready |-> 2, running |-> 1, done |-> 0]

(* How many steps a worker has left at most. *)
Rank(w) == 9 * (Count - at[w]) + Stage[pc[w]]

LEMMA RankRange ==
    ASSUME NEW n \in 1 .. Count, NEW where \in PcStates
    PROVE  9 * (Count - n) + Stage[where] \in 0 .. 9 * Count - 1
<1>1. Count \in Nat
  BY CountIsPositive
<1>2. Stage[where] \in 0 .. 8
  BY DEF PcStates, Stage
<1> QED BY <1>1, <1>2

LEMMA StepRank ==
    ASSUME FlowTypeOK, NEW w \in Workers, Step(w)
    PROVE  Rank(w)' < Rank(w)
<1>1. at[w] \in 1 .. Count /\ Count \in Nat
  BY CountIsPositive DEF FlowTypeOK
<1>2. CASE at'[w] = at[w] /\ Stage[pc'[w]] < Stage[pc[w]] /\ Stage[pc[w]] \in 0 .. 8
           /\ Stage[pc'[w]] \in 0 .. 8
  BY <1>1, <1>2 DEF Rank
<1>3. CASE at'[w] = at[w] + 1 /\ pc'[w] = "choose" /\ Stage[pc[w]] \in 0 .. 8
  BY <1>1, <1>3 DEF Rank, Stage
<1>4. ASSUME PassOver(w), pc[w] \in {"choose", "read", "discard"}
      PROVE  Rank(w)' < Rank(w)
  <2>1. CASE at[w] < Count
    BY <1>3, <1>4, <2>1 DEF PassOver, GoTo, FlowTypeOK, Stage
  <2>2. CASE ~(at[w] < Count)
    BY <1>2, <1>4, <2>2 DEF PassOver, GoTo, FlowTypeOK, Stage
  <2> QED BY <2>1, <2>2
<1>5. ASSUME NEW r, Ended(w, r), pc[w] \in {"ready", "running"}
      PROVE  Rank(w)' < Rank(w)
  <2>1. CASE r = "keyError" /\ at[w] < Count
    BY <1>3, <1>5, <2>1 DEF Ended, GoTo, FlowTypeOK, Stage
  <2>2. CASE ~(r = "keyError" /\ at[w] < Count)
    BY <1>2, <1>5, <2>2 DEF Ended, GoTo, FlowTypeOK, Stage
  <2> QED BY <2>1, <2>2
<1>6. CASE Choose(w) \/ Launch(w) \/ ReadFile(w)
  BY <1>2, <1>6 DEF Choose, Launch, ReadFile, GoTo, FlowTypeOK, Stage
<1>7. CASE OpenTmp(w) \/ WriteTmp(w) \/ Rename(w) \/ RenameFails(w)
  BY <1>2, <1>7 DEF OpenTmp, WriteTmp, Rename, RenameFails, GoTo, FlowTypeOK, Stage
<1>8. CASE ChooseUnusable(w) \/ ReadFails(w) \/ Discard(w)
  BY <1>4, <1>8 DEF ChooseUnusable, ReadFails, Discard
<1>9. CASE LaunchRefused(w) \/ \E r \in Results : Finish(w, r)
  BY <1>5, <1>9 DEF LaunchRefused, Finish
<1> QED BY <1>6, <1>7, <1>8, <1>9 DEF Step

(* Neither a cancellation nor another worker puts a worker back. *)
NoneFallsBack == \A w \in Workers : Rank(w)' <= Rank(w) /\ (Step(w) => Rank(w)' < Rank(w))

LEMMA RankStep == FlowTypeOK /\ [Next]_vars => NoneFallsBack
<1> SUFFICES ASSUME FlowTypeOK, [Next]_vars, NEW w \in Workers
             PROVE  Rank(w)' <= Rank(w) /\ (Step(w) => Rank(w)' < Rank(w))
  BY DEF NoneFallsBack
<1>1. Rank(w) \in Nat
  BY RankRange, CountIsPositive DEF FlowTypeOK, Rank
<1>2. Step(w) => Rank(w)' < Rank(w)
  BY StepRank
<1>3. Rank(w)' \in Nat
  <2>1. at'[w] \in 1 .. Count /\ pc'[w] \in PcStates
    BY FlowTypeStep DEF FlowTypeOK
  <2>2. Rank(w)' = 9 * (Count - at'[w]) + Stage[pc'[w]]
    BY DEF Rank, Stage
  <2>3. 9 * (Count - at'[w]) + Stage[pc'[w]] \in 0 .. 9 * Count - 1
    BY <2>1, RankRange
  <2> QED BY <2>2, <2>3, CountIsPositive
<1>4. ASSUME ~Step(w) PROVE Rank(w)' = Rank(w)
  <2>1. UNCHANGED <<at[w], pc[w]>>
    <3>1. CASE UNCHANGED vars
      BY <3>1
    <3>2. ASSUME NEW u \in Workers, Step(u) \/ Cancel(u) PROVE UNCHANGED <<at[w], pc[w]>>
      BY <1>4, <3>2, FlowFrame DEF Cancel
    <3> QED BY <3>1, <3>2 DEF Next
  <2> QED BY <2>1 DEF Rank
<1> QED BY <1>1, <1>2, <1>3, <1>4

(* The half of EveryExecutionEnds that needs no fairness: execute takes at most
   9 steps for each key and credential - no cycle of failing swaps, key errors
   and cancellations, of its own or of other workers, keeps it going. *)
THEOREM ExecutionsAreBounded ==
    Spec => /\ [](\A w \in Workers : Rank(w) \in 0 .. 9 * Count - 1)
            /\ [][NoneFallsBack]_vars
<1>1. FlowTypeOK => \A w \in Workers : Rank(w) \in 0 .. 9 * Count - 1
  BY RankRange DEF FlowTypeOK, Rank
<1> QED BY <1>1, TypeInit, FlowTypeStep, RankStep, PTL DEF Spec
===============================================================================

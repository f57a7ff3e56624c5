--------------------------- MODULE ExecuteFallback ---------------------------
(***************************************************************************)
(* How runner.execute works through API keys and OAuth credentials when    *)
(* the claude CLI reports a key, quota or login failure                    *)
(* (internal/runner/runner.go), and how the workers of several topics swap *)
(* the one ~/.claude/.credentials.json meanwhile                           *)
(* (internal/runner/credentials.go).                                       *)
(*                                                                         *)
(* Of the file only what the interleaving of its writers shows is kept:    *)
(* the path and its ".tmp" neighbour are names for inodes, an inode has a  *)
(* text and a length, and open, write and rename are separate system       *)
(* calls.  They do not fail by themselves.                                 *)
(***************************************************************************)
EXTENDS Integers, Sequences, FiniteSets

CONSTANTS
    Workers,    \* queue keys whose jobs are executed at the same time
    KeyCount,   \* API keys of the bot; without any, one attempt without a key
    Creds,      \* its OAuth credentials, in the order of the config
    SizeOf,     \* SizeOf[n]: length of the file once attempt n's login is in it
    Inodes, NoInode

ASSUME KeyCountAssumption == KeyCount \in Nat \ {0}
ASSUME CredsAssumption    == Creds \in Seq({"login", "token", "unusable"})
ASSUME InodeAssumption    == NoInode \notin Inodes /\ Inodes # {}

(* The attempts are numbered: first the keys, then the credentials. *)
Count   == KeyCount + Len(Creds)
Kind(n) == IF n <= KeyCount THEN "key" ELSE Creds[n - KeyCount]

ASSUME SizeOfAssumption == SizeOf \in [1 .. Count -> Nat]

VARIABLES
    pc,        \* pc[w]: where worker w is in execute
    at,        \* at[w]: the attempt it is at
    last,      \* last[w]: lastResult, as far as execute tells results apart
    ctxDone,   \* workers whose job has been cancelled
    fd,        \* fd[w]: the inode os.WriteFile has open
    credFile,  \* the inode ~/.claude/.credentials.json names
    tmpFile,   \* the inode ~/.claude/.credentials.json.tmp names, or NoInode
    content,   \* content[i]: whose text inode i holds, and how long it is
    \* History, read by no action:
    tried,     \* tried[w]: the attempts made and how each ended
    skipped    \* skipped[w]: the credentials passed over

flowVars == <<pc, at, last, ctxDone>>
fileVars == <<fd, credFile, tmpFile, content>>
history  == <<tried, skipped>>
vars == <<flowVars, fileVars, history>>

PcStates == {"choose", "read", "open", "write", "rename", "discard",
             "ready", "running", "done"}
Results  == {"ok", "keyError", "error"}
NoText == 0
Garbled == -1
Original == Count + 1     \* the text the file had first
Whole(c) == c.text \notin {NoText, Garbled}

Init ==
    /\ pc = [w \in Workers |-> "choose"]
    /\ at = [w \in Workers |-> 1]
    /\ last = [w \in Workers |-> "none"]
    /\ ctxDone = {}
    /\ fd = [w \in Workers |-> NoInode]
    /\ credFile = CHOOSE i \in Inodes : TRUE
    /\ tmpFile = NoInode
    /\ content = [i \in Inodes |-> [text |-> IF i = credFile THEN Original ELSE NoText,
                                    size |-> 0]]
    /\ tried = [w \in Workers |-> <<>>]
    /\ skipped = [w \in Workers |-> {}]

-----------------------------------------------------------------------------
(* Seeded faults.  No specification uses these: each is a plausible slip in the
   definition it is named after, and shows that a property would notice it. *)

(* The loop's index runs past the last credential. *)
PassOver_NoBound(w) ==
    /\ skipped' = [skipped EXCEPT ![w] = @ \cup {at[w]}]
    /\ at' = [at EXCEPT ![w] = @ + 1]
    /\ pc' = [pc EXCEPT ![w] = IF at[w] < Count THEN "choose" ELSE "done"]
    /\ UNCHANGED <<last, ctxDone, tried>>

(* The same credential is looked at again. *)
PassOver_SameAgain(w) ==
    /\ skipped' = [skipped EXCEPT ![w] = @ \cup {at[w]}]
    /\ pc' = [pc EXCEPT ![w] = IF at[w] < Count THEN "choose" ELSE "done"]
    /\ UNCHANGED <<at, last, ctxDone, tried>>

(* Every failure is retried, not only a key error. *)
Ended_RetriesAll(w, r) ==
    LET goesOn == r # "ok" /\ at[w] < Count IN
    /\ last' = [last EXCEPT ![w] = r]
    /\ tried' = [tried EXCEPT ![w] = Append(@, [attempt |-> at[w], result |-> r])]
    /\ at' = [at EXCEPT ![w] = IF goesOn THEN @ + 1 ELSE @]
    /\ pc' = [pc EXCEPT ![w] = IF goesOn THEN "choose" ELSE "done"]
    /\ UNCHANGED <<ctxDone, fileVars, skipped>>

(* The last key's failure is returned before the credentials are tried. *)
Ended_KeysOnly(w, r) ==
    LET goesOn == r = "keyError" /\ at[w] < Count /\ at[w] # KeyCount IN
    /\ last' = [last EXCEPT ![w] = r]
    /\ tried' = [tried EXCEPT ![w] = Append(@, [attempt |-> at[w], result |-> r])]
    /\ at' = [at EXCEPT ![w] = IF goesOn THEN @ + 1 ELSE @]
    /\ pc' = [pc EXCEPT ![w] = IF goesOn THEN "choose" ELSE "done"]
    /\ UNCHANGED <<ctxDone, fileVars, skipped>>

(* The credentials file itself is opened; the rename has nothing to rename. *)
OpenTmp_InPlace(w) ==
    /\ pc[w] = "open"
    /\ fd' = [fd EXCEPT ![w] = credFile]
    /\ content' = [content EXCEPT ![credFile] = [text |-> NoText, size |-> 0]]
    /\ pc' = [pc EXCEPT ![w] = "write"]
    /\ UNCHANGED <<at, last, ctxDone, credFile, tmpFile, history>>

-----------------------------------------------------------------------------
(* The two loops of execute *)

GoTo(w, where) == pc' = [pc EXCEPT ![w] = where]

(* A key or a setup token only changes the environment, a full login is swapped
   into the credentials file. *)
Choose(w) ==
    /\ pc[w] = "choose"
    /\ Kind(at[w]) # "unusable"
    /\ GoTo(w, IF Kind(at[w]) = "login" THEN "read" ELSE "ready")
    /\ UNCHANGED <<at, last, ctxDone, fileVars, history>>

(* continue: the next credential, or the end of the loop with lastResult. *)
PassOver(w) ==
    /\ skipped' = [skipped EXCEPT ![w] = @ \cup {at[w]}]
    /\ at' = [at EXCEPT ![w] = IF @ < Count THEN @ + 1 ELSE @]
    /\ GoTo(w, IF at[w] < Count THEN "choose" ELSE "done")
    /\ UNCHANGED <<last, ctxDone, tried>>

ChooseUnusable(w) ==
    /\ pc[w] = "choose"
    /\ Kind(at[w]) = "unusable"
    /\ PassOver(w)
    /\ UNCHANGED fileVars

Launch(w) ==
    /\ pc[w] = "ready"
    /\ w \notin ctxDone
    /\ GoTo(w, "running")
    /\ UNCHANGED <<at, last, ctxDone, fileVars, history>>

(* An attempt has ended: success and failures of the job's own end execute, a
   key error goes on to the next key, then to the credentials. *)
Ended(w, r) ==
    LET goesOn == r = "keyError" /\ at[w] < Count IN
    /\ last' = [last EXCEPT ![w] = r]
    /\ tried' = [tried EXCEPT ![w] = Append(@, [attempt |-> at[w], result |-> r])]
    /\ at' = [at EXCEPT ![w] = IF goesOn THEN @ + 1 ELSE @]
    /\ GoTo(w, IF goesOn THEN "choose" ELSE "done")
    /\ UNCHANGED <<ctxDone, fileVars, skipped>>

(* cmd.Start refuses under a cancelled context. *)
LaunchRefused(w) ==
    /\ pc[w] = "ready"
    /\ w \in ctxDone
    /\ Ended(w, "error")

(* The process ends; what it printed before it was killed is not looked at. *)
Finish(w, r) ==
    /\ pc[w] = "running"
    /\ w \in ctxDone => r # "keyError"
    /\ Ended(w, r)

Cancel(w) ==
    /\ pc[w] # "done"
    /\ w \notin ctxDone
    /\ ctxDone' = ctxDone \cup {w}
    /\ UNCHANGED <<pc, at, last, fileVars, history>>

-----------------------------------------------------------------------------
(* swapCredential *)

ReadFile(w) ==
    /\ pc[w] = "read"
    /\ Whole(content[credFile])
    /\ GoTo(w, "open")
    /\ UNCHANGED <<at, last, ctxDone, fileVars, history>>

ReadFails(w) ==
    /\ pc[w] = "read"
    /\ ~Whole(content[credFile])
    /\ PassOver(w)
    /\ UNCHANGED fileVars

(* os.WriteFile opens the temporary file, creating or emptying it ... *)
Free(i) == i \notin {credFile, tmpFile} /\ \A w \in Workers : fd[w] # i

OpenTmp(w) ==
    /\ pc[w] = "open"
    /\ \E i \in Inodes :
          /\ IF tmpFile = NoInode THEN Free(i) ELSE i = tmpFile
          /\ tmpFile' = i
          /\ fd' = [fd EXCEPT ![w] = i]
          /\ content' = [content EXCEPT ![i] = [text |-> NoText, size |-> 0]]
    /\ GoTo(w, "write")
    /\ UNCHANGED <<at, last, ctxDone, credFile, history>>

(* ... and writes from its start, over whatever is there by now. *)
WriteTmp(w) ==
    /\ pc[w] = "write"
    /\ LET size == SizeOf[at[w]] IN
          content' = [content EXCEPT ![fd[w]] =
              IF @.size > size THEN [text |-> Garbled, size |-> @.size]
                               ELSE [text |-> at[w], size |-> size]]
    /\ fd' = [fd EXCEPT ![w] = NoInode]
    /\ GoTo(w, "rename")
    /\ UNCHANGED <<at, last, ctxDone, credFile, tmpFile, history>>

Rename(w) ==
    /\ pc[w] = "rename"
    /\ tmpFile # NoInode
    /\ credFile' = tmpFile
    /\ tmpFile' = NoInode
    /\ GoTo(w, "ready")
    /\ UNCHANGED <<at, last, ctxDone, fd, content, history>>

(* Another worker's rename has taken the temporary file away. *)
RenameFails(w) ==
    /\ pc[w] = "rename"
    /\ tmpFile = NoInode
    /\ GoTo(w, "discard")
    /\ UNCHANGED <<at, last, ctxDone, fileVars, history>>

(* os.Remove(tmp), whoever has made it, and the error return. *)
Discard(w) ==
    /\ pc[w] = "discard"
    /\ tmpFile' = NoInode
    /\ PassOver(w)
    /\ UNCHANGED <<fd, credFile, content>>

-----------------------------------------------------------------------------
Step(w) ==
    \/ Choose(w) \/ ChooseUnusable(w) \/ Launch(w) \/ LaunchRefused(w)
    \/ \E r \in Results : Finish(w, r)
    \/ ReadFile(w) \/ ReadFails(w) \/ OpenTmp(w) \/ WriteTmp(w)
    \/ Rename(w) \/ RenameFails(w) \/ Discard(w)

Next == \E w \in Workers : Step(w) \/ Cancel(w)

Spec == Init /\ [][Next]_vars

(* Workers run on and claude processes end. *)
FairSpec == Spec /\ \A w \in Workers : WF_vars(Step(w))

-----------------------------------------------------------------------------
(* Properties *)

TypeOK ==
    /\ pc \in [Workers -> PcStates]
    /\ at \in [Workers -> 1 .. Count]
    /\ last \in [Workers -> Results \cup {"none"}]
    /\ ctxDone \subseteq Workers
    /\ fd \in [Workers -> Inodes \cup {NoInode}]
    /\ credFile \in Inodes
    /\ tmpFile \in Inodes \cup {NoInode}
    /\ content \in [Inodes -> [text : Garbled .. Count + 1, size : Nat]]
    /\ tried \in [Workers -> Seq([attempt : 1 .. Count, result : Results])]
    /\ skipped \in [Workers -> SUBSET (1 .. Count)]

(* A job is run again only because of its key: every attempt but the last one
   ended in a key error, each key or credential is used at most once and in the
   order of the config, and the answer is that of the last attempt. *)
RetriesOnlyKeyErrors ==
    \A w \in Workers :
        /\ \A i \in 1 .. Len(tried[w]) - 1 :
              /\ tried[w][i].result = "keyError"
              /\ tried[w][i].attempt < tried[w][i + 1].attempt
        /\ last[w] = IF tried[w] = <<>> THEN "none" ELSE tried[w][Len(tried[w])].result

(* A key error is the answer only when nothing is left: every key was tried,
   and every credential was tried or could not be put in place. *)
GivesUpExhausted ==
    \A w \in Workers : pc[w] = "done" /\ last[w] = "keyError" =>
        \A n \in 1 .. Count : n \in skipped[w] \/ \E i \in 1 .. Len(tried[w]) : tried[w][i].attempt = n

(* A full login is only passed over when other workers are at the file too: a
   bot that executes one job at a time gets to use every credential it has. *)
NoSwapFailsAlone ==
    \A w \in Workers, n \in 1 .. Count : n \in skipped[w] /\ Kind(n) = "login" =>
        \E v \in Workers \ {w} : \E i \in 1 .. at[v] : Kind(i) = "login"

(* Every execution comes to an answer. *)
EveryExecutionEnds == \A w \in Workers : <>(pc[w] = "done")

(* swapCredential: "The write is atomic (temp file + rename)": whoever opens
   the credentials file finds a complete one. *)
CredentialsFileWhole == Whole(content[credFile])
===============================================================================

------------------------------ MODULE SelfUpdate ------------------------------
(***************************************************************************)
(* How a new version gets to run: /update pulls, builds, swaps the binary  *)
(* and re-executes the process; a message may set off the same build in    *)
(* the background (internal/bot/dispatcher.go, selfUpdate and              *)
(* triggerAutoUpdate); the watchdog run.sh restarts the process when it    *)
(* ended, takes over a build that is ready and starts one of its own.  The *)
(* restart note (restart_notify.json) tells the next process whom to       *)
(* answer.                                                                 *)
(*                                                                         *)
(* All builders share one checkout and one output file, claudeclaw.new,    *)
(* and no lock.  A version is a number: the commit it was built from.      *)
(* When the process ends or execs, the go command it has started lives on. *)
(***************************************************************************)
EXTENDS Naturals

CONSTANTS
    Chats,        \* chats from which /update is sent
    Updater,      \* the builder of triggerAutoUpdate (autoUpdateRunning: one at a time)
    Shell,        \* the builder of run.sh
    NoBuilder,    \* no builder
    NoFile,       \* no such file
    NoImage,      \* no process
    MaxCommit     \* bound: commits pushed to origin/main

ASSUME BuildersAssumption  == /\ {Updater, Shell, NoBuilder} \cap Chats = {}
                              /\ Updater # Shell /\ NoBuilder \notin {Updater, Shell}
                              /\ {"due", "done"} \cap Chats = {}
ASSUME MaxCommitAssumption == MaxCommit \in Nat

VARIABLES
    remote,      \* the newest commit of origin/main
    head,        \* the commit of the checkout
    bin,         \* the file claudeclaw: its commit, and the builder that still writes it
    new,         \* the file claudeclaw.new, likewise
    image,       \* the commit of the running process
    step,        \* where each builder is
    got,         \* the commit that each builder compiles, 0 when it does not
    orphans,     \* builders whose process has ended: only their go command runs on
    note,        \* the chat in restart_notify.json
    greeting,    \* sendRestartNotification: "due", the chat it answers, or "done"
    \* History, read by no action:
    told         \* for each chat: what became of its /update

filesVars  == <<bin, new, note>>
repoVars   == <<remote, head>>
buildVars  == <<step, got, orphans>>
updateVars == <<repoVars, filesVars, image, buildVars, greeting, told>>

Builders == Chats \cup {Updater, Shell}
Stages   == {"idle", "pull", "build", "link", "swap", "note", "exec"}
Binary   == [commit : 0 .. MaxCommit, writer : Builders \cup {NoBuilder}]

UpdateTypeOK ==
    /\ remote \in 0 .. MaxCommit /\ head \in 0 .. remote
    /\ bin \in Binary
    /\ new \in Binary \cup {NoFile}
    /\ image \in 0 .. MaxCommit \cup {NoImage}
    /\ step \in [Builders -> Stages]
    /\ got \in [Builders -> 0 .. MaxCommit]
    /\ orphans \in SUBSET (Chats \cup {Updater})
    /\ note \in Chats \cup {NoBuilder}
    /\ greeting \in Chats \cup {"due", "done"}
    /\ told \in [Chats -> {"nothing", "waits", "told", "cut off"}]

UpdateInit ==
    /\ remote = 0 /\ head = 0
    /\ bin = [commit |-> 0, writer |-> NoBuilder]
    /\ new = NoFile
    /\ image = NoImage
    /\ step = [b \in Builders |-> "idle"]
    /\ got = [b \in Builders |-> 0]
    /\ orphans = {}
    /\ note = NoBuilder /\ greeting = "done"
    /\ told = [c \in Chats |-> "nothing"]

-----------------------------------------------------------------------------
Alive(b) == step[b] # "idle" /\ b \notin orphans
Advance(b, from, to) == step[b] = from /\ step' = [step EXCEPT ![b] = to]
Tell(c) == told' = [told EXCEPT ![c] = "told"]
\* A chat's builder answers with an error; the other two only log it.
TellError(b) == IF b \in Chats THEN Tell(b) ELSE UNCHANGED told

-----------------------------------------------------------------------------
(* Seeded fault.  No specification uses it: TLC finds the property named in
   PROJECT.json violated when the definition of Swap is replaced by it.     *)

\* The restart note is left out.
Swap_NoNote(c) ==
    /\ new # NoFile
    /\ Advance(c, "swap", "exec")
    /\ bin' = new
    /\ new' = NoFile
    /\ UNCHANGED <<repoVars, note, image, got, orphans, greeting, told>>

-----------------------------------------------------------------------------
\* Somebody pushes a commit.
NewCommit ==
    /\ remote < MaxCommit
    /\ remote' = remote + 1
    /\ UNCHANGED <<head, filesVars, image, buildVars, greeting, told>>

\* /update (dispatcher.go 408-410)
Ask(c) ==
    /\ Advance(c, "idle", "pull")
    /\ told' = [told EXCEPT ![c] = "waits"]
    /\ UNCHANGED <<repoVars, filesVars, image, got, orphans, greeting>>

\* triggerAutoUpdate has fetched and compares the commits (dispatcher.go 487-526).
AutoCheck ==
    /\ head # remote
    /\ Advance(Updater, "idle", "pull")
    /\ UNCHANGED <<repoVars, filesVars, image, got, orphans, greeting, told>>

Pull(b) ==
    /\ Advance(b, "pull", "build")
    /\ head' = remote
    /\ got' = [got EXCEPT ![b] = head']
    /\ UNCHANGED <<remote, filesVars, image, orphans, greeting, told>>

\* git pull fails: run.sh compiles what is there, the others give up.
PullFails(b) ==
    /\ IF b = Shell
       THEN Advance(b, "pull", "build") /\ got' = [got EXCEPT ![b] = head]
       ELSE Advance(b, "pull", "idle") /\ UNCHANGED got
    /\ TellError(b)
    /\ UNCHANGED <<repoVars, filesVars, image, orphans, greeting>>

\* What a builder that is done does next: a chat's goes on, unless its process
\* has ended.
BuildEnds(b) ==
    /\ step' = [step EXCEPT ![b] = IF b \in Chats \ orphans THEN "swap" ELSE "idle"]
    /\ got' = [got EXCEPT ![b] = 0]
    /\ orphans' = orphans \ {b}

\* The go command has compiled: it replaces claudeclaw.new by an empty file ...
Link(b) ==
    /\ Advance(b, "build", "link")
    /\ new' = [commit |-> got[b], writer |-> b]
    /\ UNCHANGED <<repoVars, bin, note, image, got, orphans, greeting, told>>

\* ... and fills it, whatever it is called by now.
Written(b) ==
    /\ step[b] = "link"
    /\ new' = IF new # NoFile /\ new.writer = b THEN [new EXCEPT !.writer = NoBuilder] ELSE new
    /\ bin' = IF bin.writer = b THEN [bin EXCEPT !.writer = NoBuilder] ELSE bin
    /\ BuildEnds(b)
    /\ UNCHANGED <<repoVars, note, image, greeting, told>>

\* The build fails: all three builders remove claudeclaw.new, whoever built it.
BuildFails(b) ==
    /\ Advance(b, "build", "idle")
    /\ new' = IF b \in orphans THEN new ELSE NoFile
    /\ got' = [got EXCEPT ![b] = 0]
    /\ orphans' = orphans \ {b}
    /\ IF b \in orphans THEN UNCHANGED told ELSE TellError(b)
    /\ UNCHANGED <<repoVars, bin, note, image, greeting>>

\* selfUpdate renames claudeclaw.new over the binary (dispatcher.go 610-615).
Swap(c) ==
    /\ new # NoFile
    /\ Advance(c, "swap", "note")
    /\ bin' = new
    /\ new' = NoFile
    /\ UNCHANGED <<repoVars, note, image, got, orphans, greeting, told>>

\* Somebody else has renamed or removed it.
SwapFails(c) ==
    /\ new = NoFile
    /\ Advance(c, "swap", "idle")
    /\ Tell(c)
    /\ UNCHANGED <<repoVars, filesVars, image, got, orphans, greeting>>

\* saveRestartNotify: one file, the last writer stays (dispatcher.go 1773-1787).
SaveNote(c) ==
    /\ Advance(c, "note", "exec")
    /\ note' = c
    /\ told' = [d \in Chats |-> IF d = note /\ d # c /\ told[d] = "waits"
                               THEN "cut off" ELSE told[d]]
    /\ UNCHANGED <<repoVars, bin, new, image, got, orphans, greeting>>

\* syscall.Exec fails while a builder still writes the binary (ETXTBSY): the old
\* image goes on, and the chat is told.
ExecFails(c) ==
    /\ bin.writer # NoBuilder
    /\ Advance(c, "exec", "idle")
    /\ Tell(c)
    /\ UNCHANGED <<repoVars, filesVars, image, got, orphans, greeting>>

-----------------------------------------------------------------------------
(* The note after a restart (telegram.go 94-125, started by Run).           *)

\* The note is read and removed ...
TakeNote ==
    /\ greeting = "due"
    /\ greeting' = IF note = NoBuilder THEN "done" ELSE note
    /\ note' = NoBuilder
    /\ UNCHANGED <<repoVars, bin, new, image, buildVars, told>>

\* ... and the chat it names is told of the new version.
Greet ==
    /\ greeting \in Chats
    /\ Tell(greeting)
    /\ greeting' = "done"
    /\ UNCHANGED <<repoVars, filesVars, image, buildVars>>

-----------------------------------------------------------------------------
(* The process and its watchdog.                                           *)

\* Everything the process has in flight ends with it: what it has promised is
\* kept only by a note that it has not taken itself, and of its builders the go
\* command is left.  For the chat that causes the end this is no excuse.
CutOff(others) ==
    /\ step' = [b \in Builders |->
                  IF b = Shell \/ step[b] \in {"build", "link"} THEN step[b] ELSE "idle"]
    /\ orphans' = {b \in Chats \cup {Updater} : step[b] \in {"build", "link"}}
    /\ told' = [c \in Chats |->
                  IF told[c] = "waits" /\ note # c /\ (c \in others \/ greeting = c)
                  THEN "cut off" ELSE told[c]]
    /\ greeting' = "done"
    /\ UNCHANGED <<repoVars, filesVars, got>>

\* syscall.Exec: the binary that is there now becomes the process.
Exec(c) ==
    /\ step[c] = "exec"
    /\ bin.writer = NoBuilder
    /\ image' = bin.commit
    /\ CutOff(Chats \ {c})

Exit == image # NoImage /\ image' = NoImage /\ CutOff(Chats)

\* One round of run.sh (27-67): it has waited for its own build; a build that is
\* ready replaces the binary, the next one is started, and then the binary,
\* which cannot be executed while it is being written.
RunLoop(auto) ==
    /\ image = NoImage /\ step[Shell] = "idle"
    /\ bin' = IF new = NoFile THEN bin ELSE new
    /\ new' = NoFile
    /\ IF auto THEN Advance(Shell, "idle", "pull") ELSE UNCHANGED step
    /\ image' = IF bin'.writer = NoBuilder THEN bin'.commit ELSE NoImage
    /\ UNCHANGED <<repoVars, note, got, orphans, greeting, told>>

-----------------------------------------------------------------------------
\* What goes on by itself once a build has been set off.
BuildStep(b) ==
    \/ (b = Shell \/ Alive(b)) /\ (Pull(b) \/ PullFails(b))
    \/ Link(b) \/ Written(b) \/ BuildFails(b)
    \/ b \in Chats /\ (Swap(b) \/ SwapFails(b) \/ SaveNote(b) \/ ExecFails(b))

=============================================================================

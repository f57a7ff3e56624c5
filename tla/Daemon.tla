-------------------------------- MODULE Daemon --------------------------------
(***************************************************************************)
(* The daemon as a process: it is started by run.sh or by exec, reads its  *)
(* configuration, serves, and ends (cmd/claudeclaw/main.go).  The modules  *)
(* ConfigManager and SelfUpdate are composed: a process that ends takes    *)
(* its configuration goroutines and its builders with it, at any point of  *)
(* what they do to config.json, claudeclaw.new and the binary; the next    *)
(* one starts from what they have left.                                    *)
(***************************************************************************)
EXTENDS ConfigManager, SelfUpdate

CONSTANTS
    AutoOn,       \* the settings under which auto_update is on
    Limits,       \* bound: how often the outside acts; any of these records suffices
    Apart         \* bound: commands about the configuration are given while nothing
                  \* is built, updates are set off while no such command is at work

Kinds == {"commands", "updates", "ends"}

ASSUME AutoOnAssumption == AutoOn \subseteq Settings
ASSUME BoundsAssumption == Limits \subseteq [Kinds -> Nat] /\ Apart \in BOOLEAN

VARIABLE moves    \* how often the outside has acted

vars == <<configVars, updateVars, moves>>

TypeOK == ConfigTypeOK /\ UpdateTypeOK /\ moves \in [Kinds -> Nat]

Init == ConfigInit /\ UpdateInit /\ moves = [k \in Kinds |-> 0]

-----------------------------------------------------------------------------
\* What comes from outside.
Move(kind) ==
    /\ moves' = [moves EXCEPT ![kind] = @ + 1]
    /\ \E limit \in Limits : \A k \in Kinds : moves'[k] <= limit[k]

ConfigCommand ==
    /\ Command /\ Move("commands")
    /\ Apart => \A b \in Builders : step[b] \in {"idle", "exec"}
    /\ UNCHANGED updateVars

Push == NewCommit /\ Move("updates") /\ UNCHANGED configVars
\* /update from an allowed user
Update(c) ==
    /\ phase = "serving" /\ bots.users # {}
    /\ Apart => AtRest
    /\ Ask(c) /\ Move("updates")
    /\ UNCHANGED configVars
\* A signal, a crash.
Kill == Exit /\ Forget /\ Move("ends")
\* NewBot cannot reach Telegram while main.run starts.
NoTelegram == phase = "loading" /\ Exit /\ Forget /\ Move("ends")

\* A message of an allowed user sets off the check for a new version.
AutoUpdate ==
    /\ phase = "serving" /\ bots.users # {} /\ current.setting \in AutoOn
    /\ Apart => AtRest
    /\ AutoCheck
    /\ UNCHANGED <<configVars, moves>>

-----------------------------------------------------------------------------
\* What the daemon, run.sh and the go command do by themselves.
ConfigStep(p) == ActorStep(p) /\ UNCHANGED <<updateVars, moves>>
Build(b)      == BuildStep(b) /\ UNCHANGED <<configVars, moves>>
Notice        == (TakeNote \/ Greet) /\ UNCHANGED <<configVars, moves>>

\* get_auto_update answers true for a file it cannot parse.
Start ==
    /\ RunLoop(file = Torn \/ file.setting \in AutoOn)
    /\ UNCHANGED <<configVars, moves>>

Load == image # NoImage /\ LoadConfig /\ UNCHANGED <<updateVars, moves>>

\* The bots' Run starts with the note of the last process.
Up ==
    /\ Serve
    /\ greeting' = "due"
    /\ UNCHANGED <<repoVars, filesVars, image, buildVars, told, moves>>

\* Seeded fault (in no specification): bad cron schedules leave the start hanging.
BootFails_NotForJobs ==
    /\ phase = "off" /\ ~Loadable
    /\ Exit /\ Forget
    /\ UNCHANGED moves

\* main.run returns an error: no usable configuration, or bad cron schedules.
BootFails ==
    /\ \/ phase = "off" /\ ~Loadable
       \/ phase = "loading" /\ ~carried[Main].jobsOK
    /\ Exit /\ Forget
    /\ UNCHANGED moves

ReExec(c) == Exec(c) /\ Forget /\ UNCHANGED moves

\* The process and run.sh.
LifeStep ==
    \/ \E c \in Chats : ReExec(c)
    \/ Notice \/ Start \/ Load \/ Up \/ BootFails

Next ==
    \/ ConfigCommand \/ Push \/ Kill \/ NoTelegram \/ AutoUpdate
    \/ \E c \in Chats : Update(c)
    \/ \E p \in Actors : ConfigStep(p)
    \/ \E b \in Builders : Build(b)
    \/ LifeStep

\* Goroutines and processes are scheduled, git and go end, run.sh runs on: of each
\* group that has something to do somebody does it.  Nobody is bound to send a
\* message, to push a commit or to edit the file.
Fairness ==
    /\ WF_vars(\E p \in Actors : ConfigStep(p))
    /\ WF_vars(\E c \in Chats : Build(c)) /\ WF_vars(Build(Updater)) /\ WF_vars(Build(Shell))
    /\ WF_vars(LifeStep)

Spec == Init /\ [][Next]_vars /\ Fairness

-----------------------------------------------------------------------------
(* Properties.  The safety properties are those of ConfigManager.          *)

\* No refused value is in the file, nor in viper, where it stays until a restart.
Usable == Bootable /\ (phase = "serving" => Accepted(View))

\* Whoever ClaimOwner has put into the file can use the bot before long, though
\* the process end between the rename and the reload - unless a stale Set has
\* dropped the user, a refused value is about, or deliveries overlapped.
GrantTakesEffect ==
    \A u \in Users :
        []<>(\/ u \notin added
             \/ phase = "serving" /\ u \in bots.users
             \/ mixed \/ ~Usable)

\* "the binary restarts itself" (dispatcher.go 576), and run.sh starts it again:
\* after every end, failed start, swap or half-written binary the daemon serves
\* again, as long as there is a configuration it can start from.
ComesBack == []<>(phase = "serving" \/ ~Bootable)

\* Every /update is answered, by an error or by the next process: with an end of
\* the process in between only what is in the restart note survives.
UpdateIsAnswered == \A c \in Chats : []<>(told[c] # "waits" \/ ~Bootable)

=============================================================================

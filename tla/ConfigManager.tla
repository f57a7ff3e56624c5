---------------------------- MODULE ConfigManager ----------------------------
(***************************************************************************)
(* config.json and everybody who reads or writes it while the daemon runs  *)
(* (internal/config/config.go): /set and /unset, which change viper and    *)
(* write the file in place; the first message to a bot without an owner    *)
(* and /adduser, which edit the raw file and rename a new one over it; the *)
(* file watcher, which re-reads it; an operator with an editor.  Each of   *)
(* them then carries a configuration to the bots                           *)
(* (internal/bot/telegram.go, dispatcher.go) and to the cron scheduler     *)
(* (internal/scheduler/cron.go), in a goroutine of its own.                *)
(*                                                                         *)
(* Manager.mu guards only Manager.current; ClaimOwner alone holds it over  *)
(* its file accesses.  viper, the file and the cron scheduler's map are    *)
(* under no lock: each access is a step.  Of a configuration three fields  *)
(* are told apart: the allowed users of the (one, named) bot, the value of *)
(* the settings that commands can change, and whether the cron schedules   *)
(* parse.                                                                  *)
(***************************************************************************)
EXTENDS Naturals

CONSTANTS
    Users,        \* Telegram users who may become allowed
    FirstUsers,   \* the sets of users that the first configuration may have
    Setters,      \* goroutines that execute /set or /unset
    Settings,       \* values of the settings that commands change
    Refused,      \* the values that validate refuses
    NoSetting,      \* no value: viper holds no override
    NoConfig,     \* no configuration
    Torn,         \* content of a file that is no JSON: truncated or garbled
    NoOne,        \* holder of a free lock
    Watcher,      \* the goroutine of viper.WatchConfig
    Main,         \* the goroutine of main.run
    MaxUnread     \* bound: unread notifications that inotify keeps apart

ASSUME FirstAssumption     == FirstUsers \subseteq SUBSET Users
ASSUME RefusedAssumption   == Refused \subseteq Settings /\ NoSetting \notin Settings
ASSUME ActorsAssumption    == /\ Setters \cap Users = {}
                              /\ {Watcher, Main, NoOne} \cap (Setters \cup Users) = {}
                              /\ Watcher # Main /\ NoOne \notin {Watcher, Main}
ASSUME MaxUnreadAssumption == MaxUnread \in Nat \ {0}

VARIABLES
    file,        \* content of config.json
    open,        \* the setters whose descriptor is of the present config.json
    unread,      \* unread notifications of the directory watch
    phase,       \* of the process: "off", "loading" in main.run, "serving"
    viper,       \* viper.config: what ReadInConfig read last
    override,    \* viper.override: what viper.Set was given last
    current,     \* Manager.current
    lock,        \* who holds Manager.mu over several steps
    raw,         \* the file as each ClaimOwner in progress has read it
    doing,       \* where each goroutine is
    carried,     \* the configuration each goroutine has decoded and delivers
    bots,        \* Dispatcher.botCfg (and cfg)
    entries,     \* the entries of the cron library for the configured job
    tracked,     \* 1 iff CronScheduler.entryIDs knows an entry of it
    \* History, read by no action:
    founders,    \* the users of the file when the daemon was first started
    added,       \* the users added since, but for those a stale Set dropped
    mixed,       \* two goroutines have carried different configurations at once
    raced        \* two LoadJobs have overlapped

fileVars   == <<file, open, unread>>
viperVars  == <<viper, override>>
cronVars   == <<entries, tracked>>
history    == <<founders, added, mixed, raced>>
configVars == <<fileVars, phase, viperVars, current, lock, raw, doing, carried,
                bots, cronVars, history>>

Actors == Setters \cup Users \cup {Watcher, Main}
Steps  == {"idle", "open", "write", "decode", "store", "tell", "unload", "load",
           "read", "rename", "reread"}
Config == [users : SUBSET Users, setting : Settings, jobsOK : BOOLEAN]

ASSUME NoConfigAssumption == Torn \notin Config /\ NoConfig \notin Config \cup {Torn}

ConfigTypeOK ==
    /\ file \in Config \cup {Torn}
    /\ open \in SUBSET Setters
    /\ unread \in 0 .. MaxUnread
    /\ phase \in {"off", "loading", "serving"}
    /\ viper \in Config \cup {NoConfig}
    /\ override \in Settings \cup {NoSetting}
    /\ current \in Config \cup {NoConfig}
    /\ lock \in Users \cup {NoOne}
    /\ raw \in [Users -> Config \cup {NoConfig}]
    /\ doing \in [Actors -> Steps]
    /\ carried \in [Actors -> Config \cup {NoConfig}]
    /\ bots \in Config \cup {NoConfig}
    /\ entries \in Nat /\ tracked \in {0, 1}
    /\ founders \in SUBSET Users /\ added \in SUBSET Users
    /\ mixed \in BOOLEAN /\ raced \in BOOLEAN

\* A first start: a file that a person or the setup wizard has written.
ConfigInit ==
    /\ founders \in FirstUsers
    /\ file \in {c \in Config : c.users = founders /\ c.setting \notin Refused /\ c.jobsOK}
    /\ open = {} /\ unread = 0
    /\ phase = "off"
    /\ viper = NoConfig /\ override = NoSetting /\ current = NoConfig
    /\ lock = NoOne /\ raw = [u \in Users |-> NoConfig]
    /\ doing = [p \in Actors |-> "idle"]
    /\ carried = [p \in Actors |-> NoConfig]
    /\ bots = NoConfig
    /\ entries = 0 /\ tracked = 0
    /\ added = {} /\ mixed = FALSE /\ raced = FALSE

-----------------------------------------------------------------------------
(* What the steps are made of.                                             *)

\* validate: a setting it does not know is refused.
Accepted(c) == c.setting \notin Refused

\* What decode finds in a viper whose file part is c: an override wins.
Over(c, v) == IF v = NoSetting THEN c ELSE [c EXCEPT !.setting = v]
View == Over(viper, override)

\* Whether config.New takes the file, and main.run gets beyond the cron jobs.
Loadable == file # Torn /\ Accepted(file)
Bootable == Loadable /\ file.jobsOK

\* A change in the directory that the watch reports; inotify merges a
\* notification with an equal one that is still unread.
Notify == unread' \in {n \in 1 .. MaxUnread : n = unread \/ n = unread + 1}

Go(p, from, to) == doing[p] = from /\ doing' = [doing EXCEPT ![p] = to]

\* Goroutine p sets out to deliver c.
Carry(p, c) ==
    /\ carried' = [carried EXCEPT ![p] = c]
    /\ mixed' = (mixed \/ \E q \in Actors \ {p} : carried[q] \notin {NoConfig, c})

-----------------------------------------------------------------------------
(* Seeded faults.  No specification uses these: each is a plausible slip in the
   action it is named after, and TLC finds the property named in PROJECT.json
   violated when the action's definition is replaced by it.                 *)

\* A file that cannot be parsed is taken for an empty configuration.
Reload_TornIsEmpty ==
    /\ unread > 0 /\ phase # "off"
    /\ Go(Watcher, "idle", "decode")
    /\ unread' = unread - 1
    /\ viper' = IF file = Torn THEN [viper EXCEPT !.users = {}] ELSE file
    /\ UNCHANGED <<file, open, phase, override, current, lock, raw, carried, bots,
                   cronVars, history>>

\* decode sees only what has been read from the file.
Decode_FileOnly(p) ==
    /\ Go(p, "decode", "store")
    /\ Accepted(View)
    /\ Carry(p, viper)
    /\ UNCHANGED <<fileVars, phase, viperVars, current, lock, raw, bots, cronVars,
                   founders, added, raced>>

\* The hot reload leaves the allowed users as they were at the start.
TellBots_NotTheUsers(p) ==
    /\ Go(p, "tell", "unload")
    /\ bots' = [carried[p] EXCEPT !.users = bots.users]
    /\ UNCHANGED <<fileVars, phase, viperVars, current, lock, raw, carried, cronVars, history>>

\* LoadJobs starts a new map without removing the entries of the old one.
Unload_OnlyTheMap(p) ==
    /\ Go(p, "unload", "load")
    /\ tracked' = 0
    /\ raced' = (raced \/ \E q \in Actors \ {p} : doing[q] = "load")
    /\ UNCHANGED <<fileVars, phase, viperVars, current, lock, raw, carried, bots,
                   entries, founders, added, mixed>>

\* LoadJobs removes an entry whether the map knows one or not.
Unload_Unconditional(p) ==
    /\ Go(p, "unload", "load")
    /\ entries' = entries - 1
    /\ tracked' = 0
    /\ raced' = (raced \/ \E q \in Actors \ {p} : doing[q] = "load")
    /\ UNCHANGED <<fileVars, phase, viperVars, current, lock, raw, carried, bots,
                   founders, added, mixed>>

\* ClaimOwner takes the lock only for the exchange of current.
ClaimRead_NoLock(u) ==
    /\ file # Torn /\ u \notin file.users
    /\ Go(u, "read", "rename")
    /\ lock' = u
    /\ raw' = [raw EXCEPT ![u] = file]
    /\ UNCHANGED <<fileVars, phase, viperVars, current, carried, bots, cronVars, history>>

-----------------------------------------------------------------------------
(* Set: /set and /unset (config.go 176-199).                                *)

\* viper.Set
Set(s, v) ==
    /\ phase = "serving"
    /\ Go(s, "idle", "open")
    /\ override' = v
    /\ UNCHANGED <<fileVars, phase, viper, current, lock, raw, carried, bots, cronVars, history>>

\* viper.WriteConfig opens the file with O_TRUNC ...
SetOpen(s) ==
    /\ Go(s, "open", "write")
    /\ file' = Torn
    /\ open' = open \cup {s}
    /\ Notify
    /\ UNCHANGED <<phase, viperVars, current, lock, raw, carried, bots, cronVars, history>>

\* ... and writes all settings: into the file, unless a ClaimOwner has renamed
\* another over it.  What a second setter has written meanwhile is overwritten
\* from the start, and its tail may stay behind.
SetWrite(s) ==
    /\ Go(s, "write", "decode")
    /\ IF s \in open
       THEN /\ file' \in IF file \in {Torn, View} THEN {View} ELSE {View, Torn}
            /\ added' = added \cap View.users
            /\ Notify
       ELSE UNCHANGED <<file, added, unread>>
    /\ open' = open \ {s}
    /\ UNCHANGED <<phase, viperVars, current, lock, raw, carried, bots, cronVars,
                   founders, mixed, raced>>

-----------------------------------------------------------------------------
(* The watcher (config.go 129-148) and what it shares with Set.            *)

\* viper.WatchConfig: a notification, ReadInConfig, and then the callback even
\* when the file could not be parsed.
Reload ==
    /\ unread > 0 /\ phase # "off"
    /\ Go(Watcher, "idle", "decode")
    /\ unread' = unread - 1
    /\ viper' = IF file = Torn THEN viper ELSE file
    /\ UNCHANGED <<file, open, phase, override, current, lock, raw, carried, bots,
                   cronVars, history>>

\* decode refuses what viper holds: Set answers with an error, the watcher logs one.
DecodeRefused(p) ==
    /\ Go(p, "decode", "idle")
    /\ ~Accepted(View)
    /\ UNCHANGED <<fileVars, phase, viperVars, current, lock, raw, carried, bots,
                   cronVars, history>>

Decode(p) ==
    /\ Go(p, "decode", "store")
    /\ Accepted(View)
    /\ Carry(p, View)
    /\ UNCHANGED <<fileVars, phase, viperVars, current, lock, raw, bots, cronVars,
                   founders, added, raced>>

\* Under the lock: current, and a copy of the handlers.  main.run registers the
\* only one at its end; before that there is nobody to tell.
Store(p) ==
    /\ lock = NoOne
    /\ current' = carried[p]
    /\ IF phase = "serving"
       THEN Go(p, "store", "tell") /\ UNCHANGED carried
       ELSE Go(p, "store", "idle") /\ carried' = [carried EXCEPT ![p] = NoConfig]
    /\ UNCHANGED <<fileVars, phase, viperVars, lock, raw, bots, cronVars, history>>

-----------------------------------------------------------------------------
(* The handler that main.run registers (main.go 143-150).                   *)

\* runnerMgr.UpdateConfig and botMgr.UpdateConfig
TellBots(p) ==
    /\ Go(p, "tell", "unload")
    /\ bots' = carried[p]
    /\ UNCHANGED <<fileVars, phase, viperVars, current, lock, raw, carried, cronVars, history>>

\* LoadJobs removes the entries it knows of and starts a new map ...
Unload(p) ==
    /\ Go(p, "unload", "load")
    /\ entries' = entries - tracked
    /\ tracked' = 0
    /\ raced' = (raced \/ \E q \in Actors \ {p} : doing[q] = "load")
    /\ UNCHANGED <<fileVars, phase, viperVars, current, lock, raw, carried, bots,
                   founders, added, mixed>>

\* ... and registers the job anew, or gives up at a schedule that does not parse.
LoadJobs(p) ==
    /\ Go(p, "load", "idle")
    /\ IF carried[p].jobsOK
       THEN entries' = entries + 1 /\ tracked' = 1
       ELSE UNCHANGED cronVars
    /\ carried' = [carried EXCEPT ![p] = NoConfig]
    /\ UNCHANGED <<fileVars, phase, viperVars, current, lock, raw, bots, history>>

-----------------------------------------------------------------------------
(* ClaimOwner (config.go 210-295), by whom it is called first.              *)

\* Handle finds the bot without an owner: the sender becomes one (claimOwner).
FirstMessage(u) ==
    /\ phase = "serving" /\ bots.users = {}
    /\ Go(u, "idle", "read")
    /\ UNCHANGED <<fileVars, phase, viperVars, current, lock, raw, carried, bots,
                   cronVars, history>>

\* An allowed user sends /adduser u (handleAddUser).
AddUser(u) ==
    /\ phase = "serving" /\ bots.users # {}
    /\ Go(u, "idle", "read")
    /\ UNCHANGED <<fileVars, phase, viperVars, current, lock, raw, carried, bots,
                   cronVars, history>>

\* The raw file is no JSON (an error) or has the user already (nothing to do):
\* the lock is held for this step only.
ClaimNothing(u) ==
    /\ lock = NoOne
    /\ file # Torn => u \in file.users
    /\ Go(u, "read", "idle")
    /\ UNCHANGED <<fileVars, phase, viperVars, current, lock, raw, carried, bots,
                   cronVars, history>>

ClaimRead(u) ==
    /\ lock = NoOne
    /\ file # Torn /\ u \notin file.users
    /\ Go(u, "read", "rename")
    /\ lock' = u
    /\ raw' = [raw EXCEPT ![u] = file]
    /\ UNCHANGED <<fileVars, phase, viperVars, current, carried, bots, cronVars, history>>

\* What was read, plus the user, replaces the file whatever it holds by now.
ClaimRename(u) ==
    /\ Go(u, "rename", "reread")
    /\ file' = [raw[u] EXCEPT !.users = @ \cup {u}]
    /\ open' = {}
    /\ Notify
    /\ raw' = [raw EXCEPT ![u] = NoConfig]
    /\ added' = added \cup {u}
    /\ UNCHANGED <<phase, viperVars, current, lock, carried, bots, cronVars,
                   founders, mixed, raced>>

\* ReadInConfig and decode, still under the lock: accepted, the configuration is
\* current and a goroutine delivers it; otherwise the watcher may do so later.
ClaimReread(u) ==
    LET read == IF file = Torn THEN viper ELSE file
        new  == Over(read, override) IN
    /\ doing[u] = "reread"
    /\ viper' = read
    /\ IF file # Torn /\ Accepted(new)
       THEN Go(u, "reread", "tell") /\ current' = new /\ Carry(u, new)
       ELSE Go(u, "reread", "idle") /\ UNCHANGED <<current, carried, mixed>>
    /\ lock' = NoOne
    /\ UNCHANGED <<fileVars, phase, override, raw, bots, cronVars, founders, added, raced>>

-----------------------------------------------------------------------------
(* The operator, and the life of the process.                              *)

\* Somebody edits the settings of the file by hand, while no Set has it open.
EditFile(v, ok) ==
    /\ file # Torn /\ open = {}
    /\ [file EXCEPT !.setting = v, !.jobsOK = ok] # file
    /\ file' = [file EXCEPT !.setting = v, !.jobsOK = ok]
    /\ IF phase = "off" THEN UNCHANGED unread ELSE Notify
    /\ UNCHANGED <<open, phase, viperVars, current, lock, raw, doing, carried, bots,
                   cronVars, history>>

\* config.New in main.run: from here on the file is watched.
LoadConfig ==
    /\ phase = "off" /\ Loadable
    /\ phase' = "loading"
    /\ viper' = file /\ current' = file
    /\ carried' = [carried EXCEPT ![Main] = file]
    /\ UNCHANGED <<fileVars, override, lock, raw, doing, bots, cronVars, history>>

\* The rest of main.run: bots and cron jobs from the configuration it was given
\* by New, then OnChange, then messages are received.
Serve ==
    /\ phase = "loading"
    /\ carried[Main].jobsOK
    /\ phase' = "serving"
    /\ bots' = carried[Main]
    /\ entries' = 1 /\ tracked' = 1
    /\ carried' = [carried EXCEPT ![Main] = NoConfig]
    /\ UNCHANGED <<fileVars, viperVars, current, lock, raw, doing, history>>

\* The process ends or is replaced: only the file stays.
Forget ==
    /\ phase' = "off"
    /\ unread' = 0 /\ open' = {}
    /\ viper' = NoConfig /\ override' = NoSetting /\ current' = NoConfig
    /\ lock' = NoOne /\ raw' = [u \in Users |-> NoConfig]
    /\ doing' = [p \in Actors |-> "idle"]
    /\ carried' = [p \in Actors |-> NoConfig]
    /\ bots' = NoConfig
    /\ entries' = 0 /\ tracked' = 0
    /\ mixed' = FALSE /\ raced' = FALSE
    /\ UNCHANGED <<file, founders, added>>

-----------------------------------------------------------------------------
\* The steps that goroutine p takes by itself once it has been set off.
ActorStep(p) ==
    \/ p \in Setters /\ (SetOpen(p) \/ SetWrite(p))
    \/ p = Watcher /\ Reload
    \/ p \in Setters \cup {Watcher} /\ (Decode(p) \/ DecodeRefused(p) \/ Store(p))
    \/ p \in Users /\ (ClaimNothing(p) \/ ClaimRead(p) \/ ClaimRename(p) \/ ClaimReread(p))
    \/ TellBots(p) \/ Unload(p) \/ LoadJobs(p)

\* What people do: commands, first messages, an editor.
Command ==
    \/ \E s \in Setters, v \in Settings : Set(s, v)
    \/ \E u \in Users : FirstMessage(u) \/ AddUser(u)
    \/ \E v \in Settings, ok \in BOOLEAN : EditFile(v, ok)

-----------------------------------------------------------------------------
(* Properties.                                                             *)

\* A bot that had an owner never falls back to the mode in which the next
\* sender becomes its owner (isOwnerless, dispatcher.go 1547), although /set
\* truncates the file while the watcher re-reads it: a torn file is not taken
\* for one without users, by whichever goroutine and after whichever restart.
OwnersStay == phase = "serving" => founders \subseteq bots.users

\* "appends userID to the named bot's allowed_users list, persisting the change
\* atomically" (config.go 210): nobody whom ClaimOwner has put into the file is
\* dropped by another ClaimOwner, a reload or a restart - only by a Set that
\* writes from a viper which has not seen the user yet, or that is cut short.
AddedUsersStay == file # Torn => added \subseteq file.users

\* At rest the three copies agree: bots, Manager.current and viper hold the same
\* configuration, with the users of the file - unless two goroutines delivered
\* different ones at once (their order is nobody's), or viper or the file holds
\* what cannot be used.
AtRest == unread = 0 /\ \A p \in Actors : doing[p] = "idle"
CopiesAgree ==
    phase = "serving" /\ AtRest /\ ~mixed /\ file # Torn /\ Accepted(View) =>
        bots = View /\ current = View /\ View.users = file.users

\* "removes all old jobs before re-registering" (cron.go 44): beside the entry
\* that the scheduler knows of, and can remove, there is no other for the job
\* that would fire it twice - unless two LoadJobs have overlapped; and the one it
\* knows of is registered.
JobsOnce == tracked <= entries /\ (entries = tracked \/ raced)

=============================================================================

---------------------------- MODULE Daemon_proofs ----------------------------
(***************************************************************************)
(* Theorems about Daemon, for every number of users, goroutines, chats and *)
(* commits, and without the bounds that a run sets: types, the users that  *)
(* the configuration keeps, the cron jobs, and who still owes an answer.   *)
(***************************************************************************)
EXTENDS Daemon, TLAPS

-----------------------------------------------------------------------------
(* The inductive invariant of the configuration.                           *)

\* Who is at work has what it works with.
Equipped ==
    /\ phase # "off" => viper \in Config /\ current \in Config
    /\ phase = "serving" => bots \in Config
    /\ phase = "loading" => carried[Main] \in Config
    /\ \A p \in Actors :
          /\ doing[p] # "idle" => phase # "off"
          /\ doing[p] \in {"store", "tell", "unload", "load"} => carried[p] \in Config
          /\ doing[p] \in {"tell", "unload", "load", "read", "rename", "reread"} =>
                phase = "serving"
    /\ doing[Main] = "idle"
    /\ \A u \in Users : doing[u] = "rename" => raw[u] \in Config

\* No copy of the configuration has lost a founder.
HasFounders(c) == c \in Config => founders \subseteq c.users
Owned ==
    /\ HasFounders(file) /\ HasFounders(viper) /\ HasFounders(bots)
    /\ \A p \in Actors : HasFounders(carried[p])
    /\ \A u \in Users : HasFounders(raw[u])

\* One ClaimOwner at a time, and what it writes has all that were added.
Kept ==
    /\ AddedUsersStay
    /\ \A u \in Users :
          /\ doing[u] \in {"rename", "reread"} => lock = u
          /\ doing[u] = "rename" => added \subseteq raw[u].users

\* Between Unload and LoadJobs a goroutine without company finds no entry.
Jobs ==
    /\ JobsOnce
    /\ ~raced => \A p \in Actors : doing[p] = "load" =>
                    tracked = 0 /\ \A q \in Actors : doing[q] = "load" => q = p

ConfigInv == ConfigTypeOK /\ Equipped /\ Owned /\ Kept /\ Jobs

\* An override changes no users.
LEMMA OverConfig ==
    ASSUME NEW c \in Config, NEW v \in Settings \cup {NoSetting}
    PROVE  Over(c, v) \in Config /\ Over(c, v).users = c.users
BY DEF Over, Config

LEMMA ViewConfig ==
    ASSUME ConfigTypeOK, viper \in Config
    PROVE  View \in Config /\ View.users = viper.users
BY OverConfig DEF View, ConfigTypeOK

LEMMA ConfigInitial == ConfigInit => ConfigInv
<1> SUFFICES ASSUME ConfigInit PROVE ConfigInv
    OBVIOUS
<1> USE NoConfigAssumption, ActorsAssumption, FirstAssumption
<1>1. ConfigTypeOK
  <2>1. file \in Config /\ founders \in SUBSET Users
    BY DEF ConfigInit
  <2>2. /\ doing \in [Actors -> Steps] /\ carried \in [Actors -> Config \cup {NoConfig}]
        /\ raw \in [Users -> Config \cup {NoConfig}]
    BY DEF ConfigInit, Steps
  <2>3. unread \in 0 .. MaxUnread
    BY MaxUnreadAssumption DEF ConfigInit
  <2> QED BY <2>1, <2>2, <2>3 DEF ConfigInit, ConfigTypeOK
<1>2. Equipped
    BY DEF ConfigInit, Equipped, Actors
<1>3. Owned
    BY DEF ConfigInit, Owned, HasFounders, Actors
<1>4. Kept
    BY DEF ConfigInit, Kept, AddedUsersStay, Actors
<1>5. Jobs
    BY DEF ConfigInit, Jobs, JobsOnce, Actors
<1> QED BY <1>1, <1>2, <1>3, <1>4, <1>5 DEF ConfigInv

LEMMA SetKeeps ==
    ASSUME NEW s \in Setters, NEW v \in Settings, ConfigInv, Set(s, v)
    PROVE  ConfigInv'
<1> USE NoConfigAssumption, ActorsAssumption, ViewConfig
<1>1. ConfigTypeOK'
    BY MaxUnreadAssumption DEF ConfigInv, ConfigTypeOK, Equipped, Kept, Jobs, JobsOnce, Actors, Steps, Set, Go, fileVars, viperVars, cronVars, history
<1>2. Equipped'
    BY DEF ConfigInv, ConfigTypeOK, Equipped, Actors, Set, Go, fileVars, viperVars, cronVars, history
<1>3. Owned'
    BY DEF ConfigInv, ConfigTypeOK, Equipped, Owned, HasFounders, Actors, Set, Go, fileVars, viperVars, cronVars, history
<1>4. Kept'
    BY DEF ConfigInv, ConfigTypeOK, Equipped, Kept, AddedUsersStay, Actors, Set, Go, fileVars, viperVars, cronVars, history
<1>5. Jobs'
    BY DEF ConfigInv, ConfigTypeOK, Equipped, Jobs, JobsOnce, Actors, Set, Go, fileVars, viperVars, cronVars, history
<1> QED BY <1>1, <1>2, <1>3, <1>4, <1>5 DEF ConfigInv

LEMMA SetOpenKeeps ==
    ASSUME NEW s \in Setters, ConfigInv, SetOpen(s)
    PROVE  ConfigInv'
<1> USE NoConfigAssumption, ActorsAssumption, ViewConfig
<1>1. ConfigTypeOK'
    BY MaxUnreadAssumption DEF ConfigInv, ConfigTypeOK, Equipped, Kept, Jobs, JobsOnce, Actors, Steps, SetOpen, Notify, Go, fileVars, viperVars, cronVars, history
<1>2. Equipped'
    BY DEF ConfigInv, ConfigTypeOK, Equipped, Actors, SetOpen, Notify, Go, fileVars, viperVars, cronVars, history
<1>3. Owned'
    BY DEF ConfigInv, ConfigTypeOK, Equipped, Owned, HasFounders, Actors, SetOpen, Notify, Go, fileVars, viperVars, cronVars, history
<1>4. Kept'
    BY DEF ConfigInv, ConfigTypeOK, Equipped, Kept, AddedUsersStay, Actors, SetOpen, Notify, Go, fileVars, viperVars, cronVars, history
<1>5. Jobs'
    BY DEF ConfigInv, ConfigTypeOK, Equipped, Jobs, JobsOnce, Actors, SetOpen, Notify, Go, fileVars, viperVars, cronVars, history
<1> QED BY <1>1, <1>2, <1>3, <1>4, <1>5 DEF ConfigInv

LEMMA SetWriteKeeps ==
    ASSUME NEW s \in Setters, ConfigInv, SetWrite(s)
    PROVE  ConfigInv'
<1> USE NoConfigAssumption, ActorsAssumption, ViewConfig
<1>1. ConfigTypeOK'
    BY MaxUnreadAssumption DEF ConfigInv, ConfigTypeOK, Equipped, Kept, Jobs, JobsOnce, Actors, Steps, SetWrite, Notify, Go, fileVars, viperVars, cronVars, history
<1>2. Equipped'
    BY DEF ConfigInv, ConfigTypeOK, Equipped, Actors, SetWrite, Notify, Go, fileVars, viperVars, cronVars, history
<1>3. Owned'
    BY DEF ConfigInv, ConfigTypeOK, Equipped, Owned, HasFounders, Actors, SetWrite, Notify, Go, fileVars, viperVars, cronVars, history
<1>4. Kept'
    BY DEF ConfigInv, ConfigTypeOK, Equipped, Kept, AddedUsersStay, Actors, SetWrite, Notify, Go, fileVars, viperVars, cronVars, history
<1>5. Jobs'
    BY DEF ConfigInv, ConfigTypeOK, Equipped, Jobs, JobsOnce, Actors, SetWrite, Notify, Go, fileVars, viperVars, cronVars, history
<1> QED BY <1>1, <1>2, <1>3, <1>4, <1>5 DEF ConfigInv

LEMMA ReloadKeeps ==
    ASSUME ConfigInv, Reload
    PROVE  ConfigInv'
<1> USE NoConfigAssumption, ActorsAssumption, ViewConfig
<1>1. ConfigTypeOK'
    BY MaxUnreadAssumption DEF ConfigInv, ConfigTypeOK, Equipped, Kept, Jobs, JobsOnce, Actors, Steps, Reload, Go, fileVars, viperVars, cronVars, history
<1>2. Equipped'
    BY DEF ConfigInv, ConfigTypeOK, Equipped, Actors, Reload, Go, fileVars, viperVars, cronVars, history
<1>3. Owned'
    BY DEF ConfigInv, ConfigTypeOK, Equipped, Owned, HasFounders, Actors, Reload, Go, fileVars, viperVars, cronVars, history
<1>4. Kept'
    BY DEF ConfigInv, ConfigTypeOK, Equipped, Kept, AddedUsersStay, Actors, Reload, Go, fileVars, viperVars, cronVars, history
<1>5. Jobs'
    BY DEF ConfigInv, ConfigTypeOK, Equipped, Jobs, JobsOnce, Actors, Reload, Go, fileVars, viperVars, cronVars, history
<1> QED BY <1>1, <1>2, <1>3, <1>4, <1>5 DEF ConfigInv

LEMMA DecodeRefusedKeeps ==
    ASSUME NEW p \in Setters \cup {Watcher}, ConfigInv, DecodeRefused(p)
    PROVE  ConfigInv'
<1> USE NoConfigAssumption, ActorsAssumption, ViewConfig
<1>1. ConfigTypeOK'
    BY MaxUnreadAssumption DEF ConfigInv, ConfigTypeOK, Equipped, Kept, Jobs, JobsOnce, Actors, Steps, DecodeRefused, Go, fileVars, viperVars, cronVars, history
<1>2. Equipped'
    BY DEF ConfigInv, ConfigTypeOK, Equipped, Actors, DecodeRefused, Go, fileVars, viperVars, cronVars, history
<1>3. Owned'
    BY DEF ConfigInv, ConfigTypeOK, Equipped, Owned, HasFounders, Actors, DecodeRefused, Go, fileVars, viperVars, cronVars, history
<1>4. Kept'
    BY DEF ConfigInv, ConfigTypeOK, Equipped, Kept, AddedUsersStay, Actors, DecodeRefused, Go, fileVars, viperVars, cronVars, history
<1>5. Jobs'
    BY DEF ConfigInv, ConfigTypeOK, Equipped, Jobs, JobsOnce, Actors, DecodeRefused, Go, fileVars, viperVars, cronVars, history
<1> QED BY <1>1, <1>2, <1>3, <1>4, <1>5 DEF ConfigInv

LEMMA DecodeKeeps ==
    ASSUME NEW p \in Setters \cup {Watcher}, ConfigInv, Decode(p)
    PROVE  ConfigInv'
<1> USE NoConfigAssumption, ActorsAssumption, ViewConfig
<1>1. ConfigTypeOK'
    BY MaxUnreadAssumption DEF ConfigInv, ConfigTypeOK, Equipped, Kept, Jobs, JobsOnce, Actors, Steps, Decode, Carry, Go, fileVars, viperVars, cronVars, history
<1>2. Equipped'
    BY DEF ConfigInv, ConfigTypeOK, Equipped, Actors, Decode, Carry, Go, fileVars, viperVars, cronVars, history
<1>3. Owned'
    BY DEF ConfigInv, ConfigTypeOK, Equipped, Owned, HasFounders, Actors, Decode, Carry, Go, fileVars, viperVars, cronVars, history
<1>4. Kept'
    BY DEF ConfigInv, ConfigTypeOK, Equipped, Kept, AddedUsersStay, Actors, Decode, Carry, Go, fileVars, viperVars, cronVars, history
<1>5. Jobs'
    BY DEF ConfigInv, ConfigTypeOK, Equipped, Jobs, JobsOnce, Actors, Decode, Carry, Go, fileVars, viperVars, cronVars, history
<1> QED BY <1>1, <1>2, <1>3, <1>4, <1>5 DEF ConfigInv

LEMMA StoreKeeps ==
    ASSUME NEW p \in Setters \cup {Watcher}, ConfigInv, Store(p)
    PROVE  ConfigInv'
<1> USE NoConfigAssumption, ActorsAssumption, ViewConfig
<1>1. ConfigTypeOK'
    BY MaxUnreadAssumption DEF ConfigInv, ConfigTypeOK, Equipped, Kept, Jobs, JobsOnce, Actors, Steps, Store, Go, fileVars, viperVars, cronVars, history
<1>2. Equipped'
    BY DEF ConfigInv, ConfigTypeOK, Equipped, Actors, Store, Go, fileVars, viperVars, cronVars, history
<1>3. Owned'
    BY DEF ConfigInv, ConfigTypeOK, Equipped, Owned, HasFounders, Actors, Store, Go, fileVars, viperVars, cronVars, history
<1>4. Kept'
    BY DEF ConfigInv, ConfigTypeOK, Equipped, Kept, AddedUsersStay, Actors, Store, Go, fileVars, viperVars, cronVars, history
<1>5. Jobs'
    BY DEF ConfigInv, ConfigTypeOK, Equipped, Jobs, JobsOnce, Actors, Store, Go, fileVars, viperVars, cronVars, history
<1> QED BY <1>1, <1>2, <1>3, <1>4, <1>5 DEF ConfigInv

LEMMA TellBotsKeeps ==
    ASSUME NEW p \in Actors, ConfigInv, TellBots(p)
    PROVE  ConfigInv'
<1> USE NoConfigAssumption, ActorsAssumption, ViewConfig
<1>1. ConfigTypeOK'
    BY MaxUnreadAssumption DEF ConfigInv, ConfigTypeOK, Equipped, Kept, Jobs, JobsOnce, Actors, Steps, TellBots, Go, fileVars, viperVars, cronVars, history
<1>2. Equipped'
    BY DEF ConfigInv, ConfigTypeOK, Equipped, Actors, TellBots, Go, fileVars, viperVars, cronVars, history
<1>3. Owned'
    BY DEF ConfigInv, ConfigTypeOK, Equipped, Owned, HasFounders, Actors, TellBots, Go, fileVars, viperVars, cronVars, history
<1>4. Kept'
    BY DEF ConfigInv, ConfigTypeOK, Equipped, Kept, AddedUsersStay, Actors, TellBots, Go, fileVars, viperVars, cronVars, history
<1>5. Jobs'
    BY DEF ConfigInv, ConfigTypeOK, Equipped, Jobs, JobsOnce, Actors, TellBots, Go, fileVars, viperVars, cronVars, history
<1> QED BY <1>1, <1>2, <1>3, <1>4, <1>5 DEF ConfigInv

LEMMA UnloadKeeps ==
    ASSUME NEW p \in Actors, ConfigInv, Unload(p)
    PROVE  ConfigInv'
<1> USE NoConfigAssumption, ActorsAssumption, ViewConfig
<1>1. ConfigTypeOK'
    BY MaxUnreadAssumption DEF ConfigInv, ConfigTypeOK, Equipped, Kept, Jobs, JobsOnce, Actors, Steps, Unload, Go, fileVars, viperVars, cronVars, history
<1>2. Equipped'
    BY DEF ConfigInv, ConfigTypeOK, Equipped, Actors, Unload, Go, fileVars, viperVars, cronVars, history
<1>3. Owned'
    BY DEF ConfigInv, ConfigTypeOK, Equipped, Owned, HasFounders, Actors, Unload, Go, fileVars, viperVars, cronVars, history
<1>4. Kept'
    BY DEF ConfigInv, ConfigTypeOK, Equipped, Kept, AddedUsersStay, Actors, Unload, Go, fileVars, viperVars, cronVars, history
<1>5. Jobs'
  <2>1. entries \in Nat /\ tracked \in {0, 1} /\ tracked <= entries /\ (entries = tracked \/ raced)
    BY DEF ConfigInv, ConfigTypeOK, Jobs, JobsOnce
  <2>2. entries' = entries - tracked /\ tracked' = 0 /\ (raced => raced')
    BY DEF Unload
  <2>3. JobsOnce'
    BY <2>1, <2>2 DEF JobsOnce
  <2>4. ASSUME ~raced', NEW r \in Actors, doing'[r] = "load"
        PROVE  r = p
    BY <2>4 DEF ConfigInv, ConfigTypeOK, Unload, Go
  <2> QED BY <2>2, <2>3, <2>4 DEF Jobs
<1> QED BY <1>1, <1>2, <1>3, <1>4, <1>5 DEF ConfigInv

LEMMA LoadJobsKeeps ==
    ASSUME NEW p \in Actors, ConfigInv, LoadJobs(p)
    PROVE  ConfigInv'
<1> USE NoConfigAssumption, ActorsAssumption, ViewConfig
<1>1. ConfigTypeOK'
    BY MaxUnreadAssumption DEF ConfigInv, ConfigTypeOK, Equipped, Kept, Jobs, JobsOnce, Actors, Steps, LoadJobs, Go, fileVars, viperVars, cronVars, history
<1>2. Equipped'
    BY DEF ConfigInv, ConfigTypeOK, Equipped, Actors, LoadJobs, Go, fileVars, viperVars, cronVars, history
<1>3. Owned'
    BY DEF ConfigInv, ConfigTypeOK, Equipped, Owned, HasFounders, Actors, LoadJobs, Go, fileVars, viperVars, cronVars, history
<1>4. Kept'
    BY DEF ConfigInv, ConfigTypeOK, Equipped, Kept, AddedUsersStay, Actors, LoadJobs, Go, fileVars, viperVars, cronVars, history
<1>5. Jobs'
    BY DEF ConfigInv, ConfigTypeOK, Equipped, Jobs, JobsOnce, Actors, LoadJobs, Go, fileVars, viperVars, cronVars, history
<1> QED BY <1>1, <1>2, <1>3, <1>4, <1>5 DEF ConfigInv

LEMMA FirstMessageKeeps ==
    ASSUME NEW u \in Users, ConfigInv, FirstMessage(u)
    PROVE  ConfigInv'
<1> USE NoConfigAssumption, ActorsAssumption, ViewConfig
<1>1. ConfigTypeOK'
    BY MaxUnreadAssumption DEF ConfigInv, ConfigTypeOK, Equipped, Kept, Jobs, JobsOnce, Actors, Steps, FirstMessage, Go, fileVars, viperVars, cronVars, history
<1>2. Equipped'
    BY DEF ConfigInv, ConfigTypeOK, Equipped, Actors, FirstMessage, Go, fileVars, viperVars, cronVars, history
<1>3. Owned'
    BY DEF ConfigInv, ConfigTypeOK, Equipped, Owned, HasFounders, Actors, FirstMessage, Go, fileVars, viperVars, cronVars, history
<1>4. Kept'
    BY DEF ConfigInv, ConfigTypeOK, Equipped, Kept, AddedUsersStay, Actors, FirstMessage, Go, fileVars, viperVars, cronVars, history
<1>5. Jobs'
    BY DEF ConfigInv, ConfigTypeOK, Equipped, Jobs, JobsOnce, Actors, FirstMessage, Go, fileVars, viperVars, cronVars, history
<1> QED BY <1>1, <1>2, <1>3, <1>4, <1>5 DEF ConfigInv

LEMMA AddUserKeeps ==
    ASSUME NEW u \in Users, ConfigInv, AddUser(u)
    PROVE  ConfigInv'
<1> USE NoConfigAssumption, ActorsAssumption, ViewConfig
<1>1. ConfigTypeOK'
    BY MaxUnreadAssumption DEF ConfigInv, ConfigTypeOK, Equipped, Kept, Jobs, JobsOnce, Actors, Steps, AddUser, Go, fileVars, viperVars, cronVars, history
<1>2. Equipped'
    BY DEF ConfigInv, ConfigTypeOK, Equipped, Actors, AddUser, Go, fileVars, viperVars, cronVars, history
<1>3. Owned'
    BY DEF ConfigInv, ConfigTypeOK, Equipped, Owned, HasFounders, Actors, AddUser, Go, fileVars, viperVars, cronVars, history
<1>4. Kept'
    BY DEF ConfigInv, ConfigTypeOK, Equipped, Kept, AddedUsersStay, Actors, AddUser, Go, fileVars, viperVars, cronVars, history
<1>5. Jobs'
    BY DEF ConfigInv, ConfigTypeOK, Equipped, Jobs, JobsOnce, Actors, AddUser, Go, fileVars, viperVars, cronVars, history
<1> QED BY <1>1, <1>2, <1>3, <1>4, <1>5 DEF ConfigInv

LEMMA ClaimNothingKeeps ==
    ASSUME NEW u \in Users, ConfigInv, ClaimNothing(u)
    PROVE  ConfigInv'
<1> USE NoConfigAssumption, ActorsAssumption, ViewConfig
<1>1. ConfigTypeOK'
    BY MaxUnreadAssumption DEF ConfigInv, ConfigTypeOK, Equipped, Kept, Jobs, JobsOnce, Actors, Steps, ClaimNothing, Go, fileVars, viperVars, cronVars, history
<1>2. Equipped'
    BY DEF ConfigInv, ConfigTypeOK, Equipped, Actors, ClaimNothing, Go, fileVars, viperVars, cronVars, history
<1>3. Owned'
    BY DEF ConfigInv, ConfigTypeOK, Equipped, Owned, HasFounders, Actors, ClaimNothing, Go, fileVars, viperVars, cronVars, history
<1>4. Kept'
    BY DEF ConfigInv, ConfigTypeOK, Equipped, Kept, AddedUsersStay, Actors, ClaimNothing, Go, fileVars, viperVars, cronVars, history
<1>5. Jobs'
    BY DEF ConfigInv, ConfigTypeOK, Equipped, Jobs, JobsOnce, Actors, ClaimNothing, Go, fileVars, viperVars, cronVars, history
<1> QED BY <1>1, <1>2, <1>3, <1>4, <1>5 DEF ConfigInv

LEMMA ClaimReadKeeps ==
    ASSUME NEW u \in Users, ConfigInv, ClaimRead(u)
    PROVE  ConfigInv'
<1> USE NoConfigAssumption, ActorsAssumption, ViewConfig
<1>1. ConfigTypeOK'
    BY MaxUnreadAssumption DEF ConfigInv, ConfigTypeOK, Equipped, Kept, Jobs, JobsOnce, Actors, Steps, ClaimRead, Go, fileVars, viperVars, cronVars, history
<1>2. Equipped'
    BY DEF ConfigInv, ConfigTypeOK, Equipped, Actors, ClaimRead, Go, fileVars, viperVars, cronVars, history
<1>3. Owned'
    BY DEF ConfigInv, ConfigTypeOK, Equipped, Owned, HasFounders, Actors, ClaimRead, Go, fileVars, viperVars, cronVars, history
<1>4. Kept'
    BY DEF ConfigInv, ConfigTypeOK, Equipped, Kept, AddedUsersStay, Actors, ClaimRead, Go, fileVars, viperVars, cronVars, history
<1>5. Jobs'
    BY DEF ConfigInv, ConfigTypeOK, Equipped, Jobs, JobsOnce, Actors, ClaimRead, Go, fileVars, viperVars, cronVars, history
<1> QED BY <1>1, <1>2, <1>3, <1>4, <1>5 DEF ConfigInv

LEMMA ClaimRenameKeeps ==
    ASSUME NEW u \in Users, ConfigInv, ClaimRename(u)
    PROVE  ConfigInv'
<1> USE NoConfigAssumption, ActorsAssumption, ViewConfig
<1>1. ConfigTypeOK'
  <2>1. raw[u] \in Config
    BY DEF ConfigInv, Equipped, ClaimRename, Go
  <2>2. file' \in Config
    BY <2>1 DEF Config, ClaimRename
  <2>3. unread' \in 0 .. MaxUnread
    BY MaxUnreadAssumption DEF ClaimRename, Notify
  <2> QED BY <2>2, <2>3 DEF ConfigInv, ConfigTypeOK, Actors, Steps, ClaimRename, Go, viperVars, cronVars
<1>2. Equipped'
    BY DEF ConfigInv, ConfigTypeOK, Equipped, Actors, ClaimRename, Notify, Go, fileVars, viperVars, cronVars, history
<1>3. Owned'
    BY DEF ConfigInv, ConfigTypeOK, Equipped, Owned, HasFounders, Actors, ClaimRename, Notify, Go, fileVars, viperVars, cronVars, history
<1>4. Kept'
    BY DEF ConfigInv, ConfigTypeOK, Equipped, Kept, AddedUsersStay, Actors, ClaimRename, Notify, Go, fileVars, viperVars, cronVars, history
<1>5. Jobs'
    BY DEF ConfigInv, ConfigTypeOK, Equipped, Jobs, JobsOnce, Actors, ClaimRename, Notify, Go, fileVars, viperVars, cronVars, history
<1> QED BY <1>1, <1>2, <1>3, <1>4, <1>5 DEF ConfigInv

LEMMA ClaimRereadKeeps ==
    ASSUME NEW u \in Users, ConfigInv, ClaimReread(u)
    PROVE  ConfigInv'
<1> USE NoConfigAssumption, ActorsAssumption, ViewConfig
<1> DEFINE read == IF file = Torn THEN viper ELSE file
           fresh == Over(read, override)
<1>a. phase # "off" /\ viper \in Config /\ file \in Config \cup {Torn}
    BY DEF ConfigInv, ConfigTypeOK, Equipped, Actors, ClaimReread
<1>b. read \in Config /\ founders \subseteq read.users
    BY <1>a DEF ConfigInv, Owned, HasFounders
<1>c. fresh \in Config /\ founders \subseteq fresh.users
    BY <1>b, OverConfig DEF ConfigInv, ConfigTypeOK
<1>d. /\ viper' = read /\ lock' = NoOne
      /\ \/ /\ doing' = [doing EXCEPT ![u] = "tell"]
            /\ current' = fresh
            /\ carried' = [carried EXCEPT ![u] = fresh]
         \/ /\ doing' = [doing EXCEPT ![u] = "idle"]
            /\ UNCHANGED <<current, carried>>
      /\ mixed' \in BOOLEAN
      /\ UNCHANGED <<fileVars, phase, override, raw, bots, cronVars, founders, added, raced>>
    BY DEF ClaimReread, Carry, Go, ConfigInv, ConfigTypeOK
<1> HIDE DEF read, fresh
<1>1. ConfigTypeOK'
    BY <1>b, <1>c, <1>d DEF ConfigInv, ConfigTypeOK, Actors, Steps, fileVars, cronVars
<1>2. Equipped'
  <2>1. phase = "serving" /\ bots \in Config
    BY DEF ConfigInv, Equipped, Actors, ClaimReread
  <2> QED BY <1>a, <1>b, <1>c, <1>d, <2>1 DEF ConfigInv, ConfigTypeOK, Equipped, Actors, fileVars, cronVars
<1>3. Owned'
    BY <1>b, <1>c, <1>d DEF ConfigInv, ConfigTypeOK, Owned, HasFounders, Actors, fileVars, cronVars
<1>4. Kept'
    BY DEF ConfigInv, ConfigTypeOK, Equipped, Kept, AddedUsersStay, Actors, ClaimReread, Carry, Go, fileVars, viperVars, cronVars, history
<1>5. Jobs'
    BY DEF ConfigInv, ConfigTypeOK, Equipped, Jobs, JobsOnce, Actors, ClaimReread, Carry, Go, fileVars, viperVars, cronVars, history
<1> QED BY <1>1, <1>2, <1>3, <1>4, <1>5 DEF ConfigInv

LEMMA EditFileKeeps ==
    ASSUME NEW v \in Settings, NEW ok \in BOOLEAN, ConfigInv, EditFile(v, ok)
    PROVE  ConfigInv'
<1> USE NoConfigAssumption, ActorsAssumption, ViewConfig
<1>1. ConfigTypeOK'
  <2>1. file \in Config
    BY DEF ConfigInv, ConfigTypeOK, EditFile
  <2>2. file' \in Config
    BY <2>1 DEF Config, EditFile
  <2>3. unread' \in 0 .. MaxUnread
    BY MaxUnreadAssumption DEF ConfigInv, ConfigTypeOK, EditFile, Notify
  <2> QED BY <2>2, <2>3 DEF ConfigInv, ConfigTypeOK, EditFile, viperVars, cronVars, history
<1>2. Equipped'
    BY DEF ConfigInv, ConfigTypeOK, Equipped, Actors, EditFile, Notify, fileVars, viperVars, cronVars, history
<1>3. Owned'
    BY DEF ConfigInv, ConfigTypeOK, Equipped, Owned, HasFounders, Actors, EditFile, Notify, fileVars, viperVars, cronVars, history
<1>4. Kept'
    BY DEF ConfigInv, ConfigTypeOK, Equipped, Kept, AddedUsersStay, Actors, EditFile, Notify, fileVars, viperVars, cronVars, history
<1>5. Jobs'
    BY DEF ConfigInv, ConfigTypeOK, Equipped, Jobs, JobsOnce, Actors, EditFile, Notify, fileVars, viperVars, cronVars, history
<1> QED BY <1>1, <1>2, <1>3, <1>4, <1>5 DEF ConfigInv

LEMMA LoadConfigKeeps ==
    ASSUME ConfigInv, LoadConfig
    PROVE  ConfigInv'
<1> USE NoConfigAssumption, ActorsAssumption, ViewConfig
<1>1. ConfigTypeOK'
    BY MaxUnreadAssumption DEF ConfigInv, ConfigTypeOK, Equipped, Kept, Jobs, JobsOnce, Actors, Steps, LoadConfig, Loadable, fileVars, viperVars, cronVars, history
<1>2. Equipped'
    BY DEF ConfigInv, ConfigTypeOK, Equipped, Actors, LoadConfig, Loadable, fileVars, viperVars, cronVars, history
<1>3. Owned'
    BY DEF ConfigInv, ConfigTypeOK, Equipped, Owned, HasFounders, Actors, LoadConfig, Loadable, fileVars, viperVars, cronVars, history
<1>4. Kept'
    BY DEF ConfigInv, ConfigTypeOK, Equipped, Kept, AddedUsersStay, Actors, LoadConfig, Loadable, fileVars, viperVars, cronVars, history
<1>5. Jobs'
    BY DEF ConfigInv, ConfigTypeOK, Equipped, Jobs, JobsOnce, Actors, LoadConfig, Loadable, fileVars, viperVars, cronVars, history
<1> QED BY <1>1, <1>2, <1>3, <1>4, <1>5 DEF ConfigInv

LEMMA ServeKeeps ==
    ASSUME ConfigInv, Serve
    PROVE  ConfigInv'
<1> USE NoConfigAssumption, ActorsAssumption, ViewConfig
<1>1. ConfigTypeOK'
    BY MaxUnreadAssumption DEF ConfigInv, ConfigTypeOK, Equipped, Kept, Jobs, JobsOnce, Actors, Steps, Serve, fileVars, viperVars, cronVars, history
<1>2. Equipped'
  <2>1. phase' = "serving" /\ bots' \in Config
    BY DEF ConfigInv, Equipped, Serve
  <2>2. ASSUME NEW p \in Actors
        PROVE  doing[p] \notin {"tell", "unload", "load"} /\ (p = Main => doing[p] = "idle")
    BY DEF ConfigInv, Equipped, Serve
  <2> QED BY <2>1, <2>2 DEF ConfigInv, ConfigTypeOK, Equipped, Actors, Serve, fileVars, viperVars, history
<1>3. Owned'
    BY DEF ConfigInv, ConfigTypeOK, Equipped, Owned, HasFounders, Actors, Serve, fileVars, viperVars, cronVars, history
<1>4. Kept'
    BY DEF ConfigInv, ConfigTypeOK, Equipped, Kept, AddedUsersStay, Actors, Serve, fileVars, viperVars, cronVars, history
<1>5. Jobs'
    BY DEF ConfigInv, ConfigTypeOK, Equipped, Jobs, JobsOnce, Actors, Serve, fileVars, viperVars, cronVars, history
<1> QED BY <1>1, <1>2, <1>3, <1>4, <1>5 DEF ConfigInv

LEMMA ForgetKeeps ==
    ASSUME ConfigInv, Forget
    PROVE  ConfigInv'
<1> USE NoConfigAssumption, ActorsAssumption, ViewConfig
<1>1. ConfigTypeOK'
  <2>1. /\ doing' \in [Actors -> Steps] /\ carried' \in [Actors -> Config \cup {NoConfig}]
        /\ raw' \in [Users -> Config \cup {NoConfig}]
    BY DEF Forget, Steps
  <2>2. unread' \in 0 .. MaxUnread
    BY MaxUnreadAssumption DEF Forget
  <2> QED BY <2>1, <2>2 DEF ConfigInv, ConfigTypeOK, Forget
<1>2. Equipped'
    BY DEF ConfigInv, ConfigTypeOK, Equipped, Actors, Forget, fileVars, viperVars, cronVars, history
<1>3. Owned'
    BY DEF ConfigInv, ConfigTypeOK, Equipped, Owned, HasFounders, Actors, Forget, fileVars, viperVars, cronVars, history
<1>4. Kept'
    BY DEF ConfigInv, ConfigTypeOK, Equipped, Kept, AddedUsersStay, Actors, Forget, fileVars, viperVars, cronVars, history
<1>5. Jobs'
    BY DEF ConfigInv, ConfigTypeOK, Equipped, Jobs, JobsOnce, Actors, Forget, fileVars, viperVars, cronVars, history
<1> QED BY <1>1, <1>2, <1>3, <1>4, <1>5 DEF ConfigInv

-----------------------------------------------------------------------------
(* The inductive invariant of the updates.                                 *)

\* Whoever waits for an answer is owed it by somebody: by the goroutine of the
\* update, by the restart note, or by the one that has taken it.
AnswerOwed ==
    \A c \in Chats : told[c] = "waits" =>
        \/ step[c] # "idle" /\ c \notin orphans
        \/ note = c \/ greeting = c

\* It is owed by a note before the process is replaced; what lives on after that
\* is building.
Owed ==
    /\ AnswerOwed
    /\ \A c \in Chats : step[c] = "exec" /\ told[c] = "waits" => note = c \/ greeting = c
    /\ \A b \in orphans : step[b] \in {"build", "link"}

UpdateInv == UpdateTypeOK /\ Owed

LEMMA UpdateInitial == UpdateInit => UpdateInv
BY BuildersAssumption, MaxCommitAssumption
   DEF UpdateInit, UpdateInv, UpdateTypeOK, Owed, AnswerOwed, Builders, Stages, Binary

LEMMA NewCommitKeeps ==
    ASSUME UpdateInv, NewCommit
    PROVE  UpdateInv'
<1> USE BuildersAssumption, MaxCommitAssumption
<1>1. UpdateTypeOK'
  <2>1. /\ remote \in 0 .. MaxCommit /\ head \in 0 .. remote
        /\ got \in [Builders -> 0 .. MaxCommit] /\ bin \in Binary
        /\ step \in [Builders -> Stages]
    BY DEF UpdateInv, UpdateTypeOK
  <2>2. remote' \in 0 .. MaxCommit /\ head' \in 0 .. remote'
    BY <2>1 DEF NewCommit
  <2> QED BY <2>1, <2>2 DEF UpdateInv, UpdateTypeOK, NewCommit, filesVars, buildVars
<1>2. Owed'
    BY DEF UpdateInv, UpdateTypeOK, Owed, AnswerOwed, Builders, NewCommit, repoVars, filesVars, buildVars
<1> QED BY <1>1, <1>2 DEF UpdateInv

LEMMA AskKeeps ==
    ASSUME NEW c \in Chats, UpdateInv, Ask(c)
    PROVE  UpdateInv'
<1> USE BuildersAssumption, MaxCommitAssumption
<1>1. UpdateTypeOK'
    BY DEF UpdateInv, UpdateTypeOK, Owed, Builders, Stages, Binary, Ask, Advance, repoVars, filesVars, buildVars
<1>2. Owed'
    BY DEF UpdateInv, UpdateTypeOK, Owed, AnswerOwed, Builders, Ask, Advance, repoVars, filesVars, buildVars
<1> QED BY <1>1, <1>2 DEF UpdateInv

LEMMA AutoCheckKeeps ==
    ASSUME UpdateInv, AutoCheck
    PROVE  UpdateInv'
<1> USE BuildersAssumption, MaxCommitAssumption
<1>1. UpdateTypeOK'
    BY DEF UpdateInv, UpdateTypeOK, Owed, Builders, Stages, Binary, AutoCheck, Advance, repoVars, filesVars, buildVars
<1>2. Owed'
    BY DEF UpdateInv, UpdateTypeOK, Owed, AnswerOwed, Builders, AutoCheck, Advance, repoVars, filesVars, buildVars
<1> QED BY <1>1, <1>2 DEF UpdateInv

LEMMA PullKeeps ==
    ASSUME NEW b \in Builders, UpdateInv, Pull(b)
    PROVE  UpdateInv'
<1> USE BuildersAssumption, MaxCommitAssumption
<1>1. UpdateTypeOK'
  <2>1. /\ remote \in 0 .. MaxCommit /\ head \in 0 .. remote
        /\ got \in [Builders -> 0 .. MaxCommit] /\ bin \in Binary
        /\ step \in [Builders -> Stages]
    BY DEF UpdateInv, UpdateTypeOK
  <2>2. /\ head' \in 0 .. MaxCommit /\ remote' \in 0 .. MaxCommit
        /\ head' \in 0 .. remote'
    BY <2>1 DEF Pull
  <2> QED BY <2>1, <2>2 DEF UpdateInv, UpdateTypeOK, Stages, Pull, Advance, filesVars
<1>2. Owed'
    BY DEF UpdateInv, UpdateTypeOK, Owed, AnswerOwed, Builders, Pull, Advance, repoVars, filesVars, buildVars
<1> QED BY <1>1, <1>2 DEF UpdateInv

LEMMA PullFailsKeeps ==
    ASSUME NEW b \in Builders, UpdateInv, PullFails(b)
    PROVE  UpdateInv'
<1> USE BuildersAssumption, MaxCommitAssumption
<1>1. UpdateTypeOK'
  <2>1. /\ remote \in 0 .. MaxCommit /\ head \in 0 .. remote
        /\ got \in [Builders -> 0 .. MaxCommit] /\ bin \in Binary
        /\ step \in [Builders -> Stages]
    BY DEF UpdateInv, UpdateTypeOK
  <2>2. head \in 0 .. MaxCommit
    BY <2>1
  <2> QED BY <2>1, <2>2 DEF UpdateInv, UpdateTypeOK, Stages, PullFails, Advance, TellError, Tell, repoVars, filesVars
<1>2. Owed'
    BY DEF UpdateInv, UpdateTypeOK, Owed, AnswerOwed, Builders, PullFails, Advance, TellError, Tell, repoVars, filesVars, buildVars
<1> QED BY <1>1, <1>2 DEF UpdateInv

LEMMA LinkKeeps ==
    ASSUME NEW b \in Builders, UpdateInv, Link(b)
    PROVE  UpdateInv'
<1> USE BuildersAssumption, MaxCommitAssumption
<1>1. UpdateTypeOK'
    BY DEF UpdateInv, UpdateTypeOK, Owed, Builders, Stages, Binary, Link, Advance, repoVars, filesVars, buildVars
<1>2. Owed'
    BY DEF UpdateInv, UpdateTypeOK, Owed, AnswerOwed, Builders, Link, Advance, repoVars, filesVars, buildVars
<1> QED BY <1>1, <1>2 DEF UpdateInv

LEMMA WrittenKeeps ==
    ASSUME NEW b \in Builders, UpdateInv, Written(b)
    PROVE  UpdateInv'
<1> USE BuildersAssumption, MaxCommitAssumption
<1>1. UpdateTypeOK'
  <2>1. /\ remote \in 0 .. MaxCommit /\ head \in 0 .. remote
        /\ got \in [Builders -> 0 .. MaxCommit] /\ bin \in Binary
        /\ step \in [Builders -> Stages]
    BY DEF UpdateInv, UpdateTypeOK
  <2>2. /\ bin' \in Binary
        /\ new' \in Binary \cup {NoFile}
        /\ got' \in [Builders -> 0 .. MaxCommit]
        /\ step' \in [Builders -> Stages]
    <3>1. ASSUME NEW f \in Binary
          PROVE  [f EXCEPT !.writer = NoBuilder] \in Binary
      BY DEF Binary
    <3>2. bin' \in Binary
      BY <2>1, <3>1 DEF Written
    <3>3. new' \in Binary \cup {NoFile}
      BY <3>1 DEF UpdateInv, UpdateTypeOK, Written
    <3>4. got' = [got EXCEPT ![b] = 0] /\ 0 \in 0 .. MaxCommit
      BY DEF Written, BuildEnds
    <3>5. step' \in [Builders -> Stages]
      BY <2>1 DEF Written, BuildEnds, Stages
    <3> QED BY <2>1, <3>2, <3>3, <3>4, <3>5
  <2> QED BY <2>1, <2>2 DEF UpdateInv, UpdateTypeOK, Written, BuildEnds, repoVars
<1>2. Owed'
    BY DEF UpdateInv, UpdateTypeOK, Owed, AnswerOwed, Builders, Written, BuildEnds, repoVars, filesVars, buildVars
<1> QED BY <1>1, <1>2 DEF UpdateInv

LEMMA BuildFailsKeeps ==
    ASSUME NEW b \in Builders, UpdateInv, BuildFails(b)
    PROVE  UpdateInv'
<1> USE BuildersAssumption, MaxCommitAssumption
<1>1. UpdateTypeOK'
  <2>1. /\ remote \in 0 .. MaxCommit /\ head \in 0 .. remote
        /\ got \in [Builders -> 0 .. MaxCommit] /\ bin \in Binary
        /\ step \in [Builders -> Stages]
    BY DEF UpdateInv, UpdateTypeOK
  <2>2. got' = [got EXCEPT ![b] = 0] /\ 0 \in 0 .. MaxCommit
    BY DEF BuildFails
  <2>3. orphans' = orphans \ {b} /\ (new' = new \/ new' = NoFile)
    BY DEF BuildFails
  <2>4. step' \in [Builders -> Stages]
    BY <2>1 DEF BuildFails, Advance, Stages
  <2>5. told' \in [Chats -> {"nothing", "waits", "told", "cut off"}]
    BY DEF UpdateInv, UpdateTypeOK, BuildFails, TellError, Tell
  <2> QED BY <2>1, <2>2, <2>3, <2>4, <2>5 DEF UpdateInv, UpdateTypeOK, BuildFails, repoVars
<1>2. Owed'
    BY DEF UpdateInv, UpdateTypeOK, Owed, AnswerOwed, Builders, BuildFails, Advance, TellError, Tell, repoVars, filesVars, buildVars
<1> QED BY <1>1, <1>2 DEF UpdateInv

LEMMA SwapKeeps ==
    ASSUME NEW c \in Chats, UpdateInv, Swap(c)
    PROVE  UpdateInv'
<1> USE BuildersAssumption, MaxCommitAssumption
<1>1. UpdateTypeOK'
    BY DEF UpdateInv, UpdateTypeOK, Owed, Builders, Stages, Binary, Swap, Advance, repoVars, filesVars, buildVars
<1>2. Owed'
    BY DEF UpdateInv, UpdateTypeOK, Owed, AnswerOwed, Builders, Swap, Advance, repoVars, filesVars, buildVars
<1> QED BY <1>1, <1>2 DEF UpdateInv

LEMMA SwapFailsKeeps ==
    ASSUME NEW c \in Chats, UpdateInv, SwapFails(c)
    PROVE  UpdateInv'
<1> USE BuildersAssumption, MaxCommitAssumption
<1>1. UpdateTypeOK'
    BY DEF UpdateInv, UpdateTypeOK, Owed, Builders, Stages, Binary, SwapFails, Advance, Tell, repoVars, filesVars, buildVars
<1>2. Owed'
    BY DEF UpdateInv, UpdateTypeOK, Owed, AnswerOwed, Builders, SwapFails, Advance, Tell, repoVars, filesVars, buildVars
<1> QED BY <1>1, <1>2 DEF UpdateInv

LEMMA SaveNoteKeeps ==
    ASSUME NEW c \in Chats, UpdateInv, SaveNote(c)
    PROVE  UpdateInv'
<1> USE BuildersAssumption, MaxCommitAssumption
<1>1. UpdateTypeOK'
    BY DEF UpdateInv, UpdateTypeOK, Owed, Builders, Stages, Binary, SaveNote, Advance, repoVars, filesVars, buildVars
<1>2. Owed'
    BY DEF UpdateInv, UpdateTypeOK, Owed, AnswerOwed, Builders, SaveNote, Advance, repoVars, filesVars, buildVars
<1> QED BY <1>1, <1>2 DEF UpdateInv

LEMMA ExecFailsKeeps ==
    ASSUME NEW c \in Chats, UpdateInv, ExecFails(c)
    PROVE  UpdateInv'
<1> USE BuildersAssumption, MaxCommitAssumption
<1>1. UpdateTypeOK'
    BY DEF UpdateInv, UpdateTypeOK, Owed, Builders, Stages, Binary, ExecFails, Advance, Tell, repoVars, filesVars, buildVars
<1>2. Owed'
    BY DEF UpdateInv, UpdateTypeOK, Owed, AnswerOwed, Builders, ExecFails, Advance, Tell, repoVars, filesVars, buildVars
<1> QED BY <1>1, <1>2 DEF UpdateInv

LEMMA TakeNoteKeeps ==
    ASSUME UpdateInv, TakeNote
    PROVE  UpdateInv'
<1> USE BuildersAssumption, MaxCommitAssumption
<1>1. UpdateTypeOK'
    BY DEF UpdateInv, UpdateTypeOK, Owed, Builders, Stages, Binary, TakeNote, repoVars, filesVars, buildVars
<1>2. Owed'
    BY DEF UpdateInv, UpdateTypeOK, Owed, AnswerOwed, Builders, TakeNote, repoVars, filesVars, buildVars
<1> QED BY <1>1, <1>2 DEF UpdateInv

LEMMA GreetKeeps ==
    ASSUME UpdateInv, Greet
    PROVE  UpdateInv'
<1> USE BuildersAssumption, MaxCommitAssumption
<1>1. UpdateTypeOK'
    BY DEF UpdateInv, UpdateTypeOK, Owed, Builders, Stages, Binary, Greet, Tell, repoVars, filesVars, buildVars
<1>2. Owed'
    BY DEF UpdateInv, UpdateTypeOK, Owed, AnswerOwed, Builders, Greet, Tell, repoVars, filesVars, buildVars
<1> QED BY <1>1, <1>2 DEF UpdateInv

LEMMA ExecKeeps ==
    ASSUME NEW c \in Chats, UpdateInv, Exec(c)
    PROVE  UpdateInv'
<1> USE BuildersAssumption, MaxCommitAssumption
<1>1. UpdateTypeOK'
    BY DEF UpdateInv, UpdateTypeOK, Owed, Builders, Stages, Binary, Exec, CutOff, repoVars, filesVars, buildVars
<1>2. Owed'
    BY DEF UpdateInv, UpdateTypeOK, Owed, AnswerOwed, Builders, Exec, CutOff, repoVars, filesVars, buildVars
<1> QED BY <1>1, <1>2 DEF UpdateInv

LEMMA ExitKeeps ==
    ASSUME UpdateInv, Exit
    PROVE  UpdateInv'
<1> USE BuildersAssumption, MaxCommitAssumption
<1>1. UpdateTypeOK'
    BY DEF UpdateInv, UpdateTypeOK, Owed, Builders, Stages, Binary, Exit, CutOff, repoVars, filesVars, buildVars
<1>2. Owed'
    BY DEF UpdateInv, UpdateTypeOK, Owed, AnswerOwed, Builders, Exit, CutOff, repoVars, filesVars, buildVars
<1> QED BY <1>1, <1>2 DEF UpdateInv

LEMMA RunLoopKeeps ==
    ASSUME NEW auto \in BOOLEAN, UpdateInv, RunLoop(auto)
    PROVE  UpdateInv'
<1> USE BuildersAssumption, MaxCommitAssumption
<1>1. UpdateTypeOK'
  <2>1. /\ remote \in 0 .. MaxCommit /\ head \in 0 .. remote
        /\ got \in [Builders -> 0 .. MaxCommit] /\ bin \in Binary
        /\ step \in [Builders -> Stages]
    BY DEF UpdateInv, UpdateTypeOK
  <2>2. /\ bin' \in Binary /\ image' \in 0 .. MaxCommit \cup {NoImage}
        /\ step' \in [Builders -> Stages]
    <3>1. bin' \in Binary
      BY <2>1 DEF UpdateInv, UpdateTypeOK, RunLoop
    <3>2. bin'.commit \in 0 .. MaxCommit
      BY <3>1 DEF Binary
    <3> QED BY <2>1, <3>1, <3>2 DEF RunLoop, Advance, Stages
  <2> QED BY <2>1, <2>2 DEF UpdateInv, UpdateTypeOK, RunLoop, repoVars
<1>2. Owed'
    BY DEF UpdateInv, UpdateTypeOK, Owed, AnswerOwed, Builders, RunLoop, Advance, repoVars, filesVars, buildVars
<1> QED BY <1>1, <1>2 DEF UpdateInv


-----------------------------------------------------------------------------
(* The composition.                                                        *)

LEMMA ActorStepKeeps ==
    ASSUME NEW p \in Actors, ConfigInv, ActorStep(p)
    PROVE  ConfigInv' /\ phase' = phase
<1>1. CASE p \in Setters /\ SetOpen(p)
    BY <1>1, SetOpenKeeps DEF SetOpen
<1>2. CASE p \in Setters /\ SetWrite(p)
    BY <1>2, SetWriteKeeps DEF SetWrite
<1>3. CASE p = Watcher /\ Reload
    BY <1>3, ReloadKeeps DEF Reload
<1>4. CASE p \in Setters \cup {Watcher} /\ Decode(p)
    BY <1>4, DecodeKeeps DEF Decode
<1>5. CASE p \in Setters \cup {Watcher} /\ DecodeRefused(p)
    BY <1>5, DecodeRefusedKeeps DEF DecodeRefused
<1>6. CASE p \in Setters \cup {Watcher} /\ Store(p)
    BY <1>6, StoreKeeps DEF Store
<1>7. CASE p \in Users /\ ClaimNothing(p)
    BY <1>7, ClaimNothingKeeps DEF ClaimNothing
<1>8. CASE p \in Users /\ ClaimRead(p)
    BY <1>8, ClaimReadKeeps DEF ClaimRead
<1>9. CASE p \in Users /\ ClaimRename(p)
    BY <1>9, ClaimRenameKeeps DEF ClaimRename
<1>10. CASE p \in Users /\ ClaimReread(p)
    BY <1>10, ClaimRereadKeeps DEF ClaimReread
<1>11. CASE TellBots(p)
    BY <1>11, TellBotsKeeps DEF TellBots
<1>12. CASE Unload(p)
    BY <1>12, UnloadKeeps DEF Unload
<1>13. CASE LoadJobs(p)
    BY <1>13, LoadJobsKeeps DEF LoadJobs
<1> QED BY <1>1, <1>2, <1>3, <1>4, <1>5, <1>6, <1>7, <1>8, <1>9, <1>10, <1>11, <1>12, <1>13
        DEF ActorStep

LEMMA CommandKeeps ==
    ASSUME ConfigInv, Command
    PROVE  ConfigInv' /\ phase' = phase
<1>1. CASE \E s \in Setters, v \in Settings : Set(s, v)
    BY <1>1, SetKeeps DEF Set
<1>2. CASE \E u \in Users : FirstMessage(u)
    BY <1>2, FirstMessageKeeps DEF FirstMessage
<1>3. CASE \E u \in Users : AddUser(u)
    BY <1>3, AddUserKeeps DEF AddUser
<1>4. CASE \E v \in Settings, ok \in BOOLEAN : EditFile(v, ok)
    BY <1>4, EditFileKeeps DEF EditFile
<1> QED BY <1>1, <1>2, <1>3, <1>4 DEF Command

LEMMA BuildStepKeeps ==
    ASSUME NEW b \in Builders, UpdateInv, BuildStep(b)
    PROVE  UpdateInv' /\ greeting' = greeting
<1>1. CASE Pull(b)
    BY <1>1, PullKeeps DEF Pull
<1>2. CASE PullFails(b)
    BY <1>2, PullFailsKeeps DEF PullFails
<1>3. CASE Link(b)
    BY <1>3, LinkKeeps DEF Link
<1>4. CASE Written(b)
    BY <1>4, WrittenKeeps DEF Written
<1>5. CASE BuildFails(b)
    BY <1>5, BuildFailsKeeps DEF BuildFails
<1>6. CASE b \in Chats /\ Swap(b)
    BY <1>6, SwapKeeps DEF Swap
<1>7. CASE b \in Chats /\ SwapFails(b)
    BY <1>7, SwapFailsKeeps DEF SwapFails
<1>8. CASE b \in Chats /\ SaveNote(b)
    BY <1>8, SaveNoteKeeps DEF SaveNote
<1>9. CASE b \in Chats /\ ExecFails(b)
    BY <1>9, ExecFailsKeeps DEF ExecFails, filesVars
<1> QED BY <1>1, <1>2, <1>3, <1>4, <1>5, <1>6, <1>7, <1>8, <1>9 DEF BuildStep

\* A process greets nobody before it serves: no note is taken, and lost, by a
\* start that fails.
Silent == phase # "serving" => greeting = "done"

DaemonInv == ConfigInv /\ UpdateInv /\ Silent /\ moves \in [Kinds -> Nat]

LEMMA ConfigFrame ==
    ASSUME ConfigInv, UNCHANGED configVars
    PROVE  ConfigInv' /\ phase' = phase
BY DEF configVars, fileVars, viperVars, cronVars, history, ConfigInv, ConfigTypeOK,
       Equipped, Owned, HasFounders, Kept, AddedUsersStay, Jobs, JobsOnce

LEMMA UpdateFrame ==
    ASSUME UpdateInv, UNCHANGED updateVars
    PROVE  UpdateInv' /\ greeting' = greeting
BY DEF updateVars, repoVars, filesVars, buildVars, UpdateInv, UpdateTypeOK, Owed, AnswerOwed

LEMMA MoveKeeps ==
    ASSUME NEW kind \in Kinds, moves \in [Kinds -> Nat], Move(kind)
    PROVE  moves' \in [Kinds -> Nat]
BY DEF Move

\* The end of the process, by exec or otherwise.
LEMMA EndKeeps ==
    ASSUME ConfigInv, UpdateInv, Forget, Exit \/ \E c \in Chats : Exec(c)
    PROVE  ConfigInv' /\ UpdateInv' /\ Silent'
<1>1. ConfigInv'
    BY ForgetKeeps
<1>2. UpdateInv' /\ greeting' = "done"
    BY ExitKeeps, ExecKeeps DEF Exit, Exec, CutOff
<1> QED BY <1>1, <1>2 DEF Silent

LEMMA DaemonInitial == Init => DaemonInv
BY ConfigInitial, UpdateInitial DEF Init, DaemonInv, Silent, UpdateInit

LEMMA DaemonStep == DaemonInv /\ [Next]_vars => DaemonInv'
<1> SUFFICES ASSUME DaemonInv, [Next]_vars
             PROVE  DaemonInv'
    OBVIOUS
<1>a. ConfigInv /\ UpdateInv /\ Silent /\ moves \in [Kinds -> Nat]
    BY DEF DaemonInv
<1>1. CASE ConfigCommand
    BY <1>a, <1>1, CommandKeeps, UpdateFrame, MoveKeeps DEF ConfigCommand, DaemonInv, Silent, Kinds
<1>2. CASE Push
    BY <1>a, <1>2, ConfigFrame, NewCommitKeeps, MoveKeeps
    DEF Push, NewCommit, DaemonInv, Silent, Kinds
<1>3. ASSUME NEW c \in Chats, Update(c)
      PROVE  DaemonInv'
    BY <1>a, <1>3, ConfigFrame, AskKeeps, MoveKeeps DEF Update, Ask, DaemonInv, Silent, Kinds
<1>4. CASE Kill \/ NoTelegram
    BY <1>a, <1>4, EndKeeps, MoveKeeps DEF Kill, NoTelegram, DaemonInv, Kinds
<1>5. CASE AutoUpdate
    BY <1>a, <1>5, ConfigFrame, AutoCheckKeeps DEF AutoUpdate, AutoCheck, DaemonInv, Silent
<1>6. ASSUME NEW p \in Actors, ConfigStep(p)
      PROVE  DaemonInv'
    BY <1>a, <1>6, ActorStepKeeps, UpdateFrame DEF ConfigStep, DaemonInv, Silent
<1>7. ASSUME NEW b \in Builders, Build(b)
      PROVE  DaemonInv'
    BY <1>a, <1>7, BuildStepKeeps, ConfigFrame DEF Build, DaemonInv, Silent
<1>8. CASE LifeStep
  <2>1. ASSUME NEW c \in Chats, ReExec(c)
        PROVE  DaemonInv'
    BY <1>a, <2>1, EndKeeps DEF ReExec, DaemonInv
  <2>2. CASE Notice
    <3>1. UpdateInv' /\ (greeting = "done" => greeting' = "done")
      BY <1>a, <2>2, TakeNoteKeeps, GreetKeeps DEF Notice, TakeNote, Greet
    <3> QED BY <1>a, <2>2, <3>1, ConfigFrame DEF Notice, DaemonInv, Silent
  <2>3. CASE Start
    <3>1. PICK auto \in BOOLEAN : RunLoop(auto)
      BY <2>3 DEF Start
    <3>2. UpdateInv' /\ greeting' = greeting
      BY <1>a, <3>1, RunLoopKeeps DEF RunLoop
    <3> QED BY <1>a, <2>3, <3>2, ConfigFrame DEF Start, DaemonInv, Silent
  <2>4. CASE Load
    <3>1. UpdateInv' /\ greeting' = greeting /\ phase = "off"
      BY <1>a, <2>4, UpdateFrame DEF Load, LoadConfig
    <3> QED BY <1>a, <2>4, <3>1, LoadConfigKeeps DEF Load, DaemonInv, Silent
  <2>5. CASE Up
    <3>1. ConfigInv' /\ phase' = "serving" /\ greeting = "done"
      BY <1>a, <2>5, ServeKeeps DEF Up, Serve, Silent
    <3>2. UpdateInv'
      BY <1>a, <2>5, <3>1, BuildersAssumption
      DEF Up, repoVars, filesVars, buildVars, UpdateInv, UpdateTypeOK, Owed, AnswerOwed
    <3> QED BY <1>a, <2>5, <3>1, <3>2 DEF Up, DaemonInv, Silent
  <2>6. CASE BootFails
    BY <1>a, <2>6, EndKeeps DEF BootFails, DaemonInv
  <2> QED BY <1>8, <2>1, <2>2, <2>3, <2>4, <2>5, <2>6 DEF LifeStep
<1>9. CASE UNCHANGED vars
    BY <1>a, <1>9, ConfigFrame, UpdateFrame DEF vars, DaemonInv, Silent
<1> QED BY <1>1, <1>2, <1>3, <1>4, <1>5, <1>6, <1>7, <1>8, <1>9 DEF Next

-----------------------------------------------------------------------------
(* The copies of the configuration.                                        *)

\* viper has read the file since it was changed, or will be told to.
Synced == phase # "off" /\ unread = 0 /\ file # Torn => viper = file

\* Nobody is between a change of viper and the decode that follows it.
Decoded ==
    /\ phase # "off" /\ ~mixed /\ Accepted(View)
    /\ \A p \in Actors : doing[p] \notin {"open", "write", "decode"}

\* Then whatever is still on its way is what viper holds, and whoever has not got
\* it will.
Latest ==
    Decoded =>
        /\ \A p \in Actors : carried[p] \in {NoConfig, View}
        /\ (\A p \in Actors : doing[p] # "store") => current = View
        /\ phase = "serving" /\ (\A p \in Actors : doing[p] \notin {"store", "tell"}) =>
              bots = View

\* A process starts without a configuration.
Blank == phase = "off" => override = NoSetting /\ \A p \in Actors : carried[p] = NoConfig

CopiesInv == Synced /\ Latest /\ Blank

\* Only a running process has goroutines.
LEMMA Running ==
    ASSUME NEW p \in Actors, ConfigInv, doing[p] # "idle"
    PROVE  phase # "off"
BY DEF ConfigInv, Equipped

\* A goroutine sets out to change viper or the file, or has done so and decodes
\* next: Latest asks for nothing.
LEMMA StillToDecode ==
    ASSUME NEW p \in Actors, ConfigInv, phase' = phase, phase # "off",
           NEW from, NEW to \in {"open", "write", "decode"}, Go(p, from, to), Synced'
    PROVE  CopiesInv'
BY DEF Go, ConfigInv, ConfigTypeOK, Latest, Decoded, Blank, CopiesInv

\* A step that touches no copy in the process: it may change the file, and leave a
\* notification.
LEMMA NoCopyTouched ==
    ASSUME NEW p \in Actors, ConfigInv, CopiesInv, phase # "off",
           NEW from, NEW to, Go(p, from, to),
           from \notin {"open", "write", "decode", "store", "tell"},
           UNCHANGED <<phase, viperVars, current, bots, mixed>>,
           carried' = carried \/ carried' = [carried EXCEPT ![p] = NoConfig],
           UNCHANGED <<file, unread>> \/ Notify
    PROVE  CopiesInv'
<1>1. Synced'
    BY MaxUnreadAssumption DEF Notify, CopiesInv, Synced, ConfigInv, ConfigTypeOK, viperVars
<1>2. View' = View
    BY DEF View, Over, viperVars
<1>3. doing' = [doing EXCEPT ![p] = to] /\ doing[p] = from /\ doing \in [Actors -> Steps]
    BY DEF Go, ConfigInv, ConfigTypeOK
<1>4. Latest'
  <2> SUFFICES ASSUME Decoded'
               PROVE  /\ \A q \in Actors : carried'[q] \in {NoConfig, View}
                      /\ (\A q \in Actors : doing'[q] # "store") => current = View
                      /\ phase = "serving" /\ (\A q \in Actors : doing'[q] \notin {"store", "tell"}) =>
                            bots = View
    BY <1>2 DEF Latest
  <2>1. Decoded
    BY <1>2, <1>3 DEF Decoded, Accepted
  <2>2. \A q \in Actors : carried'[q] \in {NoConfig, View}
    BY <2>1 DEF CopiesInv, Latest, ConfigInv, ConfigTypeOK
  <2>3. (\A q \in Actors : doing'[q] \notin {"store", "tell"}) =>
            \A q \in Actors : doing[q] \notin {"store", "tell"}
    BY <1>3
  <2>4. (\A q \in Actors : doing'[q] # "store") =>
            (\A q \in Actors : doing[q] # "store")
    BY <1>3
  <2> QED BY <2>1, <2>2, <2>3, <2>4 DEF CopiesInv, Latest
<1> QED BY <1>1, <1>4 DEF CopiesInv, Blank

\* Goroutine p sets out with what viper holds, and ~mixed says that nobody else
\* carries anything else.
LEMMA CarriesView ==
    ASSUME NEW p \in Actors, ConfigInv, NEW c, Carry(p, c), ~mixed'
    PROVE  \A q \in Actors : carried'[q] \in {NoConfig, c}
BY DEF Carry, ConfigInv, ConfigTypeOK

LEMMA DecodeCopies ==
    ASSUME NEW p \in Actors, ConfigInv, CopiesInv, Decode(p)
    PROVE  CopiesInv'
<1>1. /\ View' = View /\ Synced' /\ phase' = phase /\ phase # "off"
      /\ doing'[p] = "store"
    BY Running DEF Decode, Go, View, Over, viperVars, fileVars, CopiesInv, Synced, ConfigInv, ConfigTypeOK
<1>2. ~mixed' => \A q \in Actors : carried'[q] \in {NoConfig, View}
    BY CarriesView DEF Decode
<1> QED BY <1>1, <1>2 DEF CopiesInv, Latest, Decoded, Blank

LEMMA DecodeRefusedCopies ==
    ASSUME NEW p \in Actors, ConfigInv, CopiesInv, DecodeRefused(p)
    PROVE  CopiesInv'
<1>1. /\ View' = View /\ Synced' /\ phase' = phase /\ phase # "off"
    BY Running DEF DecodeRefused, Go, View, Over, viperVars, fileVars, CopiesInv, Synced, ConfigInv
<1> QED BY <1>1 DEF DecodeRefused, CopiesInv, Latest, Decoded, Blank, Accepted

LEMMA StoreCopies ==
    ASSUME NEW p \in Actors, ConfigInv, CopiesInv, Store(p)
    PROVE  CopiesInv'
<1>1. /\ doing[p] = "store" /\ doing \in [Actors -> Steps] /\ carried[p] \in Config
      /\ carried \in [Actors -> Config \cup {NoConfig}]
    BY DEF Store, Go, ConfigInv, ConfigTypeOK, Equipped
<1>2. /\ View' = View /\ Synced' /\ phase' = phase /\ phase # "off"
    BY <1>1, Running DEF Store, View, Over, viperVars, fileVars, CopiesInv, Synced
<1>3. phase = "serving" => doing'[p] = "tell"
    BY <1>1 DEF Store, Go
<1>4. ASSUME Decoded'
      PROVE  current' = View /\ \A q \in Actors : carried'[q] \in {NoConfig, View}
  <2>1. Decoded
    BY <1>1, <1>2, <1>4 DEF Decoded, Store, Go, history, Accepted
  <2>2. carried[p] = View
    BY <1>1, <2>1, NoConfigAssumption DEF CopiesInv, Latest
  <2> QED BY <1>1, <2>1, <2>2 DEF Store, CopiesInv, Latest
<1> QED BY <1>2, <1>3, <1>4 DEF CopiesInv, Latest, Blank

LEMMA TellBotsCopies ==
    ASSUME NEW p \in Actors, ConfigInv, CopiesInv, TellBots(p)
    PROVE  CopiesInv'
<1>1. /\ doing[p] = "tell" /\ doing \in [Actors -> Steps] /\ carried[p] \in Config
      /\ doing' = [doing EXCEPT ![p] = "unload"]
    BY DEF TellBots, Go, ConfigInv, ConfigTypeOK, Equipped
<1>2. /\ View' = View /\ Synced' /\ phase' = phase /\ phase # "off"
    BY <1>1, Running DEF TellBots, View, Over, viperVars, fileVars, CopiesInv, Synced
<1>3. ASSUME Decoded'
      PROVE  /\ bots' = View
             /\ \A q \in Actors : carried'[q] \in {NoConfig, View}
             /\ (\A q \in Actors : doing'[q] # "store") => current' = View
  <2>1. Decoded
    BY <1>1, <1>2, <1>3 DEF Decoded, TellBots, history, Accepted
  <2>2. carried[p] = View
    BY <1>1, <2>1, NoConfigAssumption DEF CopiesInv, Latest
  <2> QED BY <1>1, <2>1, <2>2 DEF TellBots, CopiesInv, Latest
<1> QED BY <1>2, <1>3 DEF CopiesInv, Latest, Blank

LEMMA ClaimRereadCopies ==
    ASSUME NEW u \in Users, ConfigInv, CopiesInv, ClaimReread(u)
    PROVE  CopiesInv'
<1> DEFINE read == IF file = Torn THEN viper ELSE file
           fresh == Over(read, override)
<1>1. /\ doing[u] = "reread" /\ doing \in [Actors -> Steps] /\ u \in Actors
      /\ UNCHANGED <<file, unread, phase, override, bots>>
    BY DEF ClaimReread, ConfigInv, ConfigTypeOK, Actors, fileVars
<1>2. viper' = read /\ View' = fresh /\ phase # "off"
    BY <1>1, Running DEF ClaimReread, View
<1>3. Synced'
    BY <1>1, <1>2 DEF Synced
<1>4. CASE file # Torn /\ Accepted(fresh)
  <2>1. Go(u, "reread", "tell") /\ current' = fresh /\ Carry(u, fresh)
    BY <1>4 DEF ClaimReread
  <2>2. ~mixed' => \A q \in Actors : carried'[q] \in {NoConfig, fresh}
    BY <1>1, <2>1, CarriesView
  <2>3. doing'[u] = "tell"
    BY <1>1, <2>1 DEF Go
  <2> HIDE DEF fresh
  <2> QED BY <1>1, <1>2, <1>3, <2>1, <2>2, <2>3 DEF CopiesInv, Latest, Decoded, Blank
<1>5. CASE file # Torn /\ ~Accepted(fresh)
  <2> HIDE DEF fresh
  <2> QED BY <1>1, <1>2, <1>3, <1>5 DEF CopiesInv, Latest, Decoded, Blank, Accepted
<1>6. CASE file = Torn
  <2>1. UNCHANGED <<current, carried, mixed, viperVars>> /\ Go(u, "reread", "idle")
    BY <1>1, <1>6 DEF ClaimReread, viperVars
  <2> QED BY <1>1, <1>2, <2>1, NoCopyTouched
<1> QED BY <1>4, <1>5, <1>6

LEMMA ActorStepCopies ==
    ASSUME NEW p \in Actors, ConfigInv, CopiesInv, ActorStep(p)
    PROVE  CopiesInv'
<1>1. CASE p \in Setters /\ SetOpen(p)
  <2>1. Go(p, "open", "write") /\ phase' = phase /\ Synced' /\ phase # "off"
    BY <1>1, Running DEF SetOpen, Go, Synced
  <2> QED BY <2>1, StillToDecode
<1>2. CASE p \in Setters /\ SetWrite(p)
  <2>1. Go(p, "write", "decode") /\ phase' = phase /\ phase # "off"
    BY <1>2, Running DEF SetWrite, Go
  <2>2. Synced'
    BY <1>2, MaxUnreadAssumption DEF SetWrite, Notify, CopiesInv, Synced, viperVars
  <2> QED BY <2>1, <2>2, StillToDecode
<1>3. CASE p = Watcher /\ Reload
  <2>1. Go(p, "idle", "decode") /\ phase' = phase /\ phase # "off" /\ Synced'
    BY <1>3 DEF Reload, Synced
  <2> QED BY <2>1, StillToDecode
<1>4. CASE Decode(p)
    BY <1>4, DecodeCopies
<1>5. CASE DecodeRefused(p)
    BY <1>5, DecodeRefusedCopies
<1>6. CASE Store(p)
    BY <1>6, StoreCopies
<1>7. CASE p \in Users /\ ClaimNothing(p)
  <2>1. Go(p, "read", "idle") /\ phase # "off"
    BY <1>7, Running DEF ClaimNothing, Go
  <2> QED BY <1>7, <2>1, NoCopyTouched DEF ClaimNothing, fileVars, history
<1>8. CASE p \in Users /\ ClaimRead(p)
  <2>1. Go(p, "read", "rename") /\ phase # "off"
    BY <1>8, Running DEF ClaimRead, Go
  <2> QED BY <1>8, <2>1, NoCopyTouched DEF ClaimRead, fileVars, history
<1>9. CASE p \in Users /\ ClaimRename(p)
  <2>1. Go(p, "rename", "reread") /\ phase # "off"
    BY <1>9, Running DEF ClaimRename, Go
  <2> QED BY <1>9, <2>1, NoCopyTouched DEF ClaimRename
<1>10. CASE p \in Users /\ ClaimReread(p)
    BY <1>10, ClaimRereadCopies
<1>11. CASE TellBots(p)
    BY <1>11, TellBotsCopies
<1>12. CASE Unload(p)
  <2>1. Go(p, "unload", "load") /\ phase # "off"
    BY <1>12, Running DEF Unload, Go
  <2> QED BY <1>12, <2>1, NoCopyTouched DEF Unload, fileVars
<1>13. CASE LoadJobs(p)
  <2>1. Go(p, "load", "idle") /\ phase # "off"
    BY <1>13, Running DEF LoadJobs, Go
  <2> QED BY <1>13, <2>1, NoCopyTouched DEF LoadJobs, fileVars, history
<1> QED BY <1>1, <1>2, <1>3, <1>4, <1>5, <1>6, <1>7, <1>8, <1>9, <1>10, <1>11, <1>12, <1>13
        DEF ActorStep

LEMMA CommandCopies ==
    ASSUME ConfigInv, CopiesInv, Command
    PROVE  CopiesInv'
<1>1. ASSUME NEW s \in Setters, NEW v \in Settings, Set(s, v)
      PROVE  CopiesInv'
  <2>1. Go(s, "idle", "open") /\ phase' = phase /\ phase # "off" /\ Synced' /\ s \in Actors
    BY <1>1 DEF Set, Actors, CopiesInv, Synced, fileVars
  <2> QED BY <2>1, StillToDecode
<1>2. ASSUME NEW u \in Users, FirstMessage(u) \/ AddUser(u)
      PROVE  CopiesInv'
  <2>1. Go(u, "idle", "read") /\ phase # "off" /\ u \in Actors
    BY <1>2 DEF FirstMessage, AddUser, Actors
  <2> QED BY <1>2, <2>1, NoCopyTouched DEF FirstMessage, AddUser, fileVars, history
<1>3. ASSUME NEW v \in Settings, NEW ok \in BOOLEAN, EditFile(v, ok)
      PROVE  CopiesInv'
  <2>1. Synced'
    BY <1>3, MaxUnreadAssumption DEF EditFile, Notify, Synced
  <2>2. View' = View
    BY <1>3 DEF EditFile, View, Over, viperVars
  <2> QED BY <1>3, <2>1, <2>2
          DEF EditFile, CopiesInv, Latest, Decoded, Blank, Accepted, viperVars, history
<1> QED BY <1>1, <1>2, <1>3 DEF Command

LEMMA LoadConfigCopies ==
    ASSUME ConfigInv, CopiesInv, LoadConfig
    PROVE  CopiesInv'
<1>1. /\ viper' = file /\ current' = file /\ override = NoSetting /\ phase' = "loading"
      /\ carried' = [carried EXCEPT ![Main] = file] /\ UNCHANGED <<file, override>>
      /\ \A p \in Actors : carried[p] = NoConfig
    BY DEF LoadConfig, CopiesInv, Blank, fileVars
<1>2. View' = file
    BY <1>1 DEF View, Over
<1>3. \A p \in Actors : carried'[p] \in {NoConfig, file}
    BY <1>1 DEF ConfigInv, ConfigTypeOK
<1> QED BY <1>1, <1>2, <1>3 DEF CopiesInv, Synced, Latest, Blank

LEMMA ServeCopies ==
    ASSUME ConfigInv, CopiesInv, Serve
    PROVE  CopiesInv'
<1>1. /\ Main \in Actors /\ carried[Main] \in Config
      /\ carried \in [Actors -> Config \cup {NoConfig}]
      /\ carried' = [carried EXCEPT ![Main] = NoConfig] /\ bots' = carried[Main]
      /\ phase = "loading" /\ phase' = "serving"
    BY DEF Serve, ConfigInv, ConfigTypeOK, Equipped, Actors
<1>2. View' = View /\ Synced'
    BY <1>1 DEF Serve, View, Over, viperVars, fileVars, CopiesInv, Synced
<1>3. Decoded' => Decoded
    BY <1>1, <1>2 DEF Serve, Decoded, Accepted, history
<1>4. Decoded => bots' = View
    BY <1>1, NoConfigAssumption DEF CopiesInv, Latest
<1> QED BY <1>1, <1>2, <1>3, <1>4 DEF Serve, CopiesInv, Latest, Blank

LEMMA ForgetCopies ==
    ASSUME Forget
    PROVE  CopiesInv'
BY DEF Forget, CopiesInv, Synced, Latest, Decoded, Blank

LEMMA CopiesFrame ==
    ASSUME CopiesInv, UNCHANGED configVars
    PROVE  CopiesInv'
BY DEF configVars, fileVars, viperVars, history, CopiesInv, Synced, Latest, Decoded,
       Accepted, View, Over, Blank

LEMMA CopiesInitial == Init => CopiesInv
BY DEF Init, ConfigInit, CopiesInv, Synced, Latest, Decoded, Blank

LEMMA CopiesStep == DaemonInv /\ CopiesInv /\ [Next]_vars => CopiesInv'
<1> SUFFICES ASSUME DaemonInv, CopiesInv, [Next]_vars
             PROVE  CopiesInv'
    OBVIOUS
<1>a. ConfigInv
    BY DEF DaemonInv
<1>1. CASE ConfigCommand
    BY <1>a, <1>1, CommandCopies DEF ConfigCommand
<1>2. CASE Push \/ AutoUpdate \/ \E c \in Chats : Update(c)
    BY <1>2, CopiesFrame DEF Push, AutoUpdate, Update
<1>3. CASE Kill \/ NoTelegram
    BY <1>3, ForgetCopies DEF Kill, NoTelegram
<1>4. ASSUME NEW p \in Actors, ConfigStep(p)
      PROVE  CopiesInv'
    BY <1>a, <1>4, ActorStepCopies DEF ConfigStep
<1>5. ASSUME NEW b \in Builders, Build(b)
      PROVE  CopiesInv'
    BY <1>5, CopiesFrame DEF Build
<1>6. CASE LifeStep
  <2>1. CASE BootFails \/ \E c \in Chats : ReExec(c)
    BY <2>1, ForgetCopies DEF BootFails, ReExec
  <2>2. CASE Notice \/ Start
    BY <2>2, CopiesFrame DEF Notice, Start
  <2>3. CASE Load
    BY <1>a, <2>3, LoadConfigCopies DEF Load
  <2>4. CASE Up
    BY <1>a, <2>4, ServeCopies DEF Up
  <2> QED BY <1>6, <2>1, <2>2, <2>3, <2>4 DEF LifeStep
<1>7. CASE UNCHANGED vars
    BY <1>7, CopiesFrame DEF vars
<1> QED BY <1>1, <1>2, <1>3, <1>4, <1>5, <1>6, <1>7 DEF Next

-----------------------------------------------------------------------------
(* The theorems.                                                           *)

\* config.go, telegram.go, cron.go, dispatcher.go, main.go and run.sh together:
\* the invariant from which the others follow holds in every reachable state.
THEOREM Invariance == Spec => []DaemonInv
<1>1. Init => DaemonInv
    BY DaemonInitial
<1>2. DaemonInv /\ [Next]_vars => DaemonInv'
    BY DaemonStep
<1> QED BY <1>1, <1>2, PTL DEF Spec

\* Every variable keeps its type: a goroutine that sets out to deliver a
\* configuration or to rename a file has one, though the process may end and
\* start at any of its steps.
THEOREM DaemonTypes == Spec => []TypeOK
<1>1. DaemonInv => TypeOK
    BY DEF DaemonInv, ConfigInv, UpdateInv, TypeOK
<1> QED BY <1>1, Invariance, PTL

\* A bot with an owner never returns to the mode in which the first sender
\* becomes its owner (isOwnerless), whatever /set, ClaimOwner, the watcher, an
\* editor and restarts do to config.json meanwhile.
THEOREM OwnersNeverLost == Spec => []OwnersStay
<1>1. DaemonInv => OwnersStay
    BY DEF DaemonInv, ConfigInv, Equipped, Owned, HasFounders, OwnersStay
<1> QED BY <1>1, Invariance, PTL

\* No ClaimOwner, reload or restart drops a user whom another ClaimOwner has put
\* into the file (config.go 210).
THEOREM AddedUsersKept == Spec => []AddedUsersStay
<1>1. DaemonInv => AddedUsersStay
    BY DEF DaemonInv, ConfigInv, Kept
<1> QED BY <1>1, Invariance, PTL

\* What viper, Manager.current and the bots hold is the same configuration, with
\* the users of the file, once no goroutine is at work: no notification, edit or
\* ClaimOwner is forgotten on the way (config.go 129-148, 176-199, 257-295).
THEOREM CopiesConverge == Spec => []CopiesAgree
<1>1. DaemonInv /\ CopiesInv => CopiesAgree
  <2> SUFFICES ASSUME ConfigInv, CopiesInv, phase = "serving", AtRest, ~mixed, file # Torn,
                      Accepted(View)
               PROVE  bots = View /\ current = View /\ View.users = file.users
    BY DEF DaemonInv, CopiesAgree
  <2>1. bots = View /\ current = View
    BY DEF AtRest, CopiesInv, Latest, Decoded
  <2>2. viper = file /\ viper \in Config
    BY DEF AtRest, CopiesInv, Synced, ConfigInv, Equipped
  <2> QED BY <2>1, <2>2, ViewConfig DEF ConfigInv
<1>2. Init => CopiesInv
    BY CopiesInitial
<1>3. DaemonInv /\ CopiesInv /\ [Next]_vars => CopiesInv'
    BY CopiesStep
<1> QED BY <1>1, <1>2, <1>3, Invariance, PTL DEF Spec

\* Reloading the jobs leaves one entry per job in the scheduler, unless two
\* reloads overlapped (cron.go 44-57).
THEOREM JobsRegisteredOnce == Spec => []JobsOnce
<1>1. DaemonInv => JobsOnce
    BY DEF DaemonInv, ConfigInv, Jobs
<1> QED BY <1>1, Invariance, PTL

\* Whoever waits for the answer to /update is at every moment owed it: by the
\* goroutine that updates, by restart_notify.json, or by the process that has
\* read the file (dispatcher.go 577-627, telegram.go 94-125).
THEOREM UpdatesOwed == Spec => []AnswerOwed
<1>1. DaemonInv => AnswerOwed
    BY DEF DaemonInv, UpdateInv, Owed
<1> QED BY <1>1, Invariance, PTL

-----------------------------------------------------------------------------
(* What a restart rests on.                                                *)

\* A file that is not whole has one builder at work on it, and no builder has two.
Whole ==
    /\ bin.writer # NoBuilder => step[bin.writer] = "link"
    /\ new # NoFile /\ new.writer # NoBuilder =>
          step[new.writer] = "link" /\ new.writer # bin.writer

\* Nothing is built, installed or run that the checkout has not been at.
Published ==
    /\ bin.commit <= head
    /\ new # NoFile => new.commit <= head
    /\ image # NoImage => image <= head
    /\ \A b \in Builders : got[b] <= head

\* A goroutine that updates lives in a process that serves.
Hosted ==
    /\ phase # "off" => image # NoImage
    /\ \A b \in Chats \cup {Updater} : Alive(b) => phase = "serving"

\* Manager.mu is held over several steps only by a ClaimOwner that is under way.
LockHeld == lock # NoOne => doing[lock] \in {"rename", "reread"}

RestartInv == Whole /\ Published /\ Hosted /\ LockHeld

LEMMA BuildFiles ==
    ASSUME NEW b \in Builders, UpdateInv, Whole, Published, BuildStep(b)
    PROVE  Whole' /\ Published' /\ image' = image /\ head <= head'
<1>t. /\ remote \in 0 .. MaxCommit /\ head \in 0 .. remote /\ bin \in Binary
      /\ step \in [Builders -> Stages] /\ got \in [Builders -> 0 .. MaxCommit]
      /\ new # NoFile => new \in Binary
      /\ image # NoImage => image \in 0 .. MaxCommit
  BY DEF UpdateInv, UpdateTypeOK
<1>w. bin.writer # NoBuilder => bin.writer \in Builders
  BY <1>t DEF Binary
<1>v. new # NoFile /\ new.writer # NoBuilder => new.writer \in Builders
  BY <1>t DEF Binary
<1>c. bin.commit \in Nat /\ (new # NoFile => new.commit \in Nat)
  BY <1>t, MaxCommitAssumption DEF Binary
<1> USE <1>t, <1>w, <1>v, <1>c DEF Whole, Published, Advance, repoVars, filesVars
<1>1. CASE Pull(b)
  <2>1. head <= head' /\ head \in Nat /\ head' \in Nat
    BY <1>1, MaxCommitAssumption DEF Pull
  <2>2. Whole' /\ UNCHANGED <<bin, new, image>>
    BY <1>1 DEF Pull, Stages
  <2>3. \A n \in 0 .. MaxCommit : n <= head => n <= head'
    BY <2>1, MaxCommitAssumption
  <2>4. bin.commit \in 0 .. MaxCommit /\ (new # NoFile => new.commit \in 0 .. MaxCommit)
    BY DEF Binary
  <2>5. \A a \in Builders : got'[a] <= head'
    <3> SUFFICES ASSUME NEW a \in Builders PROVE got'[a] <= head'
      OBVIOUS
    <3>1. CASE a = b
      BY <1>1, <2>1, <3>1 DEF Pull
    <3>2. CASE a # b
      BY <1>1, <2>3, <3>2 DEF Pull
    <3> QED BY <3>1, <3>2
  <2> QED BY <2>1, <2>2, <2>3, <2>4, <2>5
<1>2. CASE PullFails(b)
  BY <1>2 DEF PullFails, filesVars, repoVars
<1>3. CASE Link(b)
  BY <1>3, BuildersAssumption DEF Link, Builders
<1>4. CASE Written(b)
  <2>1. \A a \in Builders \ {b} : step'[a] = step[a]
    BY <1>4 DEF Written, BuildEnds
  <2>2. Whole'
    BY <1>4, <2>1, BuildersAssumption DEF Written, Builders, Binary
  <2>3. Published'
    BY <1>4 DEF Written, BuildEnds, Binary
  <2> QED BY <1>4, <2>2, <2>3 DEF Written
<1>5. CASE BuildFails(b)
  BY <1>5 DEF BuildFails
<1>6. CASE b \in Chats /\ Swap(b)
  <2>1. /\ new # NoFile /\ bin' = new /\ new' = NoFile /\ UNCHANGED <<head, image, got>>
        /\ step[b] = "swap" /\ step' = [step EXCEPT ![b] = "note"]
    BY <1>6 DEF Swap
  <2>2. bin'.writer # NoBuilder => step'[bin'.writer] = "link"
    BY <2>1
  <2> QED BY <2>1, <2>2
<1>7. CASE b \in Chats /\ (SwapFails(b) \/ SaveNote(b) \/ ExecFails(b))
  <2>1. /\ UNCHANGED <<head, image, got, bin, new>> /\ step[b] \in {"swap", "note", "exec"}
        /\ \A a \in Builders \ {b} : step'[a] = step[a]
    BY <1>7 DEF SwapFails, SaveNote, ExecFails, repoVars, filesVars
  <2>2. Whole'
    BY <2>1
  <2> QED BY <2>1, <2>2
<1> QED BY <1>1, <1>2, <1>3, <1>4, <1>5, <1>6, <1>7 DEF BuildStep

LEMMA EndFiles ==
    ASSUME UpdateInv, Whole, Published, Exit \/ \E c \in Chats : Exec(c)
    PROVE  Whole' /\ Published'
<1>1. /\ UNCHANGED <<repoVars, bin, new, got>>
      /\ \A b \in Builders : step[b] = "link" => step'[b] = "link"
      /\ image' # NoImage => image' = bin.commit
  BY DEF Exit, Exec, CutOff, filesVars
<1>2. /\ bin.writer # NoBuilder => bin.writer \in Builders
      /\ new # NoFile /\ new.writer # NoBuilder => new.writer \in Builders
  BY DEF UpdateInv, UpdateTypeOK, Binary
<1> QED BY <1>1, <1>2 DEF Whole, Published, repoVars

LEMMA LockKept ==
    ASSUME NEW p \in Actors, ConfigInv, LockHeld, ActorStep(p)
    PROVE  LockHeld'
<1>1. doing \in [Actors -> Steps] /\ lock \in Users \cup {NoOne} /\ Users \subseteq Actors
      /\ \A u \in Users : doing[u] \in {"rename", "reread"} => lock = u
  BY DEF ConfigInv, ConfigTypeOK, Actors, Kept
<1>2. CASE p \in Users /\ ClaimRead(p)
  BY <1>1, <1>2, ActorsAssumption DEF ClaimRead, Go, LockHeld
<1>3. CASE p \in Users /\ ClaimRename(p)
  BY <1>1, <1>3, ActorsAssumption DEF ClaimRename, Go, LockHeld
<1>4. CASE p \in Users /\ ClaimReread(p)
  BY <1>4 DEF ClaimReread, LockHeld
<1>5. CASE ~(p \in Users /\ (ClaimRead(p) \/ ClaimRename(p) \/ ClaimReread(p)))
  <2>1. /\ lock' = lock /\ doing[p] \notin {"rename", "reread"}
        /\ \A q \in Actors \ {p} : doing'[q] = doing[q]
    BY <1>1, <1>5 DEF ActorStep, SetOpen, SetWrite, Reload, Decode, DecodeRefused, Store,
       ClaimNothing, TellBots, Unload, LoadJobs, Go, viperVars
  <2> QED BY <1>1, <2>1 DEF LockHeld
<1> QED BY <1>2, <1>3, <1>4, <1>5

LEMMA RestartInitial == Init => RestartInv
<1> SUFFICES ASSUME Init PROVE RestartInv
  OBVIOUS
<1>1. Whole /\ Published /\ LockHeld
  BY DEF Init, UpdateInit, ConfigInit, Whole, Published, LockHeld
<1>2. Hosted
  BY DEF Init, UpdateInit, ConfigInit, Hosted, Alive, Builders
<1> QED BY <1>1, <1>2 DEF RestartInv

LEMMA RestartStep == DaemonInv /\ RestartInv /\ [Next]_vars => RestartInv'
<1> SUFFICES ASSUME DaemonInv, RestartInv, [Next]_vars
             PROVE  RestartInv'
  OBVIOUS
<1>a. /\ ConfigInv /\ UpdateInv /\ Whole /\ Published /\ Hosted /\ LockHeld
  BY DEF DaemonInv, RestartInv
<1>f. UNCHANGED updateVars => Whole' /\ Published'
  BY <1>a DEF updateVars, repoVars, filesVars, buildVars, Whole, Published
<1>l. UNCHANGED configVars => LockHeld'
  BY <1>a DEF configVars, LockHeld
<1>h. UNCHANGED <<phase, image, buildVars>> => Hosted'
  BY <1>a DEF Hosted, Alive, buildVars
<1>t. /\ doing \in [Actors -> Steps] /\ step \in [Builders -> Stages]
      /\ lock \in Users \cup {NoOne} /\ Users \cup Setters \subseteq Actors
  BY <1>a DEF ConfigInv, ConfigTypeOK, UpdateInv, UpdateTypeOK, Actors
<1>1. CASE ConfigCommand
  <2>1. LockHeld'
    BY <1>a, <1>t, <1>1 DEF ConfigCommand, Command, Set, FirstMessage, AddUser, EditFile, Go, LockHeld,
       viperVars
  <2>2. phase' = phase
    BY <1>1 DEF ConfigCommand, Command, Set, FirstMessage, AddUser, EditFile
  <2> QED BY <1>1, <1>f, <1>h, <2>1, <2>2 DEF ConfigCommand, RestartInv, updateVars
<1>2. CASE Push
  <2>1. Whole' /\ Published' /\ UNCHANGED <<image, buildVars>>
    BY <1>a, <1>2 DEF Push, NewCommit, Whole, Published, filesVars, buildVars
  <2> QED BY <1>2, <1>h, <1>l, <2>1 DEF Push, RestartInv, configVars
<1>3. ASSUME NEW c \in Chats, Update(c)
      PROVE  RestartInv'
  <2>1. Whole' /\ Published'
    BY <1>a, <1>t, <1>3 DEF Update, Ask, Advance, Whole, Published, repoVars, filesVars,
       UpdateInv, UpdateTypeOK, Binary
  <2>2. Hosted'
    BY <1>a, <1>t, <1>3 DEF Update, Ask, Advance, Hosted, Alive, Builders, configVars
  <2> QED BY <1>3, <1>l, <2>1, <2>2 DEF Update, RestartInv
<1>4. ASSUME Forget, Exit \/ \E c \in Chats : Exec(c)
      PROVE  RestartInv'
  <2>1. Whole' /\ Published'
    BY <1>a, <1>4, EndFiles
  <2>2. LockHeld' /\ phase' = "off"
    BY <1>4 DEF Forget, LockHeld
  <2>3. \A b \in Chats \cup {Updater} : step'[b] # "idle" => b \in orphans'
    BY <1>4, BuildersAssumption DEF Exit, Exec, CutOff, Builders
  <2> QED BY <2>1, <2>2, <2>3 DEF RestartInv, Hosted, Alive
<1>5. CASE AutoUpdate
  <2>1. Whole' /\ Published'
    BY <1>a, <1>t, <1>5 DEF AutoUpdate, AutoCheck, Advance, Whole, Published, repoVars, filesVars,
       UpdateInv, UpdateTypeOK, Binary
  <2>2. Hosted'
    BY <1>a, <1>t, <1>5 DEF AutoUpdate, AutoCheck, Advance, Hosted, Alive, Builders, configVars
  <2> QED BY <1>5, <1>l, <2>1, <2>2 DEF AutoUpdate, RestartInv
<1>6. ASSUME NEW p \in Actors, ConfigStep(p)
      PROVE  RestartInv'
  BY <1>a, <1>f, <1>h, <1>6, LockKept, ActorStepKeeps DEF ConfigStep, RestartInv, updateVars
<1>7. ASSUME NEW b \in Builders, Build(b)
      PROVE  RestartInv'
  <2>1. Whole' /\ Published' /\ image' = image
    BY <1>a, <1>7, BuildFiles DEF Build
  <2>2. Hosted'
    <3>1. phase' = phase /\ \A a \in Builders \ {b} : step'[a] = step[a]
      BY <1>t, <1>7 DEF Build, BuildStep, Pull, PullFails, Link, Written, BuildEnds, BuildFails,
         Swap, SwapFails, SaveNote, ExecFails, Advance, configVars
    <3>2. \A a \in Builders \ {b} : a \in orphans' <=> a \in orphans
      BY <1>7 DEF Build, BuildStep, Pull, PullFails, Link, Written, BuildEnds, BuildFails,
         Swap, SwapFails, SaveNote, ExecFails, buildVars
    <3>3. b \in Chats \cup {Updater} /\ Alive(b)' => Alive(b)
      BY <1>t, <1>7 DEF Build, BuildStep, Pull, PullFails, Link, Written, BuildEnds, BuildFails,
         Swap, SwapFails, SaveNote, ExecFails, Advance, Alive
    <3>4. Chats \cup {Updater} \subseteq Builders
      BY DEF Builders
    <3> QED BY <1>a, <2>1, <3>1, <3>2, <3>3, <3>4 DEF Hosted, Alive
  <2> QED BY <1>7, <1>l, <2>1, <2>2 DEF Build, RestartInv
<1>8. CASE LifeStep
  <2>1. CASE Notice
    <3>1. UNCHANGED <<bin, new, repoVars, image, buildVars>>
      BY <2>1 DEF Notice, TakeNote, Greet, filesVars
    <3>2. Whole' /\ Published'
      BY <1>a, <3>1 DEF Whole, Published, repoVars, buildVars
    <3> QED BY <2>1, <3>1, <3>2, <1>h, <1>l DEF Notice, RestartInv, configVars
  <2>2. CASE Start
    <3>1. PICK auto \in BOOLEAN : RunLoop(auto)
      BY <2>2 DEF Start
    <3>2. \A b \in Builders : step[b] # "idle" => step'[b] = step[b]
      BY <1>t, <3>1 DEF RunLoop, Advance
    <3>3. /\ bin.writer # NoBuilder => bin.writer \in Builders
          /\ new # NoFile /\ new.writer # NoBuilder => new.writer \in Builders
      BY <1>a DEF UpdateInv, UpdateTypeOK, Binary
    <3>4. /\ bin' = (IF new = NoFile THEN bin ELSE new) /\ new' = NoFile
          /\ image' # NoImage => image' = bin'.commit
          /\ UNCHANGED <<repoVars, got, orphans>> /\ image = NoImage
      BY <3>1 DEF RunLoop
    <3>5. Whole'
      BY <1>a, <3>2, <3>3, <3>4 DEF Whole
    <3>6. Published'
      BY <1>a, <3>4 DEF Published, repoVars
    <3>7. \A b \in Builders \ {Shell} : step'[b] = step[b]
      BY <1>t, <3>1 DEF RunLoop, Advance
    <3>8. Hosted'
      BY <1>a, <2>2, <3>4, <3>7, BuildersAssumption DEF Start, configVars, Hosted, Alive, Builders
    <3> QED BY <2>2, <1>l, <3>5, <3>6, <3>8 DEF Start, RestartInv
  <2>3. CASE Load
    <3>1. image # NoImage /\ phase' = "loading" /\ phase = "off" /\ LockHeld'
      BY <1>a, <2>3 DEF Load, LoadConfig, LockHeld
    <3>2. Hosted'
      BY <1>a, <2>3, <3>1 DEF Load, updateVars, buildVars, Hosted, Alive
    <3> QED BY <2>3, <1>f, <3>1, <3>2 DEF Load, RestartInv
  <2>4. CASE Up
    <3>1. phase' = "serving" /\ phase = "loading" /\ LockHeld'
      BY <1>a, <2>4 DEF Up, Serve, LockHeld
    <3>2. Whole' /\ Published' /\ Hosted'
      BY <1>a, <2>4, <3>1 DEF Up, repoVars, filesVars, buildVars, Whole, Published, Hosted, Alive
    <3> QED BY <3>1, <3>2 DEF RestartInv
  <2> QED BY <1>4, <1>8, <2>1, <2>2, <2>3, <2>4 DEF LifeStep, ReExec, BootFails
<1>9. CASE UNCHANGED vars
  BY <1>9, <1>f, <1>h, <1>l DEF vars, updateVars, configVars, RestartInv
<1> QED BY <1>1, <1>2, <1>3, <1>4, <1>5, <1>6, <1>7, <1>8, <1>9 DEF Next, Kill, NoTelegram

-----------------------------------------------------------------------------
(* Everything that is set off comes to an end.                             *)

StagesLeft ==
    [idle |-> 0, exec |-> 1, note |-> 2, swap |-> 3, link |-> 4, build |-> 5, pull |-> 6]

SetsOff(b) ==
    \/ b \in Chats /\ Update(b)
    \/ b = Updater /\ AutoUpdate
    \/ b = Shell /\ Start

BuildsGetOn ==
    \A b \in Builders :
        /\ Build(b) => StagesLeft[step'[b]] < StagesLeft[step[b]]
        /\ ~SetsOff(b) => StagesLeft[step'[b]] <= StagesLeft[step[b]]

StepsLeft ==
    [idle |-> 0, load |-> 1, unload |-> 2, tell |-> 3, store |-> 4, decode |-> 5, write |-> 6,
     open |-> 7, reread |-> 4, rename |-> 5, read |-> 6]

\* The watcher's next notification is work that it has not begun.
Pending(p) == StepsLeft[doing[p]] + (IF p = Watcher THEN 6 * unread ELSE 0)

DeliveriesGetOn ==
    \A p \in Actors :
        /\ ConfigStep(p) => Pending(p)' < Pending(p)
        /\ p # Watcher /\ ~ConfigCommand => Pending(p)' <= Pending(p)

LEMMA BuildsEnd ==
    ASSUME DaemonInv, DaemonInv', [Next]_vars
    PROVE  BuildsGetOn
<1> SUFFICES ASSUME NEW b \in Builders
             PROVE  /\ Build(b) => StagesLeft[step'[b]] < StagesLeft[step[b]]
                    /\ ~SetsOff(b) => StagesLeft[step'[b]] <= StagesLeft[step[b]]
  BY DEF BuildsGetOn
<1>t. step \in [Builders -> Stages] /\ step[b] \in Stages /\ step'[b] \in Stages
  BY DEF DaemonInv, UpdateInv, UpdateTypeOK
<1>n. StagesLeft[step[b]] \in 0 .. 6 /\ StagesLeft[step'[b]] \in 0 .. 6
  BY <1>t DEF Stages, StagesLeft
<1>1. ASSUME NEW a \in Builders, Build(a)
      PROVE  /\ StagesLeft[step'[a]] < StagesLeft[step[a]]
             /\ a # b => step'[b] = step[b]
  <2>1. \/ step[a] = "pull" /\ step'[a] \in {"build", "idle"}
        \/ step[a] = "build" /\ step'[a] \in {"link", "idle"}
        \/ step[a] = "link" /\ step'[a] \in {"swap", "idle"}
        \/ step[a] = "swap" /\ step'[a] \in {"note", "idle"}
        \/ step[a] = "note" /\ step'[a] = "exec"
        \/ step[a] = "exec" /\ step'[a] = "idle"
    BY <1>t, <1>1 DEF Build, BuildStep, Pull, PullFails, Link, Written, BuildEnds, BuildFails,
       Swap, SwapFails, SaveNote, ExecFails, Advance
  <2>2. StagesLeft[step'[a]] < StagesLeft[step[a]]
    BY <2>1 DEF StagesLeft
  <2>3. a # b => step'[b] = step[b]
    BY <1>t, <1>1 DEF Build, BuildStep, Pull, PullFails, Link, Written, BuildEnds, BuildFails,
       Swap, SwapFails, SaveNote, ExecFails, Advance
  <2> QED BY <2>2, <2>3
<1>2. ASSUME ~\E a \in Builders : Build(a), ~SetsOff(b)
      PROVE  step'[b] \in {step[b], "idle"}
  <2>1. CASE \E c \in Chats : Update(c)
    <3>1. PICK c \in Chats : Update(c)
      BY <2>1
    <3>2. c # b
      BY <1>2, <3>1 DEF SetsOff
    <3> QED BY <1>t, <3>1, <3>2 DEF Update, Ask, Advance
  <2>2. CASE AutoUpdate
    <3>1. b # Updater
      BY <1>2, <2>2 DEF SetsOff
    <3> QED BY <1>t, <2>2, <3>1 DEF AutoUpdate, AutoCheck, Advance
  <2>3. CASE Start
    <3>1. b # Shell
      BY <1>2, <2>3 DEF SetsOff
    <3> QED BY <1>t, <2>3, <3>1 DEF Start, RunLoop, Advance
  <2>4. CASE Kill \/ NoTelegram \/ BootFails \/ \E c \in Chats : ReExec(c)
    BY <2>4 DEF Kill, NoTelegram, BootFails, ReExec, Exit, Exec, CutOff
  <2>5. CASE \/ ConfigCommand \/ Push \/ (\E p \in Actors : ConfigStep(p))
             \/ Notice \/ Load \/ Up \/ UNCHANGED vars
    BY <2>5 DEF ConfigCommand, Push, NewCommit, ConfigStep, Notice, TakeNote, Greet, Load, Up,
       updateVars, buildVars, vars
  <2> QED BY <1>2, <2>1, <2>2, <2>3, <2>4, <2>5 DEF Next, LifeStep
<1>3. StagesLeft["idle"] = 0
  BY DEF StagesLeft
<1>4. ~SetsOff(b) => StagesLeft[step'[b]] <= StagesLeft[step[b]]
  <2>1. CASE \E a \in Builders : Build(a)
    <3>1. PICK a \in Builders : Build(a)
      BY <2>1
    <3>2. StagesLeft[step'[b]] < StagesLeft[step[b]] \/ step'[b] = step[b]
      BY <1>1, <3>1
    <3> QED BY <1>n, <3>2
  <2>2. CASE ~\E a \in Builders : Build(a)
    BY <1>n, <1>2, <1>3, <2>2
  <2> QED BY <2>1, <2>2
<1> QED BY <1>1, <1>4

LEMMA DeliveriesEnd ==
    ASSUME DaemonInv, DaemonInv', [Next]_vars
    PROVE  DeliveriesGetOn
<1> SUFFICES ASSUME NEW p \in Actors
             PROVE  /\ ConfigStep(p) => Pending(p)' < Pending(p)
                    /\ p # Watcher /\ ~ConfigCommand => Pending(p)' <= Pending(p)
  BY DEF DeliveriesGetOn
<1>t. /\ doing \in [Actors -> Steps] /\ doing[p] \in Steps /\ doing'[p] \in Steps
      /\ unread \in 0 .. MaxUnread
      /\ doing[Main] = "idle"
      /\ \A q \in Setters \cup Users : q # Watcher
  BY ActorsAssumption DEF DaemonInv, ConfigInv, ConfigTypeOK, Equipped
<1>n. StepsLeft[doing[p]] \in 0 .. 7 /\ StepsLeft[doing'[p]] \in 0 .. 7
  BY <1>t DEF Steps, StepsLeft
<1>p. /\ p # Watcher => Pending(p) = StepsLeft[doing[p]] + 0
      /\ p # Watcher => Pending(p)' = StepsLeft[doing'[p]] + 0
      /\ p = Watcher => Pending(p) = StepsLeft[doing[p]] + 6 * unread
      /\ p = Watcher => Pending(p)' = StepsLeft[doing'[p]] + 6 * unread'
  BY DEF Pending, StepsLeft
<1>1. ASSUME ConfigStep(p), ~(p = Watcher /\ Reload)
      PROVE  StepsLeft[doing'[p]] < StepsLeft[doing[p]] /\ (p = Watcher => unread' = unread)
  BY <1>t, <1>1 DEF ConfigStep, ActorStep, SetOpen, SetWrite, Decode, DecodeRefused, Store,
     ClaimNothing, ClaimRead, ClaimRename, ClaimReread, TellBots, Unload, LoadJobs, Go,
     StepsLeft, fileVars
<1>2. ASSUME p = Watcher, Reload
      PROVE  StepsLeft[doing[p]] = 0 /\ StepsLeft[doing'[p]] = 5 /\ unread' = unread - 1
  BY <1>t, <1>2 DEF Reload, Go, StepsLeft
<1>3. ASSUME ~\E q \in Actors : ConfigStep(q), ~ConfigCommand
      PROVE  doing'[p] \in {doing[p], "idle"}
  BY <1>t, <1>3 DEF Next, LifeStep, Push, Update, Kill, NoTelegram, AutoUpdate, Build, ReExec,
     Notice, Start, Load, LoadConfig, Up, Serve, BootFails, Forget, configVars, vars
<1>4. ASSUME NEW q \in Actors, q # p, ConfigStep(q)
      PROVE  doing'[p] = doing[p]
  BY <1>t, <1>4 DEF ConfigStep, ActorStep, SetOpen, SetWrite, Reload, Decode, DecodeRefused, Store,
     ClaimNothing, ClaimRead, ClaimRename, ClaimReread, TellBots, Unload, LoadJobs, Go
<1>5. unread \in Nat
  BY <1>t
<1>6. ConfigStep(p) => Pending(p)' < Pending(p)
  <2>1. CASE p = Watcher /\ Reload
    <3>1. \A n \in Nat : 5 + 6 * (n - 1) < 0 + 6 * n
      OBVIOUS
    <3> QED BY <1>2, <1>p, <1>5, <2>1, <3>1, Zenon
  <2>2. CASE ConfigStep(p) /\ ~(p = Watcher /\ Reload)
    <3>1. \A n \in Nat : \A i, j \in 0 .. 7 : i < j => i + 6 * n < j + 6 * n /\ i + 0 < j + 0
      OBVIOUS
    <3> QED BY <1>1, <1>n, <1>p, <1>5, <2>2, <3>1, Zenon
  <2> QED BY <2>1, <2>2
<1>7. p # Watcher /\ ~ConfigCommand => Pending(p)' <= Pending(p)
  <2> SUFFICES ASSUME p # Watcher, ~ConfigCommand PROVE Pending(p)' <= Pending(p)
    OBVIOUS
  <2>1. StepsLeft[doing'[p]] < StepsLeft[doing[p]] \/ doing'[p] \in {doing[p], "idle"}
    BY <1>1, <1>3, <1>4
  <2>2. StepsLeft["idle"] = 0
    BY DEF StepsLeft
  <2>3. StepsLeft[doing'[p]] <= StepsLeft[doing[p]]
    BY <1>n, <2>1, <2>2
  <2>4. \A i, j \in 0 .. 7 : i <= j => i + 0 <= j + 0
    OBVIOUS
  <2> QED BY <1>n, <1>p, <2>3, <2>4, Zenon
<1> QED BY <1>6, <1>7

-----------------------------------------------------------------------------
(* The theorems about restarts.                                            *)

\* The four parts together, for every state that run.sh, exec, a crash or a signal
\* can leave behind: none needs another to be inductive but the types.
THEOREM RestartInvariance == Spec => []RestartInv
<1>1. Init => RestartInv
    BY RestartInitial
<1>2. DaemonInv /\ RestartInv /\ [Next]_vars => RestartInv'
    BY RestartStep
<1> QED BY <1>1, <1>2, Invariance, PTL DEF Spec

\* Whenever exec or run.sh finds the binary half-written (ETXTBSY), and whenever
\* claudeclaw.new is, its one writer is about to finish it - though builders
\* replace and rename each other's output without a lock, and outlive the process
\* that has started them.  So no binary stays unusable, as ComesBack needs.
THEOREM HalfWrittenHasItsWriter == Spec => []Whole
<1>1. RestartInv => Whole
    BY DEF RestartInv
<1> QED BY <1>1, RestartInvariance, PTL

\* What is compiled, installed or running has been in the checkout, whoever
\* built it and whoever renamed it: no swap of an empty or unknown file.
THEOREM OnlyPulledVersionsRun == Spec => []Published
<1>1. RestartInv => Published
    BY DEF RestartInv
<1> QED BY <1>1, RestartInvariance, PTL

\* No goroutine of /update or of triggerAutoUpdate acts for a process that has
\* ended or does not serve yet: of a builder only the go command outlives it.
THEOREM UpdatesLiveInTheProcess == Spec => []Hosted
<1>1. RestartInv => Hosted
    BY DEF RestartInv
<1> QED BY <1>1, RestartInvariance, PTL

\* Manager.mu is held across steps by exactly the ClaimOwner that stands between
\* its reading of the file and its answer: nobody waits for a lock that no
\* goroutine is about to give back, whatever becomes of the process meanwhile.
THEOREM LockHasItsHolder ==
    Spec => [](\A u \in Users : lock = u <=> doing[u] \in {"rename", "reread"})
<1>1. DaemonInv /\ RestartInv => \A u \in Users : lock = u <=> doing[u] \in {"rename", "reread"}
    BY ActorsAssumption DEF DaemonInv, ConfigInv, Kept, RestartInv, LockHeld
<1> QED BY <1>1, Invariance, RestartInvariance, PTL

\* The half of UpdateIsAnswered and ComesBack that needs no fairness: a builder
\* takes at most six steps, and only a new /update, check or round of run.sh sets
\* it off again.
THEOREM BuildsAreFinite == Spec => [][BuildsGetOn]_vars
<1>1. DaemonInv /\ DaemonInv' /\ [Next]_vars => BuildsGetOn
    BY BuildsEnd
<1> QED BY <1>1, Invariance, PTL DEF Spec

\* The half of GrantTakesEffect that needs no fairness: a command about the
\* configuration, a ClaimOwner and each delivery of the watcher take a bounded
\* number of steps, none of which another goroutine can undo.
THEOREM DeliveriesAreFinite == Spec => [][DeliveriesGetOn]_vars
<1>1. DaemonInv /\ DaemonInv' /\ [Next]_vars => DeliveriesGetOn
    BY DeliveriesEnd
<1> QED BY <1>1, Invariance, PTL DEF Spec
=============================================================================

# claudeclaw in TLA+

claudeclaw is a daemon that connects Telegram chats to the `claude` command line
program: users write to a bot, messages become jobs, jobs are executed by
`claude` processes, outputs go back to the chat. It is concurrent throughout (one
goroutine per update, per timer, per job, per queue), it keeps state in memory
and in files without one lock over both, and it replaces its own process while
running. This directory holds a model of that behaviour, its model checking runs
and machine-checked proofs.

All paths below are relative to `src/`.

## The system

| Component | Code | State | Operations | Talks to |
|---|---|---|---|---|
| Runner queues | `internal/runner/runner.go` | a channel (32 places) and a goroutine per workspace+bot+chat+topic, `activeJobs` | `Submit`, `runQueue` | dispatcher, heartbeat, cron (submit jobs, get a `Result` on `ResultCh`); daemon (`PendingRestart`, `ReExec`) |
| Keys and credentials | `runner.go` `execute`, `credentials.go` | attempt loop; `~/.claude/.credentials.json` and its `.tmp` | API keys in turn, then OAuth logins | shared by all workers through the file |
| claude process | `runner.go` `executeWithKey`, `env.go` | process, stdout/stderr readers | start, stream, wait, store session | session manager; `ToolEventCh` to the dispatcher |
| Sessions | `internal/session/session.go` | cache under a lock, one file per topic without one | `Get` (+ `touchLastUsed`), `Set`, `Clear` | runner (Get, Set), dispatcher (Clear) |
| Dispatcher: batching | `internal/bot/dispatcher.go` 757-840 | per topic: buffer, `running`, debounce timer | `submitOrQueue`, callback, `runBatch`, `drainPending` | Telegram handlers, `dispatchJob` |
| Dispatcher: jobs | 845-1136, 1495-1520 | `cancelReactions`, a context per job | `dispatchJob`, `handleReactionCancel` | runner |
| Dispatcher: housekeeping | 1247-1429 | `completionCounts`, `memUpdateCount`, `summarizeActive` | memory update, compression, summary + `Clear` | runner, sessions |
| Dispatcher: progress | 861-1000, `subagent_tailer.go` | activities, throttle, delayed flush | edit the status message | `ToolEventCh`, tailers |
| Dispatcher: commands | 153-482, 1532-1617 | `botCfg` | `/set`, `/unset`, `/model`, `/adduser`, claim an ownerless bot | configuration |
| Configuration | `internal/config/config.go` | viper, current config, callbacks | `Set`, `ClaimOwner`, hot reload | bots, runner, cron |
| Self update | `dispatcher.go` 487-627, `telegram.go` 94-125, `run.sh` | the checkout, `claudeclaw.new`, `claudeclaw`, restart note | pull, build, swap, exec, notify | git, the process, `run.sh` |
| Daemon | `internal/daemon/daemon.go`, `cmd/claudeclaw/main.go` | `pendingRestart`, PID file | signals, `ReExec` | runner, `run.sh` |
| Polling | `internal/bot/telegram.go` | bots | one goroutine per update | dispatcher |
| Cron, heartbeat | `internal/scheduler/` | entries, ticker | fire jobs into the runner | runner, bots |
| Memory files | `internal/memory/` | none | select, parse, merge text | runner |
| Setup, CLI, utilities | `internal/setup`, `cmd`, `internal/util` | none | | |

What is hard here: a stopped timer whose callback already waits for the lock; the
end of a batch, a cancellation and a callback that all go for one buffer;
contexts that are cancelled by users and by normal ends alike; a counter that
decides when the process may be replaced; files written by goroutines that do
not know of each other; jobs the daemon submits behind the user's back into the
user's own queue; and a process that can end between any two steps.

What makes each part correct, in short: the runner answers each key's jobs in
order, each once, and restarts when asked; the dispatcher loses, doubles and
strands no message, frees every topic, and cancels what was meant; a topic's
next job resumes the session the last one ended in, or none after a reset;
housekeeping ends; a job is retried only for its key's sake, and until no key is
left; the credentials file is always a whole one. `PROJECT.json` lists the
hazards one by one with the properties aimed at them.

## Modules

| Module | Models | Checked by | Proofs |
|---|---|---|---|
| `JobService` | what the runner promises (abstract) | through `RunnerQueue` | `JobService_proofs` |
| `RunnerQueue` | queues, workers, counter, re-exec, signals, `run.sh` | `MCRunnerQueue` | `RunnerQueue_proofs` |
| `TopicDispatch` | batching, jobs, cancellation; instantiates `JobService` as its runner | `MCTopicDispatch`, `MCTopicIds` | `TopicDispatch_proofs` |
| `SessionLife` | session cache and file, worker, housekeeping, resets, restarts | `MCSessionLife` | `SessionLife_proofs` |
| `SessionReset` | `SessionLife` with two history variables: what a summary promises | `MCSessionReset` | `SessionLife_proofs` |
| `ExecuteFallback` | attempt loops and the shared credentials file | `MCExecuteFallback` | `ExecuteFallback_proofs` |
| `ConfigManager` | `config.json`, viper, `Manager.current`, the bots' and the cron scheduler's copies, and all who change them | through `Daemon` | `Daemon_proofs` |
| `SelfUpdate` | three builders, the two binaries, the restart note, exec, exit and `run.sh` | through `Daemon` | `Daemon_proofs` |
| `Daemon` | start-up and end of the process; composes `ConfigManager` and `SelfUpdate` | `MCDaemon` | `Daemon_proofs` |
| `Heartbeat` | quiet windows (functions) | `MCAlgorithms`, in `MCDaemon` | `Algorithms_proofs` |
| `MemorySections` | choice of memory sections (functions) | `MCAlgorithms`, in `MCDaemon` | `Algorithms_proofs` |
| `ProgressFeed` | tool events, throttled edits and late flushes, subagent tailers of one job | `MCProgressFeed` | `ProgressFeed_proofs` |

Each module has the same layout: state, seeded faults, actions, specification,
properties. A seeded fault (`Reject_WithoutResult`, `Drain_StaysRunning`, ...) is
a plausible slip in the action it is named after; no specification uses one.
Put in place of that action each makes a property fail, which shows that the
property depends on the code.

### RunnerQueue and JobService

`worker[k]` is the program counter of `runQueue`: `Receive` takes a job from the
channel, `CountIn`/`CountOut` are the two atomic additions, `Check` the read of
`pendingRestart`, `ReExec` the exec. `caller[j]` is the goroutine inside
`Submit`: `Enqueue` and `Reject` are the two cases of its select. `FirstSigusr1`,
`Shutdown`, `Exit` are `WaitForShutdown`, the return of `main` and the loop of
`run.sh`; a new process image (`FreshImage`) keeps nothing. What `execute` does is
one result, `ok` or `error`.

`JobService` is the contract: one line per key, answered from its head, each job
once, a refusal instead of a place in line, and `Forget` when the process ends.
`RunnerQueue` implements it: the line of a key is the job its worker holds
followed by the channel, and a job's outcome is read off its caller and answer.

### TopicDispatch

A critical section under `pendingMu` or `cancelMu` is one step, the rest
interleaves. `armed` is the timer `tq.debounce` points to, `orphans` are armed
timers it no longer points to, `callbacks` are fired timers whose callback still
waits for the lock (which `Stop` does not reach). `pc[m]` follows the
`dispatchJob` that replies to `m`, `batch[m]` its messages; the order of `Cleanup`
and `Reply` differs for foreground and /bg jobs as in the code. `React` and
`CallCancel` are the two halves of `handleReactionCancel`. `fate` records what a
message's sender got. The runner is `JobService`, driven by `Accept`, `Refuse` and
`Resolve` only, so what is shown here holds over `RunnerQueue` too.

### SessionLife

One topic. `cache` and `file` are `session.Manager`'s two stores; the worker goes
through `get`, `load`, `fill`, `touch`, `rewrite`, `claude`, `set`, `save`, `answer`,
each one access. `replied`, `checking`, `updated` count the goroutines between a
result and `maybeUpdateMemory`, `maybeSummarizeSession`, `maybeCompressMemory`.
`clearer` tells how far the user's and the summary's `Clear` have come. The
history variables `expected` and `overlap` are read by no action. `SessionReset` adds
two more: `summarized`, the session that the last successful summary was written in,
and `owedFresh`, a summary has reset the session and no job of the user has begun
since. It also lets the `claude` CLI never give out the ID of a summarized session
again, which the reuse of IDs in a small instance would otherwise allow.

### ExecuteFallback

`at[w]` runs through the keys and then the credentials. For the credentials file
the path and its `.tmp` are names of inodes; `open` with truncation, `write` and
`rename` are separate steps, a shorter text over a longer one leaves a garbled
one. A credential whose swap fails is passed over, like one without a token.

### ProgressFeed

One job, from the reader of claude's output to the message in the chat. `Report`
sends on `toolEventCh` (`events`); the loop of the goroutine in `dispatchJob` is
`TakeEvent`, `TakeText`, `TakeClose`, `End`, with `throttledEdit` and `editMessage` as
`Throttled` and `Edit`. The delayed flush is three steps, because only the first
can be stopped: the timer is armed (`timer`), its goroutine has started
(`flushes`), its text waits in `subagentTextCh` (`texts`). A flush can be late: a
direct edit does not stop it, nor does a text that is shown already, and once
fired it waits for room in the channel. It then replaces what newer edits have
shown, and the two seconds between edits are not kept either (`outdated` marks
this). The final text is nevertheless the last, because the loop sends it on its
way out. A forwarder or flush that still waits for room after that waits for ever.

### ConfigManager

One named bot. Of a configuration three things are told apart: the allowed users
of the bot, the value of the settings that `/set` changes (some values are
refused by `validate`), and whether the cron schedules parse. `file` is
`config.json`, `Torn` when it holds no JSON; `viper` and `override` are what viper
read last and what `viper.Set` was given last (an override wins: `Over`);
`current` is `Manager.current`, `bots` the dispatcher's `botCfg`; `entries` and
`tracked` count what the cron library fires and what `entryIDs` knows of.

Each goroutine is at a step (`doing`) and carries the configuration it has
decoded (`carried`). A `/set` goes `Set` (viper in memory), `SetOpen` (the file is
truncated), `SetWrite`, `Decode`, `Store`, `TellBots`, `Unload`, `LoadJobs`; the
watcher goes `Reload`, `Decode` and so on; a ClaimOwner `ClaimRead`, `ClaimRename`,
`ClaimReread`, and its own goroutine delivers. Only ClaimOwner holds the mutex
over its file accesses, nothing else on the way is locked, hence these steps.
`open` says whose descriptor still is of the present file: a rename takes the
file from under a setter that is about to write. `unread` is the directory watch.
`Serve`, `LoadConfig` and `Forget` are the start and the end of the process; a
change during `main.run` reaches viper and `current` but not the bots, because
the callback is registered last.

`founders`, `added`, `mixed` and `raced` are history variables; they say to which
runs of the code the properties apply.

### SelfUpdate

A version is the number of its commit. `step[b]` is where a builder is: a chat's
`/update`, `triggerAutoUpdate` (`Updater`, one at a time) or the background subshell
of `run.sh` (`Shell`). All share `head`, `new` (`claudeclaw.new`) and `bin`
(`claudeclaw`). The go command replaces its output by an empty file (`Link`) and
fills it (`Written`), under whatever name it has by then, so a half-written file
can be renamed over the binary; it then cannot be executed (`ExecFails`,
`RunLoop`). When the process ends, the go commands it has started live on
(`orphans`). `note` is `restart_notify.json`, `greeting` the goroutine that reads it,
two seconds after the start. `told[c]` is what came of the last `/update` of `c`:
`cut off` when the process ended, by exec for another chat or otherwise, while
nothing on disk remembered `c`.

### Daemon

Both at once, and the process they live in: `Start` is a round of `run.sh`, `Load`
`config.New`, `Up` the rest of `main.run`, `BootFails` and `NoTelegram` its errors,
`Kill` a signal or a crash at any point, `ReExec` the exec that ends `/update`.
`Kill` loses everything but the files. The daemon is assumed to be run by
`run.sh`, which passes no `--pid-file`; the re-exec after a signal is in
`RunnerQueue`.

### Heartbeat and MemorySections

`InWindow` is translated with its two cases and compared with the arc from start to
end on the circle of the day. `SelectRelevant` picks places in the list of
sections, so that equal sections stay apart: the permanent ones, and the best of
the others after an insertion sort by hits, whose two loops are the functions
`Sorting` and `Insert`. It is compared with `Relevant`, which says of each section by
itself whether it is taken, and with `Precedes`, which says of two in which order.

## Runs

| Run | Instance | Shows |
|---|---|---|
| `runner` (pass) | 2 keys, 3 jobs, a channel of 1, 2 process images; 68,806 states | implements `JobService`; counter exact; every submission settles; a restart asked for while busy happens |
| `runner_reexec` (violation) | same | a re-exec can cut off a job another worker has just begun |
| `topic` (pass) | 1 topic, 2 texts, 1 /bg | nothing lost, doubled, stranded or locked up; cancellation bookkeeping; every message settles |
| `topic_overlap` (violation) | 1 topic, 3 texts, no /bg | the callback of a timer that `Stop` missed starts a second batch |
| `topic_cancel` (violation) | as `topic` | a late cancellation does not hold the queue |
| `topic_ids` (violation) | 2 chats with one message ID in common | a reaction cancels another chat's job |
| `session` (pass) | 4 session IDs, interval 2, 2 jobs in flight; 304,443 states | sessions are resumed, summaries single and finite, rest is reached |
| `session_reset` (violation) | same, with two history variables | a message is answered in the session that was summarized, after its reset |
| `fallback` (pass) | 2 workers, 2 keys, 4 credentials of every kind, 4 inodes; 144,190 states | retries only key errors, gives up only when nothing is left, swaps do not fail alone, executions end |
| `credential_swap` (violation) | same | an empty credentials file is put in place |
| `progress` (pass) | 1 agent, 1 other tool, 3 texts, channels of 2, 1 and 1, 2 lines; 244,057 states | the job ends with all events seen and the final text sent; no text is forgotten; neither job nor tailer hangs |
| `daemon` (pass) | 2 users, a file with no owner or one, 1 setter, a good and a refused value, 2 chats, 1 new commit; 240,125 distinct states | no owner and no added user is lost; copies agree at rest; jobs are registered once; grants take effect; the daemon comes back; every `/update` is answered or known to be cut off; evaluates `WindowIsArc` and `SelectionIsRelevance` |

### Bounds

- `QueueCap = 1` (32 in the code): the full channel and the blocked `Submit` occur
  with two jobs. Two keys are needed for workers that interleave, two jobs of one
  key for order and a full channel. `MaxLives = 2`: one replacement of the process,
  with callers from before and after it.
- One topic, two texts and a /bg command: topics share only `cancelReactions`
  (`topic_ids` looks at that with two chats). Two texts already give stale
  callbacks, orphan timers and a message behind a running batch; the /bg job gives
  the foreign drain. A stale callback that finds a message behind a running batch
  takes three texts: two to be taken by the first callback, which leave the second
  one over, and one to wait. The proofs cover the rest.
- `MaxInFlight = 2` bounds user jobs by what is under way (queued, executing and
  follow-ups), so that a job can be queued behind, and executing beside, every
  step of the housekeeping; housekeeping itself is not bounded. Four session IDs
  are more than can be referred to at a time (`cache`, `file`, `sid`).
- Two workers, two file logins of different length: both orders of truncation and
  overwriting occur. Both loops have a last and a not-last element.

- In `progress` the capacities (32, 16 and 8 in the code) are small enough for each
  channel to fill: the reader waits, a flush waits, a tailer drops a text. Three
  texts are the shown one, an earlier and a later one; two lines per tailer
  (`MaxLines`) let one be dropped.

- In `daemon` what comes from outside is bounded by `Limits`: two commands about
  the configuration and an end of the process; or one of them, an update and an
  end; or two updates (or pushes, up to `MaxCommit`) and two ends. Two commands
  are what it takes for a stale write, a mixed delivery or two LoadJobs at once;
  two updates for a note or a binary of another's. `Apart` keeps commands and
  builds from overlapping, which share nothing but the process: a command is only
  given while nothing is built and an update only asked for while no command is at
  work; a process can end in the midst of either. `MaxUnread` is one notification,
  which already gives a reload before and after each write; two setters and two
  notifications were tried for the invariants, without a new outcome. `FirstUsers`
  has one of the two symmetric owners.

Deadlock checking is off in every run because each of these systems rests
legitimately when users are silent and jobs are done.

### Fairness

Goroutines that can run do run (`WF` on workers, jobs, timers and callbacks), and a
`claude` process ends once started. The latter is an assumption about an outside
program; the runner has no timeout of its own, and it reads lines of up to 1 MB,
so it is the weakest point of the liveness results. A caller blocked in `Submit`
needs `SF`, because room in the channel comes and goes; Go serves blocked senders
in order, which is at least that. The runner under `TopicDispatch` answers what
it accepted, which is `EverySubmissionSettles` and the worker's fairness one level
down. Users, signals, reactions, restarts and `/clear` have no fairness.
In `ProgressFeed` the loop's `select` picks among ready channels at random, hence
`WF` on each of `TakeEvent` and `TakeClose`, which nothing but themselves disables;
process, timers, flushes and forwarders need none.

In `Daemon` there is weak fairness of five groups, each weaker than that of its
members: somebody of the configuration's goroutines that can go on does, likewise
of the chats' builders, of `Updater`, of `Shell`, and of the process with `run.sh`. Git
and go end; commands, messages, pushes, edits and kills have no fairness and are
finitely many by the bounds. The three liveness properties except what cannot be
helped, or what the code does by design: a file that cannot be started from
(`Bootable`), a refused value in viper or in the file (`Usable`), two deliveries at
once (`mixed`).

## Disagreements with the code's own words

Each is a run that fails, with the quotation in `PROJECT.json`. A theorem each says
where the promise does hold, hence what exactly is missing:

1. *runner_reexec*: "restart after current jobs complete". The count is read at
   `Add(-1)` and the flag after it; a job taken in between is cut off.
   `NoCutOffIfCountInsWait`: this is the only way; were a worker not to count a job
   in between another's `Add(-1)` and its re-exec, none would be cut off.
2. *topic_overlap*: "If a job is running, the message waits". The debounce callback
   never looks at `running`: the timer of a first text has fired, a second text comes
   before its callback and arms another that fires too, the first callback takes
   both, a third text waits behind their batch, and the second callback starts it
   beside them. A look at `running` in the callback would end this trace.
   There is another way to two batches, which it would not end and which needs no
   stale callback: a reaction cancels a /bg job, whose `drainPending` (line 1027)
   clears the `running` of a batch that is still at work (line 837), and the next
   text starts a second one. `MCTopicOverlap.cfg` with `Background = {m3}` shows it.
   `OneBatchIfCalm`: there is no third way. Without either - no text between the
   firing of a timer and its callback (`CallbacksInTime`), no /bg job that drains
   (`NoForeignDrain`) - a topic has one batch.
3. *topic_cancel*: "queued messages are not auto-dispatched after a cancel". Between
   the look at the context and `cleanup()` a cancellation is confirmed to the user
   and has no effect. `CancelInTimeHoldsTheQueue`: before that look it always has its
   effect.
4. *topic_ids*: "cancels the corresponding task". The map's key lacks the chat.
   `UniqueIdsKeepReactionsHome`: nothing else is wrong with it.
5. *session_reset*: "The next conversation starts from a fresh session". A job that
   was queued behind the summary has read the session file in `touchLastUsed` when
   the summary's `Clear` removes it, and writes it back (session.go:114). If that job
   then stores no other session - it fails, is cancelled, resumes under the same ID,
   or ends with the process, as in the shortest trace - the next message is answered
   in the very session that was summarized. `FreshAfterSummary` compares with that
   session: a job that was under way and stores a session of its own after the `Clear`
   does no harm, nor does a job of the housekeeping that opens one.
   `SummarizedStaysGone`: if no job executes between the two steps of the summary's
   `Clear` (`ResetsAlone`), the summarized session never comes back.
   `FreshIfUndisturbed` is about more, that the next message is given no session
   whatsoever: only an overlap of any `Clear` with a job and a job of the
   housekeeping between the reset and the next message can prevent that.
6. *credential_swap*: "The write is atomic (temp file + rename)". Every worker uses
   the same temporary name. `SwapIsAtomicIfApart`: a lock from the write to the rename
   would do, also against failing swaps; `OwnLoginIfApart`: for every process to run
   under its own login it would have to last until the process ends.

## Proofs

TLAPS checks the following for all values of the constants that satisfy the
named assumptions (finite sets of keys, positive capacities, model values apart).

- **JobService_proofs**: type invariant, `LinesAreExact`, `OutcomeIsFinal`.
- **RunnerQueue_proofs**: `TypeOK`, `ActiveJobsExact`, `OwedOnce`, and that
  `RunnerQueue` implements `JobService`. None is inductive alone. The counter is:
  `activeJobs` is the cardinality of the workers inside their count, and every
  step adds or removes one worker at most. For the refinement the strengthening
  is that a job in a line has a caller that waits, no answer yet, the right key,
  and no second place, and that an idle worker holds nothing; then each worker
  step is `Accept`, `Refuse`, `Resolve`, `Forget` or a stutter of the service.
  Because the counter is exact, `RestartDecisionExact`: the flag is looked at if and
  only if no other worker has a job. `NoCutOffIfCountInsWait` adds to it that a
  decision stands until the exec. `CallersHaveAWorker`: whoever waits, in `Submit` or
  for an answer, has a worker. `WorkIsFinite` counts the steps a worker has to go,
  8 for each job in its line.
- **TopicDispatch_proofs**: `TypeOK`, `DispatchedOnce`, `NoneForgotten`,
  `RunningHasBatch`, `NoStrandedMessage`, `EntriesAreLive`, `JobsCanBeCancelled`,
  `DiscardNeedsCancel`, `FateIsFinal`.
  Three inductive invariants carry them: *placement* (where a message may be at
  each point of its life: nowhere before it arrives, then in exactly one buffer
  or batch of its own topic, named by its last message), the *ledger* of
  cancellations (which jobs may have an entry, a cancelled context, a pending
  cancel, a hit), and *liveliness* (who will look at the buffer next). `FateIsFinal`
  follows from placement: a message whose fate is decided is in no buffer and in
  no batch that still has to decide. `JobsRunOnce` numbers the places of
  `dispatchJob` (0 to 8) and shows that they only go up. `ResultsAreAwaited` relates the
  jobs in the lines of `JobService` to the `dispatchJob`s that wait. For
  `OneBatchIfCalm` each topic is `Orderly`: what is running is one batch, and no timer
  or callback is there that could start another.
- **SessionLife_proofs**: `TypeOK`, `OneSummaryAtATime`, `ResumesLastSession`. The
  first invariant says that the mark is up exactly while a summary is somewhere
  on its way and that its place (line, worker, clearer) is the one `clearer` tells.
  The second, `StoreSound`, says what cache and file hold relative to `expected`
  at each step of the worker while no `Clear` overlapped. `FreshIfUndisturbed` (of
  `SessionReset`) goes on from there: while a fresh start is owed none
  is expected to be found (`StillFresh`), and `StoreSound` says that none is.
  `SummarizedStaysGone` rests on `Gone`: `Clear` meets an idle worker, who holds no
  session (`AtRest`), so that with the removal of the file nothing names the
  summarized session any more, and what is named later comes from what is there
  or is new. `TopicsRunDry` weighs what is in line, at work and in the goroutines
  after a reply; the weights make a job worth more than all that it can ask for.
- **ExecuteFallback_proofs**: `TypeOK`, `RetriesOnlyKeyErrors`, `GivesUpExhausted`,
  `NoSwapFailsAlone`.
  The invariant relates the attempts made and the credentials passed over to the
  index: together they are what lies before `at[w]`, in order, and every finished
  attempt before the last was a key error. For the last property the invariant
  says of a worker that no other has met at a login how it has left the files:
  no temporary file but its own, empty while it writes, whole before the rename,
  and never the inode that the credentials file names. `SwapInv` says the same of
  any number of workers as long as they keep `SwapsApart`; with it the file is
  whole, for one worker without further ado (`SwapIsAtomicAlone`). `OwnLoginUnlessRival`:
  a process that runs under another login has met another worker.
  `ExecutionsAreBounded` ranks the steps of an execution by index and place: at most
  9 for each key and credential.

- **ProgressFeed_proofs**: `TypeOK`, `AllEventsSeen`, `FinalTextShown`,
  `NoTextGetsStuck`. For the first the invariant says that the newest event of a
  tool call in the channel tells what was reported last, and that without one the
  loop knows it; with the channel empty at the end, nothing is left.
  `NoTextGetsStuck` is inductive together with the types. `TailersHaveTheirEnd` and
  `TailersStartOnce` need that a start reaches a loop that knows nothing of its agent
  (`StartsComeFirst`, about the order in the channel): then none comes late, and no
  forwarder is started twice. `FeedRunsOut` counts what the loop has left to do.

- **Daemon_proofs**: `TypeOK`, `OwnersStay`, `AddedUsersStay`, `JobsOnce`, `CopiesAgree`, and
  `AnswerOwed`: at every moment whoever waits for the answer to `/update` is owed
  it by a goroutine, by the note on disk, or by the process that has taken the
  note. Of the configuration the invariant is made of `Equipped` (a goroutine at a
  step has what it works with there, and a process), `Owned` (no copy of the
  configuration anywhere, on disk, in viper, carried or read by a ClaimOwner, has
  lost a founder: only so does a stale copy written back do no harm), `Kept` (one
  ClaimOwner at a time, and what it is about to write has all that were added) and
  `Jobs` (between Unload and LoadJobs a goroutine without company finds no entry).
  Of the updates it is `Owed`: before an exec the debt is in the note, and what
  outlives a process is building. There is one lemma per action; `DaemonStep`
  puts them together, with `Silent`: nothing is greeted before the daemon serves.
  `CopiesAgree` needs more, and has its own invariant `CopiesInv` on top: `Synced`
  (viper has read the file, or a notification of the change is unread) and `Latest`
  (while nobody is between a change of viper and the decode after it, and no two
  different configurations have been under way, everything that is carried is
  what viper holds, and so are `Manager.current` unless a `Store` is due, and the
  bots unless a `Store` or `TellBots` is due); `Blank` is what a start begins with.
  `RestartInv` is about the files and the process: a half-written binary has its
  writer, versions come from the checkout, goroutines belong to a serving process,
  the lock to its holder (`HalfWrittenHasItsWriter`, `OnlyPulledVersionsRun`,
  `UpdatesLiveInTheProcess`, `LockHasItsHolder`). `BuildsAreFinite` and
  `DeliveriesAreFinite` number the places of the builders and of the
  configuration's goroutines.
- **Algorithms_proofs**: `inWindow` is the arc of the day for every minute; a window
  with its ends swapped is the opposite one; with equal ends it is empty.
  `SelectionIsRelevance`: for every list and prompt `SelectRelevant` takes exactly the
  `Relevant` sections, each once, in the order of `Precedes`. Induction is over a set:
  of the numbers at which a fact fails there would be a least one
  (`NatLessThanWellFounded`). It gives the recursive functions their values
  (`Recursion`) and both loops of the sort their invariant: a sequence stays the same
  choice of places, and the part that has been gone through is in order. That at
  most three are kept and fewer than three outdo each is counted with an injection
  into the places before it.

The theorems that bound steps (`JobsRunOnce`, `WorkIsFinite`, `TopicsRunDry`,
`ExecutionsAreBounded`, `FeedRunsOut`, `BuildsAreFinite`, `DeliveriesAreFinite`) are the
halves of the liveness properties that need no fairness: nothing goes round in
circles, and nobody else's step sets one back. That the steps which are left are
taken is the other half.

Only model-checked: that other half, everything under fairness
(`EverySubmissionSettles`, `BusyRestartHappens`, `EveryMessageSettles`, `ComesToRest`,
`SummariesEnd`, `EveryExecutionEnds`, `EveryFeedEnds`, `TailersEnd`, `GrantTakesEffect`,
`ComesBack`, `UpdateIsAnswered`), which needs ENABLED and is out of the provers' reach;
and the violations, which are counterexamples.

## Abstractions

- Texts, formatting and Telegram calls are left out; a message is a value. Calls
  to Telegram neither fail nor block in the models (the code logs and goes on).
- The shutdown of the root context is modelled in `RunnerQueue` only; it would
  cancel all jobs of `TopicDispatch` shortly before the process ends.
- The housekeeping after a reply is in `SessionLife`, not in `TopicDispatch`; there
  the step from reply to `onDone` is one without it. The jobs it submits are of
  the same queue and are answered like any other.
- The count behind the compression is shared by all topics, so for one topic
  either outcome is possible.
- Disks do not fail. The session file is replaced in one step (`rename`); writing
  its `.tmp` is left out, since in one topic only its worker writes.
- The claude CLI's own writes to `.credentials.json` are left out.
- In `ProgressFeed` an edit that Telegram refuses counts as shown, as it does in the
  code (`lastText` is set before the call). What `buildProgressText` returns is open,
  so an earlier text may come back. A line of more than 1 MB, which stops the
  reader for good, is not modelled.

- In `ConfigManager` the bot has a name; without one `ClaimOwner` never finds it and
  `Bot.UpdateConfig` takes the first bot without a name. `/set` changes one value;
  `/unset` is a `/set` of the empty value. A text that a second setter leaves half
  overwritten is either whole or `Torn`.
- In `SelfUpdate` what git does to the checkout is one step, and so is the write of
  the note, which is small; `go build` reads the checkout as of the pull.

## What the models show of the code, beside the runs that fail

Exceptions in properties of `daemon` stand for behaviour of the code that its
maintainers may want to change. Each was met in a trace:

- `Set` writes before it validates. A refused value stays in viper as an override
  that also shadows later edits of the file, so that every reload fails until a
  restart; and it stays in the file, so that the restart fails as well.
- `Set` writes from viper's copy: a user that ClaimOwner has added and viper has not
  read yet is dropped. ClaimOwner writes back the settings it has read: a `/set` in
  between is undone in the file. A process that ends between truncation and write
  leaves no configuration to start from.
- Deliveries are not ordered: after two at once the bots may be left with the older
  configuration (`mixed`); two LoadJobs at once register a job twice, of which one
  entry can never be removed (`raced`).
- A change of the file during `main.run` reaches `Manager.current` and not the bots.
- Several first messages make several owners.
- All builders share `claudeclaw.new`: a build that fails removes another's result,
  an older build can replace a newer one, and a swap can put a file in place that
  is still being written. The daemon comes back from each of these (`ComesBack`).
- One restart note: of two updates that are under way one is forgotten, and the old
  process's own notification, if still due, can take the new note.
- The note's old commit is read after the pull, so its list of changes is empty.

## Not modelled

- The loop of the heartbeat and the firing of cron jobs: a ticker that submits a
  background job; the jobs are `RunnerQueue`'s, the ticker is the library's.
- `/model`, which changes a field of the bot's configuration in memory until the next
  reload. The PID file, which `run.sh` does not use; under another supervisor a
  re-exec finds its own PID in it and does not start.
- Parsing and truncation of memory files, and `mergeManagedBlock`: text. The latter
  has no caller in the repository.
- A second workspace in `SessionLife`; the claude process's own reading and writing
  of the credentials; lines of more than 1 MB.
- Plain input and output: voice, photo and document download, the setup wizard, the
  command line, environment filtering, usage reports.

# A TLA+ model of PrixOk

PrixOk is a Telegram bot that mirrors and leeches files, with an assistant
("Atri") and chat games built in, and a Go supervisor beside it. These modules
model the parts of it whose correctness depends on the order of events: what
several coroutines, processes, users or timers do to shared state. TLC checks
them on small instances; TLAPS proves the main results for every instance.

File names below are relative to `src/`.

## 1. The system

The bot is one Python process on one asyncio loop (`bot/__main__.py`). Handlers
of Telegram updates run as tasks on that loop (`new_task` in
`bot/helper/ext_utils/bot_utils.py`), so two handlers interleave only where one
of them awaits; a handler that reads state, awaits and then uses what it read is
where things go wrong. Persistent state lives in MongoDB, in SQLite files, and
in files under the data directory that several processes may share. The Go
supervisor (`rewrite/supervisor`) is a second process that keeps the bot alive
through tmux and a lock file.

### Inventory

| Component | State | Operations | Interacts with | Hard part | Correct when |
|---|---|---|---|---|---|
| Task admission queues (`ext_utils/task_manager.py`, `listeners/task_listener.py`) | `queued_dl`, `queued_up`, `non_queued_dl`, `non_queued_up`, `task_dict`, one event per waiting task | admit, refill, complete, fail, cancel, force start, edit the limits | downloaders and uploaders, status messages, settings | a cancel runs beside the main coroutine of its task; an edit refills late | no task counted twice, no lost wake-up, no idle capacity, limits kept, every task ends |
| Download engines and their listeners (`aria2_listener.py`, `direct_listener.py`, ...) | the engine's own list, `task_dict` entries | add, start, complete, fail, seed | the queues | events arrive for tasks that are gone | an event changes at most the task it belongs to |
| qBittorrent and SABnzbd pollers (`qbit_listener.py`, `nzb_listener.py`) | `qb_torrents`, `nzb_jobs`, one interval each | poll, start, stop | engines, listeners | the loop stops itself; wrappers are called without await | while a torrent is active somebody polls |
| Same-folder and multi-link tasks (`task_listener.py`, `mirror_leech.py`, `common.py`) | `same_dir[folder]`: total and the set of mids; `multi_tags`; one lock for the bot | join, leave, merge, spawn the next link, cancel | queues, cancel | the merger holds the lock it waits under; cancelling changes totals others wait on | the last link uploads the files of all; the lock is let go |
| Status messages (`message_utils.py`, `bot_utils.SetInterval`) | `status_dict`, `intervals["status"]` | send, update, delete, flip | queues, Telegram | Telegram calls under the lock | one status message and one interval per chat |
| Incomplete tasks and restart (`db_handler.py`, `restart.py`) | a Mongo collection, `.restartmsg` | record, complete, collect, notify | start-up | crash between the steps | a task interrupted by a restart is reported |
| RSS monitor (`rss.py`) | `rss_dict`, the saved feeds | poll, subscribe, pause, stop | Mongo, commands | items are sent before they are recorded | no item is lost; none is sent twice without a crash |
| Werewolf (`game_werewolf.py`) | `GAMES`, players, votes, phase, bets | open, join, leave, start, vote, settle, cancel | wallet | payments are awaits between checks and updates | every bet is paid out or returned, once |
| Wallet, casino, duck race (`game_common.py`, `game_casino.py`, `game_duck.py`) | `game_users` in Mongo | reserve, pay, record, cooldown | games | read, await, write | balances never go negative, no free money |
| Moderation (`atri_rose.py`, `atri_rose_natural.py`, `atri_rose_timers.py`) | Telegram's restrictions; SQLite rows for timed punishments, warnings and open captchas | punish, warn, lift, join, solve, expire, reset, release | Telegram | a row is renewed while it is being released; calls fail halfway; expiry tasks outlive their captcha | an older row ends no punishment; the expiry of a closed captcha kicks nobody; what is due is released |
| Ingress guard (`atri_message_idempotency_v1672.py`) | a directory of claim files | claim, sweep | every guarded handler, other processes | no lock | one message, one handler |
| Output guard (`atri_response_output_guard_v1673.py`) | a directory of claim files, a flock | claim, sweep | response states, other processes | failing system calls, dying holders | one message, one reply; failures never suppress one |
| Response states (`atri_response_states.py`) | the transient "thinking" message | show, delete, finalize | output guard, Telegram | the animation is sent after the end | no transient message survives the reply |
| Conversation (`atri_ai.py`, `atri_memory.py`) | `_chat_history`, `_chat_locks`, `_loaded_memory_keys`, SQLite rows | receive, load, ask, append, save, forget, sweep | turns, commands, SQLite threads | the sweep and the commands take no lock; restarts | one request of a chat at a time; the model sees the end of the conversation |
| A turn of the assistant (`atri_ai.py`: `_vertex_generate`, `_vertex_generate_vertex`, `post_vertex`) | the contents so far, three budgets of rounds, flags of what was called | route, draft, verify, post, call tools, retry, fall back | Vertex, the free pool, tools, GitHub | every callee may fail in every way; budgets reset each other | what must be looked up is looked up; the turn ends |
| Providers (`atri_free_pool.py`, ...) | provider cooldowns | choose, cool down | HTTP providers | late results | a healthy provider is eventually tried |
| Memory, artifacts, documents | SQLite stores | insert, query, clean | conversation | data, not control | - |
| Worker singleton (`bot/__main__.py`) | a flock on the lock file | acquire at start | watchdog | a probe takes the same lock | one worker |
| Watchdog and orphan recovery (`supervisor/watchdog.go`, `termux-atri-final-recovery.sh`) | missing-since, last recovery, the identified orphan | tick, probe, launch, recover: TERM, KILL | tmux, the lock file, workers | every look is stale when it is used; the hook outlives its caller | only orphans are signalled, none before its grace; a worker is back in its session |
| Supervisor (`supervisor.go`, `mcp_lifecycle.go`) | the running components | start, first failure, shutdown deadline | watchdog, MCP | all stop when one fails | Run returns |
| MCP sessions (`runtimecfg/mcp_supervised_backend.go`, `mcp_backend.go`, `mcp_stdio_transport.go`, `mcp_lifecycle.go`) | closed flag, read-write gate, a session and a lock per plugin, a process and a lock per transport | call, prewarm, prune, invalidate, close | callers, plugin servers, supervisor | three layers of locks; failures, timeouts and sweeps meet in one session | no process orphaned, none swept in use, every call and the shutdown end |
| Request gate (`runtimecfg/request_gate.go`) | per-user cooldown, sliding window | consume | its tests; nothing calls it yet | times may arrive out of order | never more than the quota per window |
| Provider pool and state files (`runtimecfg/free_pool_runtime.go`, `capability_state.go`) | cooldowns, a JSON file | select, report, save | providers | concurrent saves | the file is always whole |

Everything else (downloaders, uploaders, menus, search, vendored clients, the
Rust text functions, deployment scripts) is listed in `PROJECT.json` with the
reason it is left out.

### How the modelled parts interact

The listeners of the download engines drive the queues; the queues drive the
main coroutine of each task, which is why both are one module (`TaskQueue`).
The ingress guard stands before the handlers of the assistant and the output
guard behind them: they share no state but make the same promise, which one
abstract module (`ClaimOnce`) states for both. A game reaches the wallet only
through the coins it takes and gives, so `Werewolf` keeps a ledger of bets in
place of the wallet. The watchdog, the recovery hook and the worker share a
tmux session and a lock file (`Watchdog`). The MCP sessions share nothing with
the bot (`McpSessions`). The links of a folder wait for one another beside the
queues (`SameDir`): a link is in `TaskQueue` a task that has finished its
download and not yet asked for an upload slot. A request of the assistant
(`Conversation`) holds its chat's lock and a generation slot while its turn
(`VertexTurn`) runs: `Answered` and `Failed` of the first are the two ends of
the second. `Moderation` shares only Telegram with the rest.

## 2. Modules

| Module | What it is | Models |
|---|---|---|
| `TaskQueue` | specification | `task_manager.py`, the parts of `task_listener.py` that touch the queues, the engine listeners, force start, cancel, settings |
| `ClaimOnce` | abstract specification | the promise of both guards: no message is claimed twice within the TTL |
| `ClaimFiles` | common part | the variables of both guards: claim files, the clock and what each process has read |
| `MessageClaims` | specification | `_claim_message_once` of the ingress guard (`IngressSpec`, and other names in `Ingress...`) |
| `OutputClaims` | specification | `_claim_output_once` of the output guard |
| `Werewolf` | specification | `game_werewolf.py` |
| `McpSessions` | specification | the supervised MCP backend, its sessions, stdio transports and lifecycle |
| `Watchdog` | specification | `ensureBotSession`, `orphan_recover_main`, the worker's lock |
| `Conversation` | specification | the requests of the assistant: chat locks, history and its rows, sweeps, forgetting, restarts |
| `VertexTurn` | specification | one turn of the assistant: supervisor, rounds, tools, retries (`TurnSpec`, and other names in `Turn...`) |
| `SameDir` | specification | multi-link commands and folders shared by their links |
| `Moderation` | specification | punishments, warnings, captchas, the worker of timed releases |
| `MC...` | instances for TLC | model values, limit choices, symmetry |
| `...Proofs` | theorems | proofs about the module they are named after; `ClaimsProofs` is about both guards, `AssistantProofs` about `Conversation` and `VertexTurn` |

`PROJECT.json` maps each definition to the lines it translates. An operator
whose comment begins "Broken on purpose" is a variant of the definition below
it that a plausible bug would give; TLC finds the named property violated when
the variant takes the definition's place. No specification uses one.

### TaskQueue

A task has a main coroutine (`pc`: wait for a download slot, download, process,
wait for an upload slot, upload, seed) and a second one (`handler`) that a cancel
or an engine event starts. Nothing awaits while it holds `queue_dict_lock`, so a
critical section together with the `start_from_queued()` that follows it is one
action; `task_dict_lock` is held across network calls elsewhere, so each block
under it is an action of its own. Dictionaries whose order matters are
sequences (`queuedDl`, `queuedUp`), the others sets. An event is `signalled`; a
new upload event replaces the old one, as in the code.

An exception goes one of two ways. What a downloader catches ends in
`on_download_error` (`AddFails`, `DlFailed`, `UpFailed`). What nobody catches
ends the coroutine where it stands (`CoroutineDies`; `HandlerDies` for the second
one), with the slots it has; `broken` remembers the task. aria2 has such places
at `aria2_download.py:74`, `:78` and `:124`, Telegram at
`telegram_download.py:151` and `:155`, every task at its database calls (for
example `task_listener.py:523`, before the queues); `mirror_leech.py:536` awaits
the download without a `try`. `Fragile` is the set of tasks to which it may
happen.

Left out: what is transferred, the other downloaders one by one (yt-dlp,
Telegram, Drive and the rest ask for a slot as `direct_downloader.py` does; an
engine task stands for aria2, qBittorrent and SABnzbd), and the processing
stages one by one (a stage registers itself, runs, and looks at
`is_cancelled`).

Worth knowing about the code, all of it reachable in the model:

- A cancel while a task is processed gives its slots back. If no stage looks at
  `is_cancelled` before `check_running_tasks(self, "up")`
  (`task_listener.py:303`), the task takes an upload slot that nobody returns.
- An uncaught exception leaves the slot of its task taken until a cancel of the
  task, which is still in `task_dict` if it got that far.
- `HandledErrorsLeakNothing` says that these are the only ways to lose a slot:
  whatever error reaches a handler gives everything back. `TasksEnd` says what a
  loss costs.
- `QUEUE_ALL` does not bind a kind that has a limit of its own:
  `check_running_tasks` asks for both limits to be reached. `LimitsRespected`
  states the limits as the code keeps them.
- An engine task that is cancelled while it waits finds no `task_dict` entry
  when it is woken; the `KeyError` ends its coroutine after the handler has
  released everything.

### ClaimOnce, MessageClaims, OutputClaims

A claim file is its modification time. In `MessageClaims` every system call is an
action, because the ingress guard takes no lock; in `OutputClaims` what happens
under the flock is a few actions, each of which may fail (`Faulty`), and a
restart may come between any two. Both read the clock once, before anything else.
`ClaimOnce` has a clock and the time of the last successful claim of each
message. The output guard implements it, by the mapping `ClaimEnd` of
`OutputClaims`: a claim that is on disk stands for the time it was made at. The
ingress guard does not (section 4), and is not claimed to.

The output guard promises to "fail open rather than suppressing Atri replies"
(`atri_response_output_guard_v1673.py:132`). One failure does not: an expired
claim that cannot be removed turns the caller away (line 177).
`RefusedOnlyDuplicates` states exactly who is turned away, this case included.

### Werewolf

The coroutine of a game (`runner`) and the callbacks of its buttons (`click`)
interleave at their awaits: a callback is what it has decided and not yet done.
All players stake the same bet, so coins are counted in bets (`bets[g][u]`: taken
from `u` and not given back). The refund and payment loops reach one player per
step, and a roster that changes its size ends them as Python does.

Reachable in the model (see also section 4):

- The check for a running game (line 433) and its registration (line 453) have
  an await between them: two games in one chat, of which `GAMES` knows one.
- A refund loop that is interrupted is run again from its start by the `except`
  clause (line 394), so the first players are refunded twice. `NoFreeMoney`
  says that only the refund loops of an unsettled game can do that.
- The phase is still `join` while roles are dealt (line 238): players come and
  go in a game that has started, without a role message.
- A handler that has counted the voters of one phase may ring in the next
  (line 578).
- A cancel that comes before the coroutine's first step leaves the chat
  blocked: neither `except` nor `finally` is ever entered (lines 402, 430).

Left out: the texts, nicknames, statistics, the duration of the sleeps, and the
payments' amounts.

### McpSessions

Goroutines are the callers, the lifecycle and, per plugin, the goroutine that
prewarms it. Three locks are held across requests and are explicit: the gate of
`SupervisedMCPBackend` (`readers`, `writer`; a reader that meets a waiting
writer waits, as in `sync.RWMutex`), the lock of each plugin (`pluginLock`), the
lock of each transport (`mu`). `backend.mu` guards short sections, each of which
is one action. A transport is a server process: started, ready, or dead. A
request fails at any time, with or without killing the process, which covers
errors, timeouts and the shutdown's cancellation.

Left out: the HTTP transport, which has no process; the contents of requests;
the semaphore that limits concurrent prewarms; a `Wait` of a killed process.
A caller whose request fails closes the session that another caller waits for;
that one sees "not initialized", invalidates in turn, and tries again
(`ListTools`) or fails (`CallTool`). `PruneIdle` and `Close` wait for a hanging
request until its timeout, so a shutdown may exceed the deadline of
`supervisor.go:101`, after which the process exits anyway.

### Watchdog

Three parties act on one tmux session and one lock file: the Go watchdog, the
recovery hook it runs as a command (a shell script that survives it), and the
workers. Each look at the session or the lock is an action, so every answer may
be stale when it is used. Time matters only against two thresholds,
`OrphanGrace` and the retry interval; it advances while the watchdog sleeps, and
is told apart up to the threshold. What goes wrong, and what an operator does,
takes from a common budget `MaxFaults`: a command that fails or times out, a
worker that dies, a session that is lost or opened by hand, the watchdog killed
and restarted, the hook killed.

Assumed: `tmux has-session` tells the hook the truth (for the watchdog a timeout
counts as a missing session, and is modelled); a pid with its start time does
not come back while the hook remembers it; nobody deletes the lock file.

Left out: observe-only mode, the repair of the shared components and its
backoff, the network check, and the parts of the script that deploy releases.

Worth knowing: a probe that finds the lock free holds it for an instant, and a
worker that starts in that instant exits as a duplicate; the next tick launches
another. A lock the hook cannot read while it waits for the worker to go is
taken for a released one, which the watchdog's second probe corrects.

### Conversation

Messages are numbered as they arrive; the number of a request also stands for
its turn in the history and for the lock object it may create in `_chat_locks`.
`seen` is `_state_last_seen` in the order of its times, which is all the sweep
looks at. An `asyncio.Lock` that is released is unlocked until its first waiter
runs; the sweep can drop it in between, and the next message then makes a second
lock for the chat. `dbQueue` holds the calls that have or wait for `_DB_LOCK` of
`atri_memory`. `tainted` records the chats where one of the code's shortcuts has
bitten (a lock dropped with waiters, a history forgotten while a request of the
chat was under way, a failed write): the invariants say that nothing else can
break their promise.

`stored` are the rows of `chat_memory`. A save writes its row and deletes rows of
other chats: those that were last updated longer than `RETENTION_SECONDS` ago,
and the oldest beyond `MaxRows` (`MAX_CHAT_ROWS`). Time being abstract, any rows
may be too old. A chat whose row was deleted so is in `dropped`; when its history
has to be read again it begins anew, and so does `log`. Otherwise the model is
shown the end of what was said, at least as much of it as both the table and
the database keep (`Recent`). `ForgottenForGood` speaks of the moment a command
replies: nothing said before the command is left, unless the chat is `tainted`
or another command is about to clear it once more.
`NobodyStuck` says of the locks that a request that waits
for one waits for a request that works or for the first in line, which can go
on; a lock that the sweep has replaced still serves its own waiters.

Abstractions: addressing, the user's cooldown and the global quota are one way
to be turned away (`TurnAway`); archiving the turn is part of the commit that
precedes it; long-term memory, the animation, attachments and documents are left
out; answers are sent after the lock is released and may be sent out of order.

### VertexTurn

`stage` is where the supervisor is, `step` where the generation under way is.
Whatever a callee may answer is a choice: the model's text, silence or tool
calls, each tool's success, each POST's status, the verifier's verdict. A round's
calls run at most `CODE_TOOL_CONCURRENCY` at a time and end in any order.
`post_vertex` refreshes the token before its second attempt, whatever failed the
first. Assumed: with `mode: ANY` Vertex answers with calls to the allowed
functions, as its API documents.

Left out: prompts and texts, attachments and skills, the web application's route,
and the work of the tools. `MaxToolRounds` is 3 in the run, as in the code
for all but code requests, which have 8; the proofs hold for any number.

### SameDir

A command's links are numbered; link i is known by the pair of its command and
i. `chain` is the coroutine of `run_multi` that sleeps between two links.
`RemoveFromSameDir` is the code's, and called where the code calls it. The loop
in `on_download_complete` polls under the lock: each poll that changes something
is an action (`Merge`, `LastOne`, `GiveUp`), the others are stutters.

Left out: a move that fails, `/stopall`, and the three mirrors of the same code
in `ytdlp.py`, `gallery_dl.py` and `mirror_leech.py` as separate actions
(`NewEvent` stands for each).

### Moderation

`tg` is what Telegram has been told about a user, `row` the row of the timed
punishment. A handler is a coroutine and its calls are actions; each call may
fail, in chats where the bot has lost its rights (`Stuck`) always. Time is
abstract: a row becomes due, a restriction with a limit ends, a captcha expires
at any moment; `older` is the order in which the due rows became so. The worker
reads the oldest (`Oldest`: `BatchLimit` is the code's `LIMIT 100`) and comes to
them one after another: it asks Telegram about the user, lifts the punishment,
deletes whatever row the user has. It does not read the row again, and commands
may replace it at any of these points.

Each user is in a chat of his own, so `/reset confirm` (`ResetChat`) deletes the
captcha and the warnings of one user.

What the properties say, and what they do not:

- `SentenceServed`: a punishment counts (`verdict`) when its row is stored, if
  Telegram has it and nothing else is at work on the user then (`Overlaps`):
  another handler, an open captcha, or a row of his that the worker has read, at
  hand or in its batch. Such a row is carried out, whatever has replaced it
  (section 4); a row replaced before it is read frees nobody.
- `VoidTasksSleepOn`: `void` collects the expiry tasks that slept when the user's
  captcha was solved, replaced or deleted; none of them goes on to kick. A task
  that is past deleting its row is not in it (section 4).
- `WarningsCount`: the count stays at the limit only while a handler that warns is
  at work on the user. It says nothing of Telegram's answer, nor of what a
  restart leaves behind.
- `DueIsReleased` holds while fewer rows than `BatchLimit` can never be released.

Left out: promotions, federations, welcomes, filters, notes, edits of the settings
(`WarnLimit` and `WarnMode` are fixed, also across a reset), `/import`, and the
detection of what is punished automatically.

## 3. What the runs check

Every run ends within three minutes; states are distinct states.

| Run | Instance | Shows | States |
|---|---|---|---|
| `queue` | two tasks, one an engine's that seeds; limits switch between none, one common slot, one slot of each kind; cancels, engine errors, uncaught exceptions of the first, force starts | `OnePlace`: no task counted twice; `NoLostWakeup`; `RunningHaveSlots`; `HandledErrorsLeakNothing`; `NoIdleCapacity`: nobody waits while a refill would start somebody; `LimitsRespected` | 4.2 M |
| `queue_end` | two tasks, one can be cancelled and can meet an uncaught exception; fairness | `TasksEnd`: every task ends unless a slot has leaked for good | 366 k |
| `output_claims` | two processes, two messages, TTL 2, clock to 4; every call may fail | `Implements` (refinement of `ClaimOnce`); `LiveClaimsKept`; `RefusedOnlyDuplicates` | 1.8 M |
| `message_claims` | the same without the lock, clock to 3 | `FirstClaimExclusive` | 1.0 M |
| `werewolf_clicks` | three users, two callbacks at a time, failing payments | `EntryPaid`: who plays has paid; `NoFreeMoney` | 2.6 M |
| `werewolf_game` | four players through whole games, one callback at a time | `VotesByLiving` | 992 k |
| `mcp_sessions` | a caller and a prewarming goroutine contend for one plugin; three transports; fairness | `NoOrphans`; `SweptUnused`; `ClosedForGood`; `NobodyStuck`: no lock is left behind, no wait is circular; `ShutdownEnds`; `CallsReturn` | 37 k |
| `watchdog` | three workers, grace and retry of two ticks, six faults; fairness | `SparesSessions`; `GraceKept`; `Recovers` | 164 k |
| `conversation` | three messages in two chats, room for one chat in the tables, one slot, two rows, one command, one restart; fairness | `OneAtATime`; `ContextIsRecent`; `ForgottenForGood`; `NobodyStuck`; `EveryRequestEnds` | 712 k |
| `same_dir` | a command of three links and one of one, one folder; fairness | `TotalsCount`; `UploadedTogether`; `SomebodyAwaited`: who keeps the lock waits for somebody; `NoLateFiles`; `LockReleased` | 212 k |
| `vertex_turn` | every kind of request; three rounds of tools, two continuations, two empty answers, two calls a round; fairness | `GitHubFirst`; `RefusedWithFreshToken`; `TurnEnds` | 423 k |
| `moderation` | two users in chats that work and one in a chat that does not, two handlers, two orders or joins, clicks, one restart, two rows read at once; fairness | `SentenceServed`; `VoidTasksSleepOn`; `WarningsCount`; `DueIsReleased` | 323 k |

The type invariants are proved (section 5); no run checks them again.

### Bounds, and why they are enough

- **Tasks.** All interference of `TaskQueue` is between two tasks, or between the
  two coroutines of one; a third matters only for the order in which the queue
  is emptied, which no property is about. Limits of one slot make each task wait.
- **Clock and TTL.** A claim must be created, expire and be replaced, by a worker
  whose clock is old: two TTLs. TTL 2 separates younger, equal and older, which
  is where the guard and the sweep differ (`>=` against `>`).
- **Werewolf.** `Clicks` bounds the callbacks in flight: two suffice for any two
  to overlap, and the runner is a third. `MaxBets` 2 lets a user whose bet is
  already in the game press join again, and pay twice. `Games` is one object
  per chat in the runs: the property of each game does not depend on others.
  `LobbyRounds` is the lobby's thirty-second rounds. `MinPlayers` and
  `MaxPlayers` are 2 in the click run, where only the roster matters, and the
  code's minimum, 4, where games are played to the end.
- **Transports.** Three: one being swept, one in a session, one being started.
- **Faults.** Six allow: a lost session, an orphan that ignores TERM, a restart
  of the watchdog, an operator's session, and two failing commands.
- **Messages and chats.** With room for one chat in the tables every message of
  the other chat sweeps; three messages give a holder of a lock, a waiter, and a
  newcomer whose message sweeps the lock or makes a second one. The history
  keeps two turns and the database one, so that trimming and reloading differ.
- **Rounds.** The budgets are counters that only grow or are reset; two of each
  show a reset followed by another run up to the limit.
- **Links.** Three in one folder: one that gives its files away, one that has
  received some and gives them on, the last. The second command shows what the
  common lock does to others.
- **Orders.** Two: a timed punishment and the order that replaces it, around one
  release; two warnings, with `WarnLimit` 2; two captchas of one user, or one and
  a reset. Clicks come on top. With three orders the invariants hold as well (10.4
  million states), and they are proved for any number.
- **Rows.** Two are read at once and three users may have one: the dead row, which
  is the oldest, takes one place, so live rows wait for one another.
- **Exceptions.** One of the two tasks may meet an uncaught one (`Fragile`): the
  other shows what the lost slot means for a task that does not.

Where a theorem exists (section 5) the bound has no bearing on the property.

`CHECK_DEADLOCK FALSE` stands where the system may stop: all tasks are done, all
games are over. Symmetry is used only in runs without liveness.

### Fairness

Weak fairness of a coroutine's or goroutine's own step says that the loop or the
scheduler runs what is ready. What else is assumed, and why:

- `TaskQueue`: transfers end (the engines bound their retries), and a settings
  edit that has begun completes. Nobody need cancel, force or edit, and no
  exception need occur (`ExceptionStep` has no fairness).
- `McpSessions`: a request ends by its timeout. A waiter of a `sync.Mutex` gets it
  in the end (`SF` on `Locking`: the mutex hands over to a waiter that starves),
  and the `select` of `runWithTicks` picks among ready channels at random, so it
  sees `ctx.Done()` (`SF` on `Close`).
- `Watchdog`: the processes run and their commands end or time out. Faults are
  finitely many. A worker that got TERM need not end.
- `Conversation`, `VertexTurn`: requests to the model, tools and database threads
  end, by their timeouts. The requests that wait for a slot are bounded, so weak
  fairness suffices.
- `SameDir`: the chains and the polls of the loop go on. No download is assumed
  to end, and none need: who waits under the lock gives its files to a link that
  is still downloading, and the chain starts such a link or lowers the total.
- `Moderation`: the loop goes on and messages keep coming, each of which starts
  the worker if it has ended; a call to Telegram that is repeated succeeds some
  day (`SF` on `Look` and `Lift`) in chats where the bot has its rights.

## 4. Where the code departs from what is said of it

Met while modelling, and reachable in the modules; the properties are stated
with these cases left open, so that they say what the code does keep.

- **The ingress guard is not atomic across processes.**
  `atri_message_idempotency_v1672.py:91` says "Atomically claim one Telegram
  message across tasks/processes." and names at :93 a second worker that shares
  the directory. Two processes find the same expired claim; one unlinks it and
  creates its own; the other, acting on its stale `stat` (line 130), unlinks
  that one and creates a third: both accept the message. It takes a message
  that is delivered again after a full TTL; `FirstTTL` proves the first TTL
  safe.
- **A cancelled game may keep a bet it says it returned.** `game_werewolf.py:395`
  announces that the bets are refunded. A player whose bet is being taken
  (line 484) when the game is cancelled enters `game.players` (line 491) after
  the refund loop of line 178 has passed. A join pressed twice is charged twice
  and refunded once; a cancel between two payments of a settlement announces
  refunds that line 176 skips.
- **Two games in one chat.** The check for a running game (`game_werewolf.py:433`)
  and its registration (line 453) have an await between them.
- **Cancelling a multi command.** `common.py:607` takes `self.multi` off every
  folder of the command, which counts the current link once more; two links
  that still wait then find a total of at most 1 and upload apart, where
  `help_messages.py:68` says "all links will be uploaded together as one task".
  `UploadedTogether` speaks of commands nobody cancelled.
- **A chain that breaks** (a message that cannot be fetched) leaves its folders
  waiting for links that never come, under the lock of the whole bot:
  `LockReleased` names this case as its only exception.
- **/forgetall beside a request.** It replies that all memory of the chat is
  deleted (`atri_ai.py:3615`), but takes no lock: a request under way puts the
  history it read back (`ForgottenForGood`).
- **/atri off is not for good.** The sweep discards `_disabled_chats` with the
  chat's other entries (`atri_ai.py:301`).
- **The last round.** A generation that used up its budget of rounds on empty
  answers or continuations ends in the error of line 1836, which speaks of
  rounds of tool calls.
- **Captchas and bans.** An expiry kicks by a ban and its lift
  (`atri_rose.py:1034`), which also ends a ban for good; solving one grants full
  permissions, which also ends a mute. `SentenceServed` lets these count as
  lifts. After a restart nobody expires open captchas: the task of line 1105 is
  gone. `/reset confirm` (line 2007) deletes open captchas too: the newcomer stays
  muted, and the button answers that the captcha has run out.
- **A late kick.** An expiry task deletes its row (line 1027) and awaits Telegram's
  ban (line 1034). A user who leaves in between, joins again and solves a new
  captcha is put out all the same. `VoidTasksSleepOn` is about the tasks that have
  not got that far.
- **Rows already read.** The worker reads up to a hundred rows and awaits Telegram
  for each. A command that renews a punishment meanwhile, or makes it one for
  good, does not stop the release of the older row, which then deletes the new
  row by its key (`atri_rose_timers.py:333`). `SentenceServed` excepts it.
- **A hundred dead rows.** `_due_sync` reads the hundred oldest due rows (line 140).
  Rows that can never be released stay the oldest; a hundred of them, which one
  chat that has lost the bot may hold, are read alone for ever, and no other
  punishment is ended by the bot. `DueIsReleased` speaks of fewer.
- **Automatic punishments** (`_violation`, `atri_rose.py:993`) do not cancel the
  row of an older timed one, whose release ends the new punishment too.
- **Warnings are reset even when the punishment fails** (`atri_rose.py:897`).
- **Losing a slot.** A cancel during processing, and an exception that nobody
  catches (`TaskQueue` in section 2): `HandledErrorsLeakNothing` names both.

## 5. What is proved

The proofs hold for every value of the constants that satisfies the named
assumption of the module (finite sets where cardinalities are taken, distinct
sentinels, positive thresholds), so for any number of tasks, processes,
messages, users, callers, plugins, workers, links and budgets. TLC checked every
inductive invariant, or the properties it is made of, before it was proved.
Every safety property that a run checks is stated by a theorem.

| Module | Theorems |
|---|---|
| `TaskQueueProofs` | `Typing`, `CountedOnce` (`OnePlace`), `WakeupsKept` (`NoLostWakeup`), `SlotsOfTheRunning` (`RunningHaveSlots`), `ErrorsGiveSlotsBack` (`HandledErrorsLeakNothing`), `NobodyWaitsIdly` (`NoIdleCapacity`), `AdmissionsFit` (`LimitsRespected`) |
| `ClaimsProofs` | output guard: `OutputTyping`, `Refinement` (`Implements`), `NoClaimLost` (`LiveClaimsKept`), `Refusals` (`RefusedOnlyDuplicates`); ingress guard: `IngressTyping`, `FirstTTL` (`FirstClaimExclusive`) |
| `WerewolfProofs` | `Typing`, `PlayersHavePaid` (`EntryPaid`), `NothingPaidTwice` (`NoFreeMoney`), `LivingVote` (`VotesByLiving`) |
| `ModerationProofs` | `Typing`, `SentencesAreServed` (`SentenceServed`), `WarningsAreHandled` (`WarningsCount`), `VoidTasksKickNobody` (`VoidTasksSleepOn`) |
| `AssistantProofs` | `Conversation`: `Typing`, `RequestsOfAChatTakeTurns` (`OneAtATime`), `TheModelSeesTheRecentTurns` (`ContextIsRecent`), `WhatIsForgottenStaysForgotten` (`ForgottenForGood`), `NobodyIsStuck` (`NobodyStuck`); `VertexTurn`: `TurnTyping`, `AnsweredAfterGitHub` (`GitHubFirst`), `RefreshedBeforeRefused` (`RefusedWithFreshToken`) |
| `McpSessionsProofs` | `Typing`, `NothingOrphaned` (`NoOrphans`), `SweptAlone` (`SweptUnused`), `ClosedAtEnd` (`ClosedForGood`), `NobodyIsStuck` (`NobodyStuck`) |
| `WatchdogProofs` | `Typing`, `Spared` (`SparesSessions`), `GraceObserved` (`GraceKept`) |
| `SameDirProofs` | `Typing`, `FoldersCount` (`TotalsCount`), `LastUploadsAll` (`UploadedTogether`), `UploadsKeepTheirFiles` (`NoLateFiles`), `LockWaitsForSomebody` (`SomebodyAwaited`) |

How the arguments run:

- **`TaskQueueProofs`.** The invariant `IndInv` adds `Placement` to the types:
  where a task's main coroutine is limits the queues and sets the task can be
  in, and a queued task is not signalled. `OnePlace` alone is not inductive:
  that a task which enters a queue is in no other place depends on its `pc`.
  Three more invariants stand on it. `SlotInv`: a task that nobody cancelled
  and no engine failed has its slot from the moment it is woken or let in
  (`OnSlot`). `CleanInv`: what main coroutine and error handler of a
  task leave to each other if neither a cancel nor an uncaught exception has hit
  it (`EndsClean`); the point is that a
  missing `task_dict` entry always comes with a handler that releases. `IdleInv`:
  outside a settings edit `start_from_queued` would start nobody (`NoRoom`). The
  last one needs arithmetic: counting lemmas say how many tasks a refill moves,
  and `RefillFills` that it leaves no room and exceeds no limit. `Admits` states
  for every step that whom it admits fits, from which `LimitsRespected` follows
  as an action property.
- **`ClaimsProofs`.** Output guard (`OutputInv`): whoever is between lock and
  unlock holds the mutex, no clock reading is from the future, what was
  inspected still holds for the holder, and every recorded claim is on disk
  until its TTL is over. So a worker that creates a file knows that the last
  claim has expired: each step is a step of `ClaimOnce`, under the mapping
  `ClaimEnd`, or a stutter. Ingress guard (`IngressInv`): no clock reading is
  from the future; a first claim stays on disk for its TTL (`Held`); whoever is
  about to unlink found a file that old (`Armed`).
- **`WerewolfProofs`.** `EntryPaid` is not inductive because a player who leaves
  is off the roster before his bet is returned, and may join again in between.
  `Covered` counts: the bets of a user are at least the leaves in flight that
  have yet to pay (`Owed`, a cardinality), and one more while he plays or waits
  for the winner's payment. `Stage` says that a settled game is over and that
  its coroutine only pays, announces and ends; `Voting` is `VotesByLiving`, kept
  because votes are cleared before the phase opens.
- **`ModerationProofs`.** `Sentenced`: while a sentence stands, its row is the
  newest (or, for good, absent) and nothing the worker has read, in its batch or
  in hand, is about the user: a row gets into the batch only when it is due, and
  then the sentence is over. `Counted`: who is at the limit has a handler between
  `_warn_sync` and `_reset_warns_sync`. `Distinct`: a captcha that is being made has
  a token that no task knows and no other handler has, and an open captcha's task
  is not void; so an expiry task that finds its own token in the row is the task
  of that very captcha.
- **`AssistantProofs`, conversations.** `Locking`: a lock object is unknown before
  its request is admitted, a waiter is in the queue of its lock, the holder of a
  lock is alone, and outside `tainted` chats it is the lock in the table.
  `Intact`, on top of it: the table's history, every queued save, the row, and
  what a request has read are each the end (`Recent`) of what was said. The
  lemmas on `LastOf` and `Recent` (cut, append, trim) carry the arithmetic.
  `Lining` and `Served` are what `NobodyStuck` needs: who is in a lock's queue
  waits for that lock, each once, and who waits for the database has a call
  there.
- **`AssistantProofs`, turns.** `Fallbacks`: the stages that answer without a
  generation's verdict are reached only in modes that demand nothing of GitHub.
  `Consulted`: the flag `called` is set by successful calls alone, and a
  generation of a demanding turn returns only with it. `Refreshed`: a second
  attempt has a fresh token.
- **`McpSessionsProofs`.** `Gated`: who works is a reader of the gate or under the
  lifecycle's read lock, and a sweep meets no reader. `Handled`: a goroutine has
  a transport exactly where its step needs one. `Locked`: from the lookup to the
  store the plugin's lock is held and the plugin has no session, which is why a
  store overwrites nobody's transport. `Shut`: after `Close` nothing comes back.
  `Left` and `Admitted` are the converse of `Locked` and `Gated`: a lock that is
  held has a holder whose step needs it, a reader that is counted is inside, and
  who waits at the gate waits for a sweep. As a plugin's lock is taken before a
  transport's, and a request waits for no lock, no wait is circular.
- **`WatchdogProofs`.** `Identified`: once the hook has identified the owner, that
  worker's session is gone for good, as a session is never given back to a
  running worker. `Aged`: the age the watchdog remembers never exceeds the time
  nothing has spoken against the orphan.
- **`SameDirProofs`.** `Shape`: a folder's set of tasks is finite and holds exactly
  its links that are not settled, by their `pc`. `Last`: who uploads is still
  counted, with a total of at most 1; this survives a cancel, which only lowers
  totals. `Stored`: the files of a link are in one directory, of an unsettled
  link of the same folder, unless an error deleted them. With `TotalsCount`, a
  total of at most 1 leaves one link and none to come, and `Stored` puts all
  files there. A merge needs a total above 1, so it never reaches a link that
  uploads. `Ended`: a chain that is over has started all its links, and the total
  of a folder whose chain was cancelled is one less than its links; so a holder
  of the lock that is alone in its folder uploads, or has links to come.

Not proved: liveness (`TasksEnd`, `ShutdownEnds`, `CallsReturn`, `Recovers`,
`EveryRequestEnds`, `LockReleased`, `TurnEnds`, `DueIsReleased`) rests on fairness
and ENABLED and stays with TLC. `NobodyStuck`, of the sessions and of the
conversations, `SomebodyAwaited`, and `NoLostWakeup` with `NoIdleCapacity` of the
queues are the part of it that needs neither, and are proved for any number of
waiters: that what is waited for can happen.

## 6. What is not modelled

`PROJECT.json` lists every component with its status. Most of the repository is
outside what a model of control can say something about:

- The transfers (downloaders, uploaders, Drive, rclone), the web, sticker and menu
  features, settings menus, search and vendored clients: input, output and
  wording around one sequential call.
- The memory, artifact, document and skill stores: one SQLite transaction per
  call, whose content is the point.
- The Rust crates, the Go parity observer, the request formatting of Go tools:
  pure functions of text.
- Status messages, the RSS monitor and the incomplete-task notices: the worst of
  their races shows a message twice or late, and nothing depends on it.
- The casino and duck games: one reservation and one payment in one handler.
- The pollers of qBittorrent and SABnzbd, the provider pool, the component
  lifecycle of the supervisor: `TaskQueue`, `VertexTurn` and `Watchdog` take from
  them what they can report and no more.

Amounts of money, texts, logging and layout are left out everywhere. Of the
modelled components, the parts left out are named in section 2. Two hazards in
`PROJECT.json` have no property, with the reason there: the second game in a chat
(a promise the code does not keep), and the hundred rows the release worker
reads at once.

## 7. Plan

The modules are complete as far as the code has control worth modelling, and no
safety property is only model-checked. What is worth adding:

1. An abstract specification of admission (a task asks, is let in within the
   limits, leaves) that `TaskQueue` implements; `CountedOnce` and `AdmissionsFit`
   are the two halves of its proof.
2. An abstract specification of a chat (one request at a time, each shown the
   end of the conversation) that `Conversation` implements outside `tainted`
   chats.

Proof modules are one to a component, eight at most: results of these items
extend what exists.

# TLA+ models of claude-tg-bot

The bot relays Telegram (and MAX) chats to Claude Code processes. It is one
asyncio event loop: a step of any coroutine runs undisturbed from one `await`
to the next, and what is hard in it is what may happen between two steps. The
models follow that rule everywhere: **an action is what one coroutine does from
one await to the next**, its guard is what the code tests there, and whatever a
coroutine read before an await and uses after it is a variable of its own.
Where the code leaves the loop (the token refresher's threads, the credential
broker, the CLI, the shell's terminal) a step is one call of the other side.

## Contents

- [The system](#the-system): components, state, operations, hazards
- [The modules](#the-modules) and how they correspond to the code
- [The runs](#the-runs), their bounds and their fairness
- [What the models found](#what-the-models-found)
- [What is proved](#what-is-proved)
- [What is not modelled](#what-is-not-modelled)
- [The plan](#the-plan)

## The system

| Component | State | Operations | Hard behaviour | Correct when | Module |
|---|---|---|---|---|---|
| **FairAdmission** (`core/sessions.py`) | `_in_use`, `_waiters`, `_order` | `acquire` (cancellable), `release` | cancellation before, after and during a hand-over | slots are conserved, nobody waits while one is free, bursts starve nobody | `FairAdmission`, `SlotPool` |
| **SessionManager**, one thread | lock, queue, worker, client; `_draining` | `handle_text`, `_worker`, `stop`, `reset`, `_evict_session`, `rotate_in_place`, `drain` | handlers overlap at every await; a record is dropped while others hold it; cancelled workers unwind | one turn, one client, no prompt left behind, prompts in order, every handler returns | `SessionManager`, `PromptQueue` |
| **SessionManager**, all threads | clients and their CLI generation, `_detached_shells` | reaper, memory relief, updater, settings change, `aclose` | lists of idle clients that age; tasks cancelled inside another thread's record | a turn keeps its client, a shell has one owner, shutdown leaves nothing | `Clients` |
| **ClaudeSession** (`core/engine.py`) | `_turn_active`, `_states_seen`, `_injected`, `_stash`, `followup_pending` | `run`, `inject`, settling | messages written into a running turn, a stream read past a result, lost processes | every answer goes to its message, none is lost or repeated | `TurnStream` |
| **PermissionGate** (`access/permissions.py`) | `_pending`, `_threads`, `_messages` | `can_use_tool`, `handle_decision`, `cancel_thread` | taps, timeout, stop and cancelled workers meet on one request | the first decision stands, every call settles | `PermissionGate` |
| **Tools and memory of a client** | what it was built with; the row's toggles, cap, notes | `_resolve_tools`, drift test, `remember`, `/forget` | values change under a client | a turn uses only what was granted; a forgotten note stays forgotten | `Capabilities` |
| **PersistentShell** (`core/engine.py`, `core/sessions.py`) | the terminal's queues; `shell_mode`, `shell_awaiting` | commands, key presses, `/shell` | silence is taken for a prompt | commands reach bash, results match | `Shell` |
| **Streamer** (`telegram/streamer.py`) | text, draft, segments, animator, Stop plate, push buttons | `update`, `flush_segment`, `finish`, `cancel` | frames under way, failed sends that succeeded | the answer stands once and whole, nothing stays behind it | `Streamer` |
| **Sessions of a user** (`telegram/handlers.py`, `storage/db.py`) | rows, `dm_current`, `dm_seq`, schedules | messages with idle rotation, menu, sweep, schedules | handlers interleave at each call of the database; crashes | bursts stay together, the cap holds, an occurrence fires once | `Registry` |
| **Albums, voice, arguments, quota** (`telegram/handlers.py`) | `album_buf`, `pending`, usage rows | handlers, debounce timer, transcription | downloads that overtake, state taken away for seconds | each item and argument is used once, the limit holds | `Inbox` |
| **Token refresher and broker** (`core/token_refresh.py`, `deploy/cred-broker.py`) | credentials file, loop and its thread, broker's cache | sweep, refresh, write; stat, open | blocked look-ups, new logins, rotated tokens | the newest login is kept, the broker is current, tokens are renewed | `Credentials` |
| **MAX bridge** (`max/`) | marker, indicator, messages | poll, dispatch, draft, send, edit, delete | restarts between fetch and save, lost answers | nothing lost or repeated beyond a crash | `MaxBridge` |
| **Session directories** (`storage/db.py`, `storage/archive.py`) | rows, uids, directories, transcripts, bundles | migration, launch, archive, expiry | crashes between renames and commits | a session finds its conversation; uids are distinct | `Workdirs` |
| **Calendar** (`core/schedules.py`, `core/sessions.py`) | `next_run`, `cli_last_check` | `next_run_after`, `cli_update_due` | boundaries, changes of the clock | due, and once | `Calendar` |
| **Access and settings** (`access/`) | allowlist file and its copy, scoped options | load, save, edit; gate, resolve, drift | stale copies, broken files, changes under a message | what is in force is what was granted | `Allowlist`, `Settings` |
| **Usage** (`storage/usage.py`, `core/sessions.py`) | snapshot, signature, pin, stored copy | readings, refresh of the pin | overlapping refreshes | store and pin show the last reading | `Usage` |
| **Markup** (`telegram/markup.py`) | none; text that grows | draft clipping, live blocks, splitting, repair | a prefix of the text is all there is | what was shown stands, code stays code | `Markup` |
| Images, rich messages, texts, configuration, model list | none to speak of | formatting | none over time | — | — |
| Sandbox scripts, egress proxy | sockets | relay | other processes | — | — |

How they interact. A handler gates a message (`Allowlist`, `Settings`,
`Inbox`), resolves the session it belongs to (`Registry`) and calls
`SessionManager.handle_text`, which compares the client with what it should be
(`Settings`, `Capabilities`), injects the text into the running turn
(`ClaudeSession.inject`) or puts it into the thread's queue. The thread's worker
takes it, relieves memory (`Clients`), waits for a slot of `FairAdmission` and
runs it with `ClaudeSession.run` (`TurnStream`), or types it into the
persistent shell (`Shell`). The `Streamer` renders the events (`Markup`), over
Telegram or the `MaxBridge`. A dangerous tool call waits on the
`PermissionGate`; `stop` and `reset` unblock it before they interrupt or join
the worker. Reaper, relief, updater and settings changes close clients between
turns. The broker and the refresher (`Credentials`) share one file with the
host's login. What survives a restart is in the database and in the sessions'
directories (`Registry`, `Workdirs`, `Usage`).

## The modules

| Module | Models | Notes |
|---|---|---|
| `FairAdmission` | `class FairAdmission` | implements `SlotPool` |
| `SlotPool` | what the gate promises | abstract: holders and pending calls, no queues |
| `MCFairAdmission` | — | the history variable `bypass` |
| `FairAdmission_proofs` | — | theorems about `FairAdmission` and `MCFairAdmission` |
| `SessionManager` | one thread of `class SessionManager` | `MCSessionManager` adds symmetry; implements `PromptQueue` |
| `PromptQueue` | what a thread promises its user | abstract: a line of prompts, no record, lock or worker |
| `SessionManager_proofs` | — | theorems about `SessionManager` |
| `PermissionGate` | `class PermissionGate` | |
| `PermissionGate_proofs` | — | theorems about `PermissionGate` and `Shell` |
| `TurnStream` | `ClaudeSession.run`, `inject`, settling, follow-ups | the CLI is external |
| `TurnStream_proofs` | — | theorems about `TurnStream` and `Streamer` |
| `Streamer` | one reply on its way to the chat | Telegram is external |
| `Clients`, `Registry`, `Inbox` | clients and shells of all threads; a user's sessions; from messages to prompts | checked through `MCThreads`, which extends `Clients` |
| `Threads_proofs` | — | theorems about `Clients`, `Registry` and `Inbox` |
| `Credentials` | refresher, file, broker | the endpoint and the owner are external |
| `Credentials_proofs` | — | theorems about `Credentials` |
| `MaxBridge`, `Workdirs`, `Calendar`, `Markup` | beside the turns | checked through `MCServices` |
| `Services_proofs` | — | theorems about `MaxBridge`, `Workdirs`, `Calendar` and `Markup` |
| `Allowlist`, `Settings`, `Capabilities`, `Usage` | what a turn may do, what is left | checked through `MCAccess`; `Settings` extends `Allowlist` |
| `Settings_proofs` | — | theorems about `Settings`, `Allowlist`, `Capabilities` and `Usage` |
| `Shell` | one shell on a PTY | checked through `MCShell` |

`MCThreads`, `MCServices` and `MCAccess` check several components in one run.
The components of one such module share no variable: the variable `part` says
which of them a behaviour follows, the others rest in their initial states, and
the properties of each are checked in its own part. This is a union of state
spaces and not a product; where components do interact, the interaction is in a
module of its own (`Settings` with `Allowlist`, `Streamer` with the event loop
of `_run_one`, `Clients` with the locks, workers and shells of every thread).
The theorems about a component of such a union are about the union's
specification, so that a run and a theorem state the same formula.

Most modules state a type invariant, `TypeOK` (`AllowTypeOK` in `Allowlist`,
`ShellTypeOK`, `StreamTypeOK`). It documents the variables; for the gate, the
thread, the permission prompts, the turn, the registry, the credentials and the
settings it is a theorem.

**FairAdmission.** `inUse`, `waiters` and `order` are `_in_use`, `_waiters` and
`_order`. Each call of `acquire` has a program counter and a future; the two
differ while a cancellation is on its way, which is the point of the module.
`TakeFree`/`Enqueue` are the two halves of `acquire`, `Resume`/`Unwind` its
normal and exceptional end, `Release`/`HandOver`/`Free` the loop of
`release()`, one iteration to a step with nothing else enabled in between
(`LoopFree`), as the code has no await there. `SlotPool` passes a slot that is
given back to a waiter in the same step (`Pass`) or frees it (`Leave`);
`FairAdmission` maps `holders` to `Granted` and `pending` to `Pending`.

**SessionManager.** `lockq[r]` is the FIFO of `rec.lock`, its head the holder.
`opc[o]` is where each handler call is, `wpc[w]` where each worker is. A record
is a number, so that a handler which still holds a dropped record keeps working
on it, as in the code. `SubmitLookup` … `SubmitRebuilt` are `handle_text` with
`_get_session`; `WorkerStart` … `WorkerCancelled` are `_worker` with the parts
of `_run_one` that touch the record; `Stop*`, `Reset*`, `Evict*`, `Rotate*` and
`Drain*` are the other callers. `fate` and `voided` are history: what became of
each prompt, and what a stop voided. Two calls are abstracted to their effect on
the record: `run()` succeeds or the worker is cancelled, and the slot is granted
at any time.

**Clients.** Every task that touches clients: a submitter, a resetter, a changer
and a worker for each thread, the reaper, the updater and `aclose`. A client is
the CLI generation it was built for. `job` is the list of idle threads that
relief, reaper or updater made before its first await; `Evict*` is
`_evict_session` for its head, with the tests it makes after it got the lock. A
shell is held by a client (`held`), by `_detached_shells` (`stash`) or by the
local variable of a task (`inhand`); `Reattach` is `_reattach_shell`. `lost` and
`late` name the two exceptions of the properties.

**PermissionGate.** `pc[r]` is where `can_use_tool` is for request `r`, `fut[r]`
the future it awaits, `pending`/`threads`/`messages` the three dicts. `shown`
is what Telegram displays and `edit` an edit under way. `WaitEnds` is
`asyncio.wait_for` of Python 3.11: the future is cancelled at once, the
coroutine runs one pass of the loop later. `cpc`, `todo`, `caught` and
`editing` are the calls of `cancel_thread`, whose loop awaits an edit per id.

**TurnStream.** `stream` is what the CLI wrote and nobody read, `stash` is
`_stash`, and `injected`, `statesSeen`, `turnActive`, `followup` are the fields
of the same names. `Cli*` are the external process: it answers in order, may
fold a message that arrives during a turn into it, reports "running", a result
and, when nothing is left, "idle", and may exit. `RunRead`, `RunResult`,
`RunError`, `RunEnds` are the loop of `run()`, `Settle*` that of
`_settle_after_result()`; `RunFails` stands for every path that drops the
client. `raced` records which of five windows was hit:

| `raced` | Window |
|---|---|
| `uncounted` | a message's send had not returned when `run()` read the result, so `_injected` did not count it |
| `late` | a message was written after the CLI had gone idle and before its result was read |
| `stale` | the "idle" of an earlier turn, left unread, cleared the count |
| `timeout` | nothing arrived within `_SETTLE_TIMEOUT_SEC` |
| `error` | `run()` returned at an error and left the turn's result unread |

**Streamer.** The text is a number of pieces, and every text the code handles is
a run of them: `running_text` is `base..written`, the result's text
`burst..written`. `tpc` is where `_run_one` is, `apc` the animator, `kpc` the
task of the Stop plate, `press` a press of the push button, `lock` the
streamer's lock. `CommitRich`, `CommitInterleaved` and `CommitPiece` are the
three forms of `_commit`, with their fall-backs; every send may fail, or succeed
without the bot learning of it (`doubted`).

**Registry.** A step is one call of `db`, which `db._lock` makes atomic; what a
handler read is in its record `at[task]`. `Resolve` … `Submit` are the path of a
message with `_rotate_if_idle` under its per-user lock, `New` … `Unschedule` the
menus, `Sweep` … `Tidied` the daily sweep of untitled sessions, `Due` …
`Stamp` the schedule loop. `Crash` may come at any step. `home`, `astray`,
`over`, `fired` and `twice` are history.

**Inbox.** Each message has a handler. `Receive`/`Downloaded`/`RouteAlbum` are
the download and `album_buf`, `FlushAlbum` the timer; `OnText`, `OnVoice`,
`Voice*` take or give back the awaited command; `Gate` and `Submit` are the
quota test and what follows it, `Used` the query over the rows of ended turns.

**Shell.** The terminal is two queues, `typed` and `out`; `fg` is the foreground
program. `Take` … `Posted` are the worker with `_run_shell_command`, `Press` …
`Edited` the keypad, `Toggle*` and `Refresh` the /shell command. `Start` types a
command and its sentinel, `Done`, `Settled`, `TimedOut` and `ShellDied` are the
ends of `_drive`.

**Credentials.** `loop`, `pool` and `wk` are `refresh_loop`, its executor and
its threads, `file` and `mtime` the credentials file, `cache` and `req` the
broker's `_Creds.token`. `TimesOut` replaces the pool and leaves the thread
behind, which may wake up (`Unblocks`) and write at any later time.

**MaxBridge.** `Poll`, `SaveMarker` and `Crash` are the poller; `Draft` …
`Posts` the calls of a reply, each a step at MAX's server and one at its return.
`ph` is the indicator a draft posted and the next message takes over.

**Workdirs.** `Backfill` and `Turn` … `Rekey` are the two migrations, row by row
in one transaction (`Commit` at its end); `Launch` resolves uid and directory,
`Archive` and `Expire` bundle and purge. `Crash` drops what was not committed.

**Calendar.** `NextRunAfter` on a day of `2 * Half` units and a week of `Week`
days, with `Local`, `Moment` and `Fold` for `datetime`; `LastUpdateSlot` and
`UpdateDue` for the updater. `shift` is one change of the clock, at any of the
moments `Changes`, by `Hour` units in either direction: with `Hour` = 1 no
moment would lie inside the repeated or the skipped time, and the exceptions of
`RunsWhenDue` would never be met.

**Markup.** A line is its kind: what the regular expressions tell apart. Every
walk over the lines is a recursive function of the line it has come to:
`Demoted[i]` is what `demote_headings` has made of the lines up to `i`, and with
`Clips` (`clip_partial_table`) gives the draft `Frame`; `Scanned(from)[i]` is the
scan for fenced blocks, and gives `Segments` and `ClosedEnd`; `Split[i]` and
`Runs[i]` are the chunks and runs that `SplitMarkdown` and `RepairedRuns` repair.
`LimitAssumption` says that a fence and its newline fit into a message: the code
never asks for less than 256 characters, and cuts a longer line anywhere.

**Allowlist, Settings.** `View` is `_reload_if_changed`; every query and every
mutation goes through it. `may` is history: the contents that may be in force.
`Settings` runs a guest's message through the gate (`Gate`), the reads of
`_get_session` (`Read`, `ReadBase`, `ReadDefaults`, `Compare`, `Rebuild`) and the
worker, while owner and guest change values (`OwnerChanges`, `Tap*`).

**Capabilities.** `client` is what the live client was built with, `Drifted` the
comparison of `_get_session`, `Unasked` the automatic grants.

**Usage.** `snap`, `sig`, `synth`, `kv` and `pinned` are `rate_by_type`,
`_last_rate_sig`, `_synth_limit`, the stored copy and `_pinned`; a writer stores
and then refreshes the pin, one await each.

## The runs

| Run | Question | Result |
|---|---|---|
| `admission` | Is a waiting user passed over fewer times than there are users (`BypassBounded`); is every waiter served or cancelled; does the gate implement `SlotPool`? | holds |
| `session_core` | One client, no prompt stranded or lost (`PromptsKept`), and are prompts answered one at a time and in order (`PromptsInOrder`: the thread implements `PromptQueue`), under submits, stop, reset, eviction and drain? | holds |
| `session_live` | With a reset and an in-place rotation: does every handler return and every accepted prompt settle (`CallsSettle`)? | holds |
| `session_stop` | "nothing new runs after stop" | violated |
| `permission` | Does the first decision stand; does a stop unblock what it found; does every gated call settle without a tap? | holds |
| `turn` | Outside the five windows, do replies match; and always: is nothing answered twice, is every message answered or reported as failed? | holds |
| `streamer` | Is the answer in the chat once and in order; does nothing of the preview outlive it; does every reply end? | holds |
| `threads` | `Clients`: does a shell have one owner, does a turn keep its client, does `aclose` leave nothing? `Registry`: do bursts stay together, does the cap hold, does an occurrence fire once? `Inbox`: is each item and argument used once, does the limit hold? | holds |
| `credentials` | Is the newest login kept; is the broker current; is an expiring token renewed although look-ups may block for ever? | holds |
| `services` | `Markup`: does code stay code, does what was shown stand? `MaxBridge`: are updates and parts kept? `Workdirs`: are uids distinct, conversations found and kept? `Calendar`: are schedules and updates run when due, and once? | holds |
| `access` | `Allowlist`: are rights those that were granted? `Settings`: does the turn of an idle session obey what holds now? `Capabilities`: do tools stay within the grant, does `/forget` last? `Usage`: do store and pin show the last reading? | holds |
| `shell` | Does a command reach bash and not a program; is a result shown under its own command? | holds |

Exceptions of a property are named in the state (`raced`, `hist`, `lost`,
`late`, `broken`, `cut`, `loose`, `stale`, `unsaved`, `replayed`), set by the
action in which the race happens: they are the observations below.

Every passing property has a mutant: a definition in the same module with a
plausible bug (a dropped guard, a missing reset, an off-by-one), listed in
`PROJECT.json`, under which TLC finds the property violated.

### Bounds

- **Admission**: three users and four calls on one slot: one holder and three
  waiters, two of one user and one of another, is the least a rotation can treat
  unfairly; call names are reused, so behaviours are not bounded in length. The
  theorems cover every number.
- **SessionManager**: every call runs once. Three submits give a running turn, a
  queued prompt and one that arrives as the worker ends; one stop, reset,
  eviction and drain interleave. `MaxQueued = 2` (5 in the code) in
  `session_core`, so that two prompts wait in order and the third meets the cap,
  and 1 in the others. Two overlapping resets break `PromptsInOrder` (see below), so
  there is one; `session_live` has the rotation.
- **PermissionGate**: two requests of one or two sessions and a stop of either;
  taps are unbounded. The theorems cover any number of each.
- **TurnStream**: three messages: one whose turn runs, one injected, one that
  would get the wrong answer.
- **Streamer**: two pieces, so that one may be posted while the other is
  written, in any of the modes (streaming or not, code or chat, drafts or
  edits); one press.
- **Threads**: two threads, of which one works while the other is evicted; one
  shell, which may move; one sweep, update and administrative call; two submits
  for a thread and `_max_live = 1`. Registry: two messages, a tap, two sessions
  allowed of four that can be allocated, three events from outside in any order,
  a crash among them. Inbox: an album of three with room for two, a single, two
  texts, two voice notes, of which three arrive; limits of one turn and two.
- **Credentials**: two threads (one left behind), one expiry, one more login, one
  fault, a request of the broker; `MaxFails = 3` passes the alert's threshold.
- **Services**: four lines of ten kinds, with a limit of two of them; two updates
  with two-part answers and a draft each, one fault, one restart; two sessions,
  two uids, two names, two restarts of the migration; a day of six units, a
  week of three days, four days, and a change of the clock by two units at the
  second midnight, two units later, or none.
- **Access**: two messages, a change of the guest, one of the owner, one fault;
  three tools and three notes (two are kept), four changes; two windows, two
  percentages, three readings, one restart, two posts.
- **Shell**: three messages, one press and two calls of /shell.

`CHECK_DEADLOCK FALSE` is set where calls are bounded, so that the system comes
to rest; the admission run checks deadlock.

### Fairness

- **Admission**: a cancelled call unwinds, a granted call resumes, a holder
  releases, the loop of `release()` goes on. The event loop schedules ready
  callbacks, turns end (or are stopped); nobody has to call `acquire`.
- **SessionManager**: each handler that was called, and each worker, goes on
  when it can. The lock is first come, first served in asyncio, and that is in
  the model, not in the fairness.
- **PermissionGate**: Telegram answers (or the call fails), timers fire, the
  loop runs what is ready. No tap is assumed, nor any stop.
- **TurnStream**: the CLI ends its turns and says when it is idle, a send
  returns or fails, the loop reads what has arrived, and a send to a process
  that has exited fails. No fold, error, exit, timeout or message is assumed.
- **Streamer**: the turn ends, a request of Telegram returns somehow, the
  animator and the plate's task run (weak fairness). Whoever waits for the
  streamer's lock gets it, because `asyncio.Lock` is first come, first served
  and the model does not keep the queue: strong fairness for `FinishLock`,
  `UpdateRemainder`, `ControlWakes`, `ControlCheck`, and for `EndOfTurn`, which
  the updates of the turn interrupt. No press is assumed.
- **Credentials**: the loop runs and a thread that is not blocked goes on. A
  blocked look-up need never end: `TokenRenewed` rests on `TimesOut`.

## What the models found

`session_stop` ends in a counterexample to the comment at
`core/sessions.py:1958`: a prompt that waits for a slot starts after `stop()`
has returned.

The other observations were made with the same models, as exceptions a property
has to name. They are races whose windows are one or a few awaits wide.

**Threads and turns** (`core/sessions.py`, `core/engine.py`)
- A message that read the resume id before a reset continues the conversation
  the reset cleared (1296, against 1979). Of two overlapping resets the second
  drops the new record, and two workers serve one thread (2010).
- `rotate_in_place` closes the client under a running turn (934, against
  `docs/gotchas.md:122`); while a shell is spawned it orphans the shell.
- A worker past the draining test starts its turn after `drain()` returned True
  (3466).
- A message injected as the result is read is not counted; the next message
  gets its answer (engine 1503). The API error branch returns at the message
  with the error and leaves the turn's result in the stream (engine 1699).
- The branch of `acquire` that takes a cancelled waiter out of its deque is
  never reached, because `task.cancel()` cancels the future first; `release()`
  skips dead futures, which costs their user a place in the round.
- A worker cancelled while it relieves memory cuts another thread's disconnect
  short (3103, 3012). A settings change on an idle thread kills the live shell,
  although 1246-1249 says it is carried across; `_reap_detached_shells` works on
  a listing made before its awaits and may close a shell re-adopted since
  (3058-3069). `shell_awaiting` survives its shell; a dead shell's descriptor
  stays open (engine 1139-1141).

**Permission prompts.** A stop while the prompt is being sent leaves its buttons
and its entry in `_messages` (permissions 334, against sessions 1962). A tap on
a prompt whose send failed for the bot only is told "allowed" and the SDK gets a
denial.

**Replies.** The Stop plate is orphaned when its task is cancelled during the
send, or the turn in `finish()`. A send that failed for the bot and not for
Telegram is repeated. A press that comes after the reply calls `stop()` for the
next one. With streaming off, text before a tool call is never shown.

**Shell.** Input whose program ended before reading it is run by bash as a
command without a sentinel, and the next command may be typed into that; the
same holds for a program that survives the Ctrl-C of its time-out. A press's
edit may clear the tracked keypad of a newer reply, and old replies keep theirs.
`shell_key` sets `shell_awaiting` without `rec.lock`, and `peek` may drop a
sentinel. A client built from a row read before /shell overwrites
`rec.shell_mode`. `shell_interrupt` has no caller.

**Sessions and schedules.** Two creations that overlap exceed the cap. The sweep
kills a message that arrives between its test and its disposal (2580), and its
`keep` pointer is read before the page (2613). A scheduled prompt resurrects a
session deleted meanwhile; a schedule paused after the sweep took its snapshot
still fires once; `handle_text`'s answer is ignored, so a rejected prompt is
stamped ok; no quota is checked. A daily schedule polled late in the repeated
autumn hour may run twice, because `replace()` keeps the fold.

**Inbox.** The usage of a turn that was cancelled, or whose session's row had
gone, is not counted. The voice gate's answer is old after a long transcription;
a failed voice note restores a command cancelled meanwhile, and with two notes a
newer command can be lost. An album that takes longer than the debounce is
split; its key is resolved before, its target at the flush.

**Credentials.** Two threads share one temporary path; a login during a refresh
is overwritten; a lost answer or failed write loses a rotated token. A terminal
skip after an ordinary failure alerts only at the thirteenth (`token_refresh.py`
287 says on first occurrence).

**MAX.** Two drafts at once orphan one indicator; any message of the bot takes
it, and `_draft` does not test its age. A crash between dispatch and the saved
marker loses or replays the last batch.

**Directories.** A crash or an error between the two renames (db 1744, 1752)
separates a session from its transcript, against 1715-1718. A row that a message
resurrects gets a new ULID at the next start and is realigned away from its
files; secrets written for a row not yet migrated make the new directory win. A
message between reset and delete runs under a uid that was released.

**Access, settings, tools.** A prompt queued behind a running turn runs on the
old client. Two taps of the owner on base access can lose one (db 1537-1544). A
failed save leaves memory ahead of the disk; a mutation on a broken file
overwrites it; adding a pinned user by name leaves an inert record. A switch to
code under way while the level is revoked gives one code turn. A `/forget`
during a turn, promised for later (i18n 514-517), is never applied to the client;
the user's level is not among the drift keys.

**Usage.** A guess that a limit was hit survives a restart, and another turn's
result can drop a real reading. "Message is not modified" makes the refresh post
anew; two refreshes that overlap without a pin post twice.

**Markup.** A tilde block inside a backtick block that is still open is posted
early. `split_rich_tables` and `extract_wide_tables` do not know fences,
`_FENCE_LINE_RE` neither tildes nor info strings; the headroom of a split
overflows with names of languages longer than 16 characters.

## What is proved

`FairAdmission_proofs`, for every set of users, every finite set of calls and
every number of slots (`SlotsAssumption`, `CallsAssumption`):

| Theorem | Says |
|---|---|
| `TypeCorrect` | `Spec => []TypeOK` |
| `SlotSafety` | `Spec => []SlotsConserved`: `_in_use` is the number of slot owners and at most the capacity |
| `RotationSafety` | `Spec => []RotationExact`: the rotation holds exactly the users with queued futures, each once |
| `NoLostWakeup` | `Spec => []NoWaiterWhileFree` |
| `Refinement` | `Spec => PoolSpec`: the gate implements `SlotPool` |
| `NobodyStarved` | `MCSpec => []BypassBounded`: while a user's call waits, no other is served as often as there are users |

None of these is inductive alone. The inductive invariant `IInv` adds:

- `OneLoop`: at most one call is inside `release()`. Without it two loops could
  hand one slot out twice.
- `StatesAgree`: which states of a call and of its future go together. A future
  with a result belongs to a call that waits or is being cancelled.
- `QueuedNotDone`, `QueuedOnce`, `PendingQueued`: a future in a deque is pending
  or cancelled, is in one place of one deque, and every pending future is in
  one. `HandOver` pops the head of one deque; without these it might pop a
  future that was served already, or strand one that nobody would reach.
- `NoRotationWhileFree`: while a slot is free nobody is queued, which carries
  `NoWaiterWhileFree` through the middle of `release()`.

`NextIInv` has one lemma per action. `HandOver` is the long one: it splits on
whether the popped future is pending and whether the user has others queued.
The refinement maps every action to a step of `SlotPool` or a stutter.
`NobodyStarved` is about the history variable of `MCFairAdmission`, for finitely
many users (`KeysAssumption`): a waiting user's place in the rotation and the
times it was passed over together are at most the number of users, because
`release()` moves the user it serves to the end.

`PermissionGate_proofs`, for every set of requests, sessions and calls of
`cancel_thread`, without assumptions:

| Theorem | Says |
|---|---|
| `TypeCorrect` | `Spec => []TypeOK` |
| `Reachability` | `Spec => []WaitingIsReachable`: a tap and a stop find every undecided call |
| `VerdictTruth` | `Spec => []VerdictIsOutcome` |
| `StopSafety` | `Spec => []StopUnblocks` |
| `DecisionStands` | `Spec => FirstDecisionStands` |
| `TypedAtThePrompt` | `ShellSpec => []CommandsReachBash` |
| `ResultsAreOwn` | `ShellSpec => []RepliesMatch` |

Its inductive invariant adds what ties the three dicts, the screen and the
coroutine together: a request that has not asked left no trace (`AskedFirst`); a
message id is unknown until `send_message` returns, and for good when it fails
(`UneditedWhileSent`: otherwise a tap on a failed send could be shown as a
verdict); an ended wait has cancelled its future (`EndedCancelled`); a stale tap
had nothing to decide (`ForgetStale`: otherwise its late clean-up could hide a
waiting call from `cancel_thread`); every note on the screen or on its way there
is true of its request (`NotesTrue`); and what a stop went through no longer
waits (`SweptDecided`).

The module's second part is about `Shell`, for every set of messages, presses
and calls of /shell. Both theorems have the exceptions the run has (`loose`:
input whose program ended, a time-out the program survived, a key at the wrong
time). The prompt is `Clear` when no program runs and nothing that ends in a
sentinel waits in the terminal. If no input is awaited the prompt is clear,
unless a command is being driven; and it is still clear when a message that saw
it so is typed, because what comes in between, a key or /shell, types nothing
with a sentinel (`AwaitInv`). At most one sentinel is on its way (`MarksInv`), at
most one worker drives (`WorkInv`), and while it does, the foreground program
and the sentinel are its own (`OwnInv`), which is why the output up to it is the
command's result.

`TurnStream_proofs`, for every set of messages (`NamesAssumption`: `run(None)`
and an idle `run()` are told from every message):

| Theorem | Says |
|---|---|
| `TypeCorrect` | `Spec => []TypeOK` |
| `NeverTwice` | `Spec => []AnsweredOnce`: replies and follow-up replies answer disjoint sets of messages |
| `NeverShifted` | `Spec => []RepliesMatchUnlessRaced`: outside the five windows, a reply is to its own message |
| `WholeAnswer` | `StreamSpec => []AnswerDelivered` |
| `NothingLeft` | `StreamSpec => []ScreenCleared` |

A message travels from its handler to the queue, to `run()`'s hand, down the
pipe, into the CLI's turn, into its output, perhaps into the stash and into a
result that waits to be settled, and into a reply. `AnsweredOnce` speaks of the
last of these places only. The inductive invariant says that a message is in at
most one of them (`OnePlace`) and once in it (`OnceInPlace`): a message that is
both queued and injected, or stashed and still in the output, would be answered
twice. Every action moves messages from one place to a later one, or drops them;
the two lemmas `Take` (out of stash or output) and `ReportIInv` (into the
replies) serve all the actions that read and report. `CurKnown` says that
`run(None)` sends nothing.

`RepliesMatchUnlessRaced` needs what the client knows of the CLI. As long as
nothing raced, nothing is outstanding when `run()` sends (`Quiet`); so its
message is the first that is answered (`Mine`), and what the first result leaves
unanswered was injected and is counted, or is about to be (`Beyond`, `Counted`):
`run()` settles and does not return early. An "idle" behind the result is the
CLI's last word (`LastWord`), so that settling ends with nothing on its way.

The module's second part is about `Streamer`, for every number of pieces
and presses. `Reach` is how far the text has been posted. All text up to
it is in the chat and in order, but for what a cancelled send cut (`PostInv`);
what is buffered or about to be committed is the text right behind it
(`TextInv`): a burst that was flushed is not posted again by `finish()`, and none
is skipped between two. For `ScreenCleared`: from the first step of `finish()` the
animator is off and nothing else shows a frame (`PreviewInv`), and a plate on
the screen has an id the streamer knows, unless its sending was cut
(`PlateInv`).

`Credentials_proofs`, for any number of threads, requests, logins, expiries and
faults (`CredentialsAssumption`):

| Theorem | Says |
|---|---|
| `TypeCorrect` | `Spec => []TypeOK` |
| `BrokerNeverStale` | `Spec => []BrokerCurrent`: a request gets a token the file held while it asked |
| `NewestKept` | `Spec => []NewestLoginKept`: the newest login is in the file or about to be written, or was lost for a named reason |

`BrokerCurrent` needs that one request reads at a time (`OneReader`, the lock),
that a cache with the file's present time has the file's token (`CacheTrue`) and
that what a request found in file or cache is in its `seen` (`SeenTrue`).
`NewestLoginKept` needs, of every thread that was given tokens, that it holds the
one the endpoint takes (`WriterHasLive`) and, where tokens rotate, that neither
the file nor another thread has it (`WriterAlone`): otherwise a second thread
could trade it while the first is about to write it. Where tokens do not rotate,
the file has the newest login all the time (`FileHasNewest`). `NothingAhead` and
`BlobRead` bound the numbers and the blobs; the steps that touch nothing of this
share one lemma (`QuietLogin`).

`SessionManager_proofs`, for any number of calls of every handler
(`CallsAssumption`: the handlers' calls are told from each other, and resets are
finitely many, because records are numbered by them):

| Theorem | Says |
|---|---|
| `TypeCorrect` | `Spec /\ []ResetsApart => []TypeOK` |
| `TurnsOneByOne` | `Spec /\ []ResetsApart => []OneTurnAtATime`: two workers never have a prompt in hand at once (no run lists it, as `PromptsInOrder` forbids it too) |
| `ClientsOneByOne` | `Spec /\ []ResetsApart => []OneClient`: an open client is the only one, and the record's or one a call is closing |
| `PromptsAreKept` | with `Rotates = {}`, `Spec /\ []ResetsApart => []PromptsKept`: a queued prompt has a worker, and the worker a client |
| `LineOfPrompts` | `Spec /\ []ResetsApart => PromptsInOrder`: the thread implements `PromptQueue` |

The two hypotheses are the code's own exceptions and not a convenience.
`ResetsApart` says that no two resets are under way between their look-up and
the pop of the record. Where it fails, so do the properties: the second reset,
which waited for the lock of the first, pops the record made in between, and two
workers serve the thread (see the observations above). The runs have one reset
and meet the hypothesis by their bound; the theorems allow any number of resets,
stops and evictions as long as resets follow each other. A rotation closes the
client under a worker, so `PromptsKept`
is stated without one; the run checks it with the same exception.

The inductive invariant is about the record in the table. Every other record is
empty (`RecordInv`); a call in its critical section has the lock (`LockInv`), and
a submission or a reset in it works on the record in the table, since
`_get_session` looks again under the lock. A task that is not over is the
table's worker, and one that was cancelled has a reset that waits for it
(`WorkerInv`): so a new worker is never made beside an old one. A queue that is
not empty has a worker (`QueueInv`), an open client is the record's or a closing
call's (`ClientInv`), and without rotations a worker has a client (`ServedInv`).
`CountInv` bounds the numbers of records by the resets that have ended.

`LineOfPrompts` maps the thread to a line: the queue of the record in the table
(`Waiting`), the prompt of the worker that has one (`InHand`) and the prompts
whose fate is known (`Settled`). Each step is then a step of `PromptQueue` or
none: `Enqueue` accepts, `TakeNext` takes the head, the end of a turn or a
cancellation finishes the prompt in hand, a stop or a reset clears the line,
`drain` shuts it, and everything else, a new record too, leaves it as it is.
That needs `LineInv` beside the invariant above: a call that has not ended has
not submitted its prompt (`FreshInv`), a prompt that waits is queued once and
not over (`QueuedInv`), one in hand was taken and is not over (`HandInv`), and
the room a submission saw under the lock is still there when it queues, as only
the holder of the lock makes the queue longer (`RoomInv`): so an injected
message overtakes nobody although the injection awaits.

`Threads_proofs`, for every finite set of threads (relief, reaper and updater
list them), any number of shells, messages, taps, sessions, album items, voice
notes, events and time, and every cap and limit (`ThreadsAssumption`):

| Theorem | Says |
|---|---|
| `ShellOwned` | `MCSpec => []ShellHasOneOwner` |
| `TurnSafe` | `MCSpec => []TurnKeepsClient` |
| `ShutdownCloses` | `MCSpec => []ClosedIsClosed` |
| `RegistryTypes` | `MCSpec => []Reg!TypeOK` |
| `BurstTogether` | `MCSpec => []BurstStaysTogether` |
| `CapHolds` | `MCSpec => []CapHoldsUnlessRaced` |
| `FiredOnce` | `MCSpec => []OccurrenceFiredOnce` |
| `HeldForOne` | `MCSpec => []HeldOnce` |
| `LimitKept` | `MCSpec => LimitHolds` |

**Clients.** `TurnKeepsClient` is inductive with little help, because every closer tests the
worker after it got the lock and closes at its next await (`ClientInv`,
`LockInv`: who closes has the thread's lock). `ShellHasOneOwner` needs that a
shell is in at most one of client, stash and a task's local variable
(`PlaceInv`), that a shell is spawned only when the client's last one does not
run, that a thread with a client has nothing in the stash (both `ClientInv`), and
that no running shell is in none of them unless the reaper popped it for
another's sake (`NoneForgotten`). `ClosedIsClosed` needs what `aclose` has
already been through: a thread that is not on its list any more stays stripped
(`CloseInv`), and that the lists are what they seem to be (`JobInv`).

**Registry.** `Tasks` says which labels and registers a task of each role can have; it is most
of the work, since every sub-procedure (`_tidy`, `_create`, the rotation) returns
to a label in a register. The burst: a message between its second look-up and
its decision has the per-user lock (`LockInv`); while it is undisturbed it is
about the current session, and while it rotates no burst has a home
(`HomeInv`). The cap: whoever counted alone finds no more rows than it counted
(`CapInv`), up to the row it archived to make room. The schedule: everything
submitted lies before the next run, before the occurrence in hand and before the
time the sweep is about to write (`DueInv`), which is what moving `next_run` on
before the dispatch achieves.

**Inbox.** `HeldOnce` follows the item of an album from unread to buffered, to
prompted, to gone: it is in one of these (`AlbumInv`), prompts have no part in
common (`PromptInv`), and a command that awaits its argument is where it was
parked or with one message (`ArgInv`). `LimitHolds` is about the rows the gate
counts: each turn that ended while its session had a row has a row of usage of
its own (`MeterInv`), so the gate counts no fewer than have ended.

`Settings_proofs`, for any number of messages, changes of the guest, edits of
the owner and faults (`SettingsAssumption`, `FaultsAssumption`), of tools, notes,
windows and readings (`AccessAssumption`):

| Theorem | Says |
|---|---|
| `TypeCorrect` | `Spec => []TypeOK` |
| `RightsStand` | `Spec => []RightsKept` |
| `IdleObeys` | `Spec => []IdleTurnObeys` |
| `GrantHolds` | `MCSpec => []ToolsWithinGrant` |
| `ForgottenForGood` | `MCSpec => []ForgottenStays` |
| `QuotaShown` | `MCSpec => []SnapshotShown` |

`RightsKept` is inductive once the copy is known to be stamped no later than the
file (`AllowInv`): then an edit of the file always makes the copy stale. It is
proved for the steps of `Settings`, which are those of `Allowlist` with the
guest's messages added. For `IdleTurnObeys` every value a message has read is in
its history (`ReadInv`): mode and own value from the row, access from the base,
the effective value from those and what is stored for the user; a mode that is
code has passed the gate, or a switch to it was under way. That the client a
message got is still there when its turn starts is `SessionInv`: while a worker
lives there is a client, and only the message that holds the lock closes or
builds one. `ObeyInv` carries the promise from the queue to the turn.

**Capabilities.** The client has exactly the tools that the mode, toggles and cap
it was built with allow, and while a turn runs these are no more than was
granted: a turn begins after the comparison of `_get_session`. Neither the row
nor a client has a note that was cleared on an idle thread, because `DropIdle`
closes the client with its copy (`ToolInv`).

**Usage.** Of the writes of the stored copy that wait, the last has the
snapshot, and the signature is the snapshot's. As long as no two refreshes
overlapped and none failed, at most one is in flight, and it carries the
snapshot unless somebody is about to refresh again (`UseInv`).

`Services_proofs`, for any number of updates, parts, sessions, uids, restarts and
moments (`ServicesAssumption`), and for replies and limits of any length
(`KindsAssumption`, `LimitAssumption`):

| Theorem | Says |
|---|---|
| `UpdatesNeverLost` | `MCSpec => []UpdatesKept` |
| `NoSharedUid` | `MCSpec => []UidsDistinct` |
| `ConversationsFound` | `MCSpec => []ConversationsKept` |
| `DueOnce` | `MCSpec => RunsWhenDue` |
| `PartsReadAlike` | `MCSpec => []CodeStaysCode` |
| `SeenStands` | `MCSpec => TextStands` |

**MaxBridge.** The updates up to the cursor were handed out once, those replayed
after a crash excepted (`PollInv`). Whoever holds the id of an indicator is the
only one, and the message is an indicator still (`HoldInv`): so an edit never
overwrites a part of another answer.

**Workdirs.** No uid has two owners, neither in the database nor in its last
commit, and a client that is sure of its uid owns it (`UidInv`). A conversation
is where the row's directory says, or where its ULID says once that directory is
there and the old one is not (`Reach`). Between the two renames the transcript
still has the old name (`Between`), and only the migration is ahead of the last
commit, by the rows it has come to (`Committed`): a restart finds each session
in a state the next migration handles.

**Calendar.** A moment that is not a second pass stands for exactly the times
the clock shows at it (`StandsForFirst`). `On(s, d)` is the moment of a
schedule's time on day `d`; it grows with `d` (`OnGrows`), runs of later days
come after a moment and those of earlier days do not (`Tomorrow`, `Yesterday`).
So what `next_run_after` returns is such a run, or the second pass of a daily one
polled in the repeated hour, and no run is passed over (`Right`). For the updater:
its slots grow with the moment, and a round under way was due. The assumption on
`Changes` is that the times a change repeats or skips lie within one day, as they
do in every zone whose changes are not at midnight.

**Markup.** What a walk over the lines finds is proved by induction over them.
The library's induction theorems take an operator, which the provers cannot
instantiate; so the induction is over sets: every set of numbers that is not
empty has a least one (`LeastNat`, from the well-foundedness of `<`), hence a set
with 0 and the successors of its members is `Nat` (`Induction`), and a recursion
over the lines has a solution (`Recursion`), without which a recursive function
of TLA+ says nothing.

`PartsReadAlike`: whether a line is in a code block is the parity of the fences
above it. The chunks of `split_message` are the lines of the text in order, and
what is cut inside a line is no fence (`Chain`, for which a fence must fit); the
runs between attachments are the lines between the tokens (`Spread`). Each part
reads on its own as the text does if it is reopened exactly when a fence is
carried into it: this is what holds of the parts after every step of the repair
(`Mended` for chunks; `Patched` for runs, of which one may lose the closing fence
it begins with, `RemovedFits`).

`SeenStands`, its frames: the frame on the screen begins the frame of what has
arrived (`FrameInv`), and that one grows with every delta (`DraftGrows`). What
stands above a half-typed line is settled by the lines before it but for the gap
above a heading, which is only ever added (`StemIs`); and a row that is clipped
has a row right above it, so that no gap was due (`ShotIs`). Its blocks: from
the first line on, the scan of the whole text is outside a block after the last
posted line, and has found exactly what was posted, which ends in code
(`LiveInv`). Then the scan of the rest, started afresh, finds what the whole scan
finds below (`ScanJoin`); and lines that are added do not change what was found,
since with one kind of fence the posted line closes whatever is open above it
(`MarksKept`, `ScanKept`). With two kinds it does not, which is the exception
`LiveBlocksMatch` states.

### What is only model-checked

Everything temporal under fairness
(`EveryWaiterServed`, `CallsSettle`, `EveryCallSettles`, `EveryMessageAnswered`,
`ReplyEnds`, `TokenRenewed`), which the proof system does not reach. Every other
property of a passing run is a theorem.

## What is not modelled

- `SessionManager`: `cancel_queued`, `clear_queue` and `retry` have no caller in
  `src`. The outbox (`_deliver_outbox`) sends files a turn left behind and
  deletes them after the send: a crash in between repeats a file. The plate of
  a hot cache is a message without effect.
- `ClaudeSession`: `interrupt` and the quiet return it causes; the watchdogs one
  by one (all drop the client or time out alike here).
- `PermissionGate`: the toast a tap gets. A tap on a prompt that Telegram
  delivered while the bot's send failed is told "allowed" by toast, and the SDK
  gets a denial; the prompt itself is never edited to a wrong verdict, which is
  what `VerdictIsOutcome` says.
- `max/ids.py`: bounded dictionaries that translate names; an old entry that is
  evicted makes its button dead.
- Images, diagrams, rich messages, inline markup and HTML: functions of a text,
  without behaviour over time. Translations, configuration and the model list:
  data.
- Menus: most of `telegram/handlers.py` formats a page or writes one field. The
  handlers that read, await and write are in `Registry`, `Inbox`, `Settings`,
  `Capabilities` and `Clients`.
- `deploy/`: the scripts that set up a jail, and the egress proxy, which relays
  bytes. The heartbeat of `watchdog.py` is a timer.

## The plan

What is left, in order:

1. **Abstract specifications** worth stating and refining: an at-least-once
   channel for `MaxBridge`, a mailbox for `Inbox`.
2. **Models**: the outbox; the interruption of a turn, composed with
   `TurnStream`.

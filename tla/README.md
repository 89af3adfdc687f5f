# Light CC in TLA+

Light CC is a self-hosted agent platform: a FastAPI server that holds
conversations with a language model over WebSockets, runs the tools the model
asks for, starts agents on a cron schedule and keeps conversations, schedules
and agent runs in a database. It is one asyncio process: between two awaits
nothing else runs, so every hard behaviour comes from what the *other* tasks
did during an await.

The specifications here model that, one module per component. An action is the
code between two awaits that really suspend; where the code reads something
before an await and uses it after, the model keeps the copy in a variable.

## Inventory

| part | state | operations | interacts with | module |
| --- | --- | --- | --- | --- |
| turn registry (`core/agent_runs.py`) | running task per cid, subscribers per cid, permission futures | register, subscribe, unsubscribe, broadcast, cancel, done-callback | router, message handler | `AgentRuns`, `Workspace` |
| router (`handlers/ws_router.py`) | one loop per socket, awaiting one handler at a time | user message, subscribe, cancel, clear, resume, fork, summarize, retry, rollback, disconnect | registry, sessions, database | `AgentRuns`, `History`, `Conversations` |
| message handler (`handlers/agent_handler.py`) | the turn's local message list | wizards, commands, agent loop, permission question, save, terminal event | loop, registry, sessions | `AgentRuns`, `History`, `Workspace` |
| sessions (`core/session.py`) | connections, sessions per cid, save locks, dirty cids | create, destroy, save, load, fork, flush | database, Redis | `Conversations` |
| agent loop (`core/agent.py`, `core/context.py`) | history being extended, one snapshot per cid | stream with retries, tools, repair, compression | tools, model API | `History` |
| scheduler (`core/scheduler.py`, `core/schedule_crud.py`, `core/job_queue.py`) | `schedules`, `schedule_runs`, the loop, jobs | poll, fire, execute, create, update, delete, run now, start, stop | database, jobs | `Scheduler` |
| sub-agents and agent runs (`tools/subagent.py`, `core/agent_runner.py`) | table of agents with done events and locks, `agent_runs` rows | Agent, SendMessage, cleanup, trigger, run, persist | loop, database, job queue | `SubAgents` |
| wizards (`handlers/*_wizard.py`) | one state object per connection and wizard | answer, back, skip, cancel, confirm, overwrite | definitions, skills, schedules | `Wizards` |
| plugins, agent definitions, MCP (`core/plugin_*.py`, `core/agent_loader.py`, `core/mcp_client.py`) | plugin directories, loaded plugins, servers by name, agent rows per user | install, load, unload, update, sync, sign-up, start-up | skills registry, database | `Plugins` |
| accounts (`core/auth.py`, `core/api_tokens.py`, `core/redis_store.py`) | revocation set in Redis, API token rows | log in, refresh, log out, create, use, revoke | Redis, database | `Accounts` |
| rate limits (`core/rate_limit.py`) | token buckets, sliding windows | check | router, routes, loop | `RateLimits` |
| tools on files (`core/permission*.py`, `core/hooks.py`, `tools/edit.py`, `tools/write.py`, `core/checkpoints.py`) | pending questions, files, snapshots | ask, answer, time out, edit, write, revert | loop, registry | `Workspace` |
| memory (`memory/manager.py`, `core/memory_extractor.py`) | `memories` rows, fallback files | save, rename, delete, extract | sessions, job queue, model API | `Memories` |

Hard behaviours, and the correctness each part owes:

- *Interleaving at awaits*: checks made before an await (is a turn running? does the
  row exist? is the title there?) and acted on after it.
- *Cancellation*: a task may be cancelled at any await, its own clean-up included.
  Stop must always free the conversation, and a sub-agent's waiters must not wait for ever.
- *Stale objects and rows*: the scheduler's loop, a finishing job and a user's request
  write one row from values read earlier; a save keeps the session it was called with.
- *Shared tables with names for keys*: one sub-agent for two callers, one MCP server for
  two plugins, one wizard for two conversations, one revocation set for all tokens.
- *Stores without a common transaction*: starting a job and advancing its schedule, a
  definition's file and its row, a counter in Redis and its correction.
- *Crash and outage*: tasks vanish, rows stay; Redis or the database fails between two calls.

`PROJECT.json` lists every component, modelled or not, and under "hazards" where each of
these bites, at its line, with the property about it.

Each module is parameterised by its identities and bounds; an `MC` module and a `.cfg`
of the same name give them values. A module `X_proofs` holds the theorems about `X`; there is one
for `AgentRuns`, `Scheduler`, `SubAgents`, `Conversations`, `Plugins`, `Accounts`, `Workspace` and
`Memories`. `ConversationLog` is an abstract specification that `Conversations` implements.
The modules are cut where the code couples only through a value that can be a choice:
what a model answers, whether a turn is stopped, whether a commit fails.

Some `MC` modules have a `View` that drops what no property and no later step looks at: the
copies of rows the loop is done with, tokens that expired, the identity of prompts of which only
matters whether they are in a list, files no call is about. A view keeps the value of every
property that mentions what it drops.

## AgentRuns: turns, sockets and the registry

`AgentRuns.tla` models `core/agent_runs.py`, the handlers of
`handlers/ws_router.py` that touch it and the control of
`handle_user_message`.

- `agentTasks`, `subscribers` are the two tables of `core/agent_runs.py`; `status`
  is how far a turn's task has come, `cancelReq` the cancellations not delivered
  yet, `pendingSend` the rest of a broadcast's snapshot; `phase` and `target` say what
  each socket's router loop awaits and for which cid; `owner` and `filled` are what
  the router asks of the sessions: whose they are, and whether they have content.
- Each handler is one action up to its first await and one per continuation
  (`UserMessageRecovers` / `RecoveryLoaded`, `ResumeConversation` /
  `ResumeLoaded` / `ResumeCounted`, `Disconnect` / `Detach` /
  `DestroyConnection`). The done-callback is an action of its own (`DoneCallback`),
  as asyncio runs it in a later iteration of the loop.

Even a single socket needs that separation: a turn that has returned is "done" for
`is_generating` while its callback is still queued, so the next message can
register before the callback pops whatever entry the cid then has.

Run `agent_runs`: two tabs of one account, one stored conversation, two turns.

- `RegistryIsNewest`: an entry is always the newest turn of its cid, not yet reaped.
- `ExactUntilOverwrite`: until some registration overwrote an entry, at most one turn of
  a cid runs and the registry holds it. So a running turn gets out of the registry only after a
  registration over an entry that is still there: the race of two recoveries, or the next message
  before the callback of an ended turn.
- `NoDeadSubscriber`: a detached socket is in no subscriber set.
- `StopFreesConversation`: a cancelled turn ends, whatever it awaited.

Bounds: two sockets are enough for the races (one holds the await, one overtakes it), one cid
because the tables are per cid, two turns so that an entry is overwritten while its
task still runs and its late callback meets the other. No symmetry: the run has a liveness
property. Deadlock is not checked: sockets are used once and turns are bounded, so
every behaviour stops.

Fairness: `FairSpec` asks only that a cancelled task gets on: asyncio delivers the
cancellation at the task's next await, the sends of its except branch end or fail,
and queued callbacks run. It does not assume that a model or a tool answers.

## Scheduler: polling, jobs and edits

`Scheduler.tla` models `core/scheduler.py`, `core/schedule_crud.py` and the asyncio
side of `enqueue`.

- `rows` is the table `schedules` (what next_run_at depends on), `running` counts
  the `schedule_runs` left "running", `jobs` are the tasks of this process.
- The loop is `Wake` (its select), `FireDue` (enqueue) and `Commit`, with `snap` the ORM
  objects it goes on with, `due` the rows still to come and `tick` its `now`. A
  failed commit abandons the poll (`AbandonPoll`): rolling back expires the
  other selected objects, and reading an expired attribute of an async session raises.
- A job is `JobStart`, `JobEnds` (it reads the clock) and `JobSaves` (its transaction
  overwrites next_run_at with what follows from that reading and from the cron
  and zone it was *enqueued* with).
- `update_schedule` reads and computes; `UpdateCommits` writes only its columns.
- `Crash` is any end of the process; `start_scheduler` its next start. Databases of
  earlier versions may hold rows without next_run_at: these are the initial states.
- Time is an integer; a cron expression matches at multiples of its period in
  local time, a zone is an offset. Daylight saving is left out.
- `handle_schedule_command` is the `/schedule` command and `api_update_schedule` the REST
  route; both end in the operations of `core/schedule_crud.py`.

Run `scheduler`: two schedules, two job slots, one cron period, two zones, one user
operation, one fault or deletion, time up to 3.

- `FiredOnce`: a due time gets a second job only after a lost commit, or a write to the row
  that was computed before the last poll. `slips` counts these, so the property
  says there is no third way.
- `DisabledQuietens`: a disabled schedule runs at most once more before it is enabled again.
- `RunsSettle`: while nothing failed, exactly the jobs that run are on record as "running",
  however the jobs of a schedule overlap.
- `DueIsFired`: no due schedule stays due for ever, over a crash, an abandoned poll
  and a user operation.

Bounds: the clock passes a due time and the next one, so a job can overlap the next
firing; two slots hold a job and its overlapping successor; one fault shows each
failure alone, and the second of two selected rows what an abandoned poll leaves. A deletion
is counted with the faults, so that it can overtake an update.

Fairness: the loop is a task that is always rescheduled and its commits return; a
process that ended is started again (`restart: unless-stopped` in `docker-compose.yml`); jobs end.
The last is needed only because slots are bounded: the program starts any
number of jobs.

## History: one conversation's messages

`History.tla` models the list of messages that `core/agent.py`, `core/context.py`, the
message handler and the router's retry, summarize, rollback, clear and resume
share. A message is what the API's pairing rule sees of it: its role, the ids of its
`tool_use` blocks and those its `tool_result` blocks answer.

- `heap`, `session`, `own`, `summarizing`, `detached` say which list *object* a party
  holds: the handler appends to the session's own object and retry pops from it,
  while summarize, rollback, resume and the end of a turn put a new one there.
  `working` is the loop's list, a copy, since `repair_tool_use_pairs` returns one: the
  docstring of `agent.run` ("mutated in place") describes an older version, and a
  turn that is stopped saves the list from before its loop.
- `repair_tool_use_pairs` builds its list in one pass; the model says where each message of the
  result comes from (`Place`), without recursion, so that it can be proved about.
- `turn` is the await at which the turn is suspended. `FailInTry` (a stop, or an exception
  anywhere in the try block) can happen at each of them.
- `snapshot` is the entry of the cid in `_compression_snapshots`, which a sub-agent can replace
  (`SubAgentCompresses`): it inherits the cid of the conversation that started it.

Run `history`, whatever stops a turn and whatever the router does meanwhile:

- `ToolPairsAreKept`: no list that may be sent, saved or restored holds a `tool_use` without
  its result, and a result without its `tool_use` stems from a summary.
- `FailedTurnCanBeRetried`: a turn that fails leaves the user's message last, which is
  what retry looks for.

Bounds: compression keeps two messages instead of eight and summarize two instead of
four, so that two turns of two iterations with two tool calls make lists that are
long enough to be cut at every kind of place; three requests of the router are enough for
a resume that meets a rollback or a clear during a turn. The view `Seen` identifies
states that differ only in which number a list object has. A finished instance stops, so
deadlock is not checked.

## SubAgents: dispatches, messages and run rows

`SubAgents.tla` models the Agent and SendMessage tools (`tools/subagent.py`), the run of a
definition and its `agent_runs` row (`core/agent_runner.py`) and the REST calls that start a
run or change its definition.

- `state` and `active` are the `SubAgentState` objects and the table they are in; `ahead` is
  the queue of their locks, for each call the calls that go before it; `calls` are the invocations in
  flight, each at the await it is suspended at; `rows` counts the rows left "running".
- A call may be made by a conversation's turn, by the REST API or by a run of a definition, which
  gets every tool. Calls of one loop iteration run at the same time.
- `CancelTurn` cancels whatever the turn's task awaits, down to the innermost call;
  a background dispatch is a task of its own and survives. `Crash` empties the process.

Run `sub_agents`: two agents, two calls in flight, three prompts, one conversation, a
reconnect, one disturbance (failed transaction, stop, crash, reconnect or edit of the definition).

- `AnswersAreKept`: what an agent answered stays in its conversation, although two
  messages can be sent to it at once.
- `DispatchSettles`: when nobody dispatches an agent any more, its waiters are woken and it
  says how it ended, except after a stop, and run rows settle with their runs.
- `BackgroundIsAnnounced`: the session that dispatched a background agent is told of its
  end, whatever the end, if it is still connected.
- `CallsReturn`: every call returns, unless runs of definitions wait for each other's locks.

Two calls are enough for every race of a lock, and for the circular wait: a run that messages
an agent whose caller awaits it. Fairness (`FairSpec`): what a call can do by itself it does
(`Progress`), since hooks have a timeout and the loop a maximum of turns; cancellations,
crashes and users are owed nothing.

## Conversations: sessions, saves and rows

`Conversations.tla` models `save_conversation` with its locks, load and fork
(`core/session.py`), the router's events that give a cid another conversation (recovery, clear,
resume, fork) or another list (retry, summarize, rollback of a compression), the save at the end
of the connection, the end of a turn, and the import route.

- A session is an object (`objs`) that a cid has (`sess`); a save keeps the one it was called
  with. A message list is the set of exchanges in it, told in full or in a summary; `Cut` is what
  is left of exchanges that lost their answer. `History` is about their order.
- `saves` are the calls in flight: waiting for the lock, inserting (`create`), writing
  (`update`), committing. `rows` are the committed conversations. A commit may fail (`RollBack`).
- What a handler reads before an await and writes after it is kept in between: a recovery in the
  turn it begins (`UserMessage`, `Recover`, `BeginTurn`), a resume and a summary in `router`
  (`Resume` / `Install`, `summarize_context` / `Summarized`; one at a time), the list before a
  compression in `snapshots` (`compress_if_needed` / `rollback_compression`). `retry` shortens the
  list in place, which a turn may be working on.
- `Event` is a clear, or the end of the connection, which saves and leaves the session.
- `contested` remembers the conversations that two cids held at once, that were mixed with another
  in a cid that was busy when it was given one, or that were installed from a list that was no longer
  the saved one. `dropped` remembers what a retry, a summary or a rollback took out of a list,
  for itself or for the turn that works on it.

`ConversationLog.tla` says what saving promises: the history of a conversation is written
whole and only grows, but for what was dropped; that of a contested one is written whole, the
last writer wins.

Run `conversations`: two cids, two session objects, two conversations, two exchanges, one
failed commit, and one resume, compression, summary or retry (`MaxRewrites`).

- `ImplementsLog` (`Log!Spec`, with `log <- rows`): every step is a step of the log or none.
- `OneRowPerSession`: the end of a turn and a clear save one session at once and insert
  one row; a session names a row that does not exist only while its insert is in flight, or
  for ever after it was rolled back.
- `ToldIsSaved`: what a `turn_complete` named is in the row it named, unless contested or dropped.

Two of each are what every race takes: two holders, two savers, an old and a new conversation. One
rewrite is enough for a race of it with turns, saves, clears and a rollback, which has no bound of
its own; two, without failed commits, were checked once (ten million states), and the theorems hold
for any number.

## Wizards: one wizard, several conversations

`Wizards.tla` models the three wizards of `handlers/*_wizard.py` as the message handler
drives them. The state object belongs to the connection, turns to conversations: two
conversations can answer one wizard, and one replies while the other's confirmation awaits the
database. Every step of the three wizards is an operator that says which replies it takes
and which ones skip it; replies that are refused change nothing and are left out.

Run `wizards`: two conversations, two names (one of them of a file that exists), two
texts, two kinds of schedule, one wizard at a time, two schedules that get a free name, so that the
second meets the first's. `Explored` names the steps answered in every way; the others get
one fixed answer, as they all work alike. `Together` says which commands may wait at
once: each wizard with itself, since that is where two conversations meet in one object, and skills with
schedule.

- `WrittenAsAgreed`: what is written or submitted was listed by the last review, and a file
  that was there is replaced only by a yes to the question about that file.
- `CreatedRunsAsTold`: a schedule carries the dispatch token of its own kind and target, unless
  `skipped`: a rename jumped to the name step while the object stood at the prompt step or before it. A
  skill reported as created is the one registered, and an agent reported as created has a
  row of the user's.

## Plugins: directories, processes and rows

`Plugins.tla` models `core/plugin_manager.py`, `core/plugin_loader.py`, the routes and the
`/plugin` and `/agents` commands, what a plugin leaves in the process and in the database, sign-up and
the start and end of the server, await by await.

- `disk`, `staging`: what a directory holds, `Partial` while it is copied; `loaded`, `servers`,
  `registry`: the process; `rows`: agent definitions per user; `jobs`: requests in flight.
- `UnloadFails` is a disconnect that raises: `_exit_stack.aclose()` is not guarded, and the entry
  is out of the list by then. `Stopped` is a chat command that is cancelled at one of its awaits.
  Either ends the request there. `Shutdown` stops at the first disconnect that raises.
- `tainted` remembers plugins two operations on which overlapped, or one of which failed, raised or
  was stopped half way; `missed` those an agent row of which was dropped by a conflict. The
  properties leave the first out for good, and the second until a complete load.

Run `plugins`: two plugins that configure one MCP server of the same name, a second version of one
with other skills and no agents, also found outside `plugins/`; two users, one of them to sign up;
two requests at a time; three requests, crashes and shutdowns in all (`MaxEvents`). Three are an
install, a request that meets it or what it left, and a restart or another request after both.

- `NothingOutlivesItsPlugin`: the skills and agent rows in a plugin's name are those of the
  version that is loaded, unless the plugin is tainted: after an unload that raised or was stopped
  skills and rows do stay (below), and the property says that this touches no other plugin.
- `AgentsReachEveryUser`: every user has the agents of a loaded plugin, whoever came first, the
  user or the plugin.
- `UserRowsAreKept`: rows a user owns are changed by the user only.

## Accounts: credentials and their revocation

`Accounts.tla` models JWTs (`core/auth.py`, `routes/auth.py`), the set in Redis that remembers
revoked ones, with Redis unset, unreachable at start or failing between two calls, and API
tokens (`core/api_tokens.py`). A request is served in steps that end at its awaits.

- Run `accounts`: two requests at a time, two logins, one API token, one outage, lifetimes of one
  and two units: `RevokedIsRefused`, no credential is let through while its revocation is stored, or
  after that of an API token was answered.
- Run `revocation`, the one run that expects a violation: `RevocationLasts`, that a
  revocation is kept until the token expires, as the comment at `core/auth.py:74` says. All revocations
  share one Redis set whose expiry every revocation sets anew, so revoking an
  access token shortens that of a refresh token.

## RateLimits: windows and buckets

`RateLimits.tla` models `core/rate_limit.py`: the sliding window in Redis (one transaction that counts
and adds, a second call that takes a rejected entry out, a third for the oldest one), the token bucket and
the window in the process, and the cascade of limits an action passes.

An entry has a number next to its tick, as the clock values of two checks differ; `admitted`,
`stuck` and `unchecked` are history: the entries of checks counted and let through, those whose rejection could
not be undone, and the checks that were let through because one of the calls to Redis failed.

Run `rate_limits`: two requests at a time, four limits with capacities of one and two, an outage
or a restart. The view counts the entries of each tick instead of naming them; any number of
checks may be let through in an outage.

- `LimitHolds`: of the checks a window lets through, at most its capacity were not let through by a
  failing Redis; a bucket adds to its capacity what it gains within the window. During an outage the limits do
  not hold: every check passes, uncounted. The property says that this is all an outage does: neither it, nor
  the entries it leaves behind, nor a restart gives away what the limit itself allows.
- `RejectionsDoNotCount`: what Redis holds of a window was let through, is about to be taken out,
  or was left by an outage or a restart.

Two requests are the least at which one is rejected because of another's rejected
entry. Time passes three windows of the shortest limit.

## Workspace: permissions, edits and reverts

`Workspace.tla` models tool calls on files: the decision of the permission mode, the question to the
user and its future (`core/agent_runs.py`), the hook before a tool, Edit and Write, and
the checkpoints that take changes back. Shell commands, other programs and people change the same files
(`Outside`). A content is a text and its line ends: a snapshot is read and written back in text mode, so it
keeps the text and writes the line ends of the platform (`read_text`, `write_text`). A call may name a tool by
an alias, which the mode sees and the registry resolves (`resolve_tool_name`).

Run `workspace`: two calls in two conversations of one connection, two files, two events of any
kind from outside: a write by another program, a failing revert, another mode (`MaxEvents`). Its view
numbers texts by their order, as they are only told apart.

- `OnlyAllowedRuns`: a call the mode did not allow runs only if the user said yes to that call, in
  time.
- `RevertRestores`: a revert gives back the text of each text file as it was at the last revert or
  clear, unless others changed it or writing it failed, failed edits and writes included. A file with the
  line ends of another platform comes back with this one's; all else comes back byte by byte.

Two calls give two edits of a file before a revert, a revert between two edits, and two questions at a time.

## Memories: extraction and its duplicates

`Memories.tla` models the memories of a user: rows that tools, routes and jobs add, rename and delete
(`memory/manager.py`, `routes/memory.py`), the files of the fallback, the extraction jobs of a
conversation, and the session whose saves queue them. A list of messages is its length: the
session's own (`sess.count`), that of a turn in flight, the one kept before a compression
(`snapshot`) and the one that a resume or a summary will give the session when its await is over
(`router`). A turn begins in the session's list and ends by setting one of its own, which a compression may
have made shorter than what it began with; the router's messages replace or shorten the session's list at
any point in between (`handlers/ws_router.py:227-238`, `:291-316`, `:424-446`, `:496-525`). `fresh` and `back` are
history: how many messages turns have added since a job was queued, and how many the session was given back.

Run `memories`: two jobs, two titles, two rows, three messages of which two make a job due, a summary of
one, one fault; `Arq` says whether jobs are queued in Redis or run in the process, which is fixed
while a server runs. The constraint `Meet` explores the two halves, which meet in the jobs only, one
after the other: every order of the session's steps until a job reads or a memory is saved, and after
that every order of the jobs' and the user's, with a session that has been saved.

- `DuplicatesOverlap`: a job adds a title that is there only if the other memory came while
  the job waited for the model or was saving. A row whose save raised is not counted: the job does not
  note its title.
- `ExtractionIsDebounced`: a job is queued only after the session was given as many messages as the
  user asked for, new ones or ones brought back. That brought-back ones count is what the code does and not
  what its docstring says (below).

## What the code does that its documents do not say

Met while modelling. The first is the `revocation` run; in the others the modules follow the code, and
the properties name the exception.

- `core/auth.py:83`: revocations share one expiry (above).
- `core/agent_runs.py:11` speaks of one task per conversation; two tabs that send during the
  recovery of one stored conversation start two turns (`ExactUntilOverwrite` says "until").
- `handlers/ws_router.py:208` limits concurrent turns per user; clearing a conversation whose turn
  runs takes that turn out of the count.
- `handlers/ws_router.py:257` promises a late subscriber the remaining events; one that comes while
  the last event is being sent gets none.
- `core/scheduler.py:350` calls enqueue and advance one transaction; a failed commit after
  the enqueue runs the same due time twice (`slips` in `FiredOnce`).
- `core/rate_limit.py:3` and the log at `:110` say that limits fall back to in-memory buckets. They do when Redis
  is not there at startup; when a call to it fails later, the check returns True and nothing is counted
  (`unchecked` in `LimitHolds`).
- `core/plugin_loader.py:13` stores the rows of a plugin "so they can be cleanly torn down on uninstall". When a
  disconnect raises on the way, or the chat command is stopped, the plugin is out of the list while its skills
  and rows stay, and no later uninstall finds them (`UnloadFails`, `Stopped`).
- `core/checkpoints.py:114` speaks of the "pre-change state"; a file with CRLF line ends comes back with those
  of the platform, since its snapshot is read and written in text mode (`RevertRestores`).
- `core/session.py:398` queues an extraction when "enough new messages have accumulated". What is compared is the
  length of the list with that at the last job: after a compressed turn has been counted, the rollback of the
  compression makes the next save queue a job with no new message, and so does a resume of the longer
  stored conversation (`back` in `ExtractionIsDebounced`).
- `core/session.py:380` makes a save all-or-nothing so that it "can never truncate a conversation's message
  history". The list it saves may be shorter than the saved one: after a retry that was then refused, a
  summary, or the rollback of a compression that brings back a list from before later turns (`dropped`),
  or when a resume installs a list that was saved over since it was read (`contested`).
- `core/auth.py:63` says that revoking returns False when Redis is unavailable; what `set_add` returns is not
  looked at, and a logout that stored nothing is answered like any other.
- `core/permissions.py:87` resolves aliases "so permission checks work with both name forms"; the modes
  (`core/permission_modes.py:77`, `:84`) compare the name as given, so that an edit by the alias `edit` is
  not asked for in the default mode unless its path is risky, and `read` is denied in plan mode.
- A job that ends between a due time and the poll overwrites next_run_at, and that time is
  never run; a manual run carries no zone, and its end rewrites next_run_at in UTC (`core/scheduler.py:84`).
- `core/agent.py:41` repairs orphaned `tool_use` ids "so the history is always valid to resend"; a
  summarize whose cut falls inside a tool exchange leaves an orphaned `tool_result`, which
  nothing repairs (`ToolPairsAreKept` names summaries).
- `handlers/schedule_wizard.py:12` says a schedule of an agent or a skill is prefixed with the
  dispatch token, "so scheduled runs use deterministic dispatch". When the create of one
  conversation finds its name taken after another has gone back and chosen another kind, the
  rename jumps to the name step and keeps the prompt of the first kind (`CreatedRunsAsTold` without
  `s.skipped` is violated).
- `handlers/agents_wizard.py:6`: a created agent is not loaded if the user's row of that name is their own.
- `handlers/commands.py:549` says a disabled agent stays so until it is enabled; a
  sync writes the file's flag over it.
- `tools/subagent.py:16` says sub-agents get no SendMessage; the run of a definition does, and
  definitions that message each other's callers wait for ever (`Entangled`).
- `worker.py` imports `tools.background`, which does not exist, so jobs handed to arq are never run;
  `increment_turn` and `clear_permissions` have no caller, so every checkpoint belongs to turn 0 and a
  question cancelled while it is sent stays pending.

## Proofs

Eight modules prove, for every value of the constants (any sockets, cids, calls, schedules,
zones, plugins, users, tokens, lifetimes, limits, list objects and bounds), every safety and action
property the passing runs check on small ones. They assume
only what the modules' ASSUMEs state of the constants: that bounds are numbers, that
the values standing for "none" are not among the things they stand in for, that a token's
lifetime is positive and the bounded clock reaches it, that capacities, windows and the number of kept
messages are positive, that the slots of `SubAgents` and the files of `Workspace` are finite. TLC
evaluates these assumptions on every run.

`Scheduler_proofs` also holds the proofs about `Wizards`, `AgentRuns_proofs` those about `RateLimits`, and
`Accounts_proofs` those about `History`; the modules share no variable.

A property is seldom inductive. Each module therefore has an invariant that is, checked by TLC
first, with a lemma for each action or group of actions.

- `AgentRuns`: `TypeCorrect`, `RegistryCorrect`, `ExactCorrect`, `SubscribersConnected`. The
  inductive invariant adds to the types which sockets an await's continuation may
  still subscribe, that a turn number is used once and in order, and that a
  queued callback belongs to a turn that has ended.
- `Scheduler`: `TypeCorrect`, `FiredOnceCorrect`, `DisabledQuietensCorrect`, `RunsSettleCorrect`.
  `FiredOnce` says nothing of a row that still holds a fired time. The invariant
  `OnceInv` says that everything fired is at or before the last poll, and that
  a fired time is in a row or in the loop's list only if its commit is awaited or it
  slipped. It holds since every write is either after the last poll, because a
  cron match is strictly after its base (`NextRunIsLater`), or counted as a slip;
  `QuietStep` states that once for all steps outside the loop, and `UserSteps` reduces
  the commands and routes to the operations they end in. `LateInv` likewise carries
  `DisabledQuietens`: no late job yet for a row that is enabled or still in the list.
  `SettleInv` counts jobs against run rows; it needs that nothing of a schedule exists before
  the schedule does.
- `SubAgents`: `TypeCorrect`, `AnswersCorrect`, `DispatchCorrect`, `AnnouncedCorrect`. `IInv` ties the
  stage of each call to what it has done (`CallOK`), says that one call at most dispatches an agent,
  which has no end and no answers until then (`DispatchOK`), that the calls at a lock are before one
  another (`LocksOK`), and that a call past the lock has read every answer there is
  (`ListsOK`), so that the list it saves keeps them. That the number of open rows is exact is counting
  (`FewerOpen`, `OneMoreOpen`), and is what keeps `rows` from falling below zero.
- `Conversations`: `TypeCorrect`, `OneRowCorrect`, `ToldCorrect`, `LogImplemented`. The locks
  exclude each other (`LockOK`), so that one save of a session inserts (`CreatedOnce`) and a session's
  number is of a row that is there, being inserted, or rolled back (`RowInv`). `GrowInv` follows
  a conversation from its session through the list of a turn and the copy of a save to the row: each
  holds what the one before held, but for what was dropped and unless the conversation is contested.
  What the router writes is covered by one lemma (`RewriteGrow`): what is not in the new list is
  dropped, and so is what a running turn's own list lacks. From the invariant every step is a step of
  `ConversationLog` or leaves the log alone, which is the refinement.
- `History`: `HistoryTypeCorrect`, `ToolPairsCorrect`, `RetryCorrect` (an action property). A list is
  `Sound` if each message only calls or only answers, every call is answered by the next message and every
  answer without its call is in `cut`; it is `Calling` if its last message calls tools that still
  run. `HistoryInv` says which of the two each list is, whoever holds it, and that the list of a turn that is
  preparing or in the loop still ends with the user's message. The lemmas are about the operators:
  appending calls and then their results (`CallsAreCalling`, `ResultsAreSound`), compressing
  (`CompressIsSound`: a tail that does not begin with a result splits no pair), popping for retry
  (`PopIsSound`), keeping the last messages (`SummaryIsSound`: only the first kept one can lose its call) and
  the repair (`RepairKeepsWhole`: a whole list comes back unchanged, and so the repair of the except
  branches never finds anything, since the handler's list is never `working`). `RepairCorrect` is the
  repair's own promise, for every list: wherever it is broken, as one of an earlier version or an import may
  be, each call of the result is answered by the next message, and no answer loses its call. The places
  messages move to are counted (`PlacesStep`, `PlacesCover`, `PlacesDiffer`), so it needs no induction.
- `RateLimits`: `LimitsTypeCorrect`, `LimitsCorrect`, `RejectionsCorrect`. `LimitsInv` says that an entry is
  of a check that is over (`EntriesAreMade`), that two requests never undo the same one (`UndoesAreDistinct`)
  and that what is stuck is not about to be undone (`StuckIsOver`). The windows then hold by
  counting (`WindowsHold`), as the windows in the process are what was let through (`HistoryIsAdmitted`).
  A bucket is bounded by its balance (`BucketsBalance`): what it has left and has given since any tick
  is at most its capacity and what it gained since.
- `Wizards`: `WizardTypeCorrect`, `WrittenCorrect` (an action property), `CreatedCorrect`. `WizardInv` says of every
  object, of which a turn may hold one the connection has dropped, that its data has the keys of the
  steps before its own (`PlanFits`, `DefinitionFits`), and that a prompt fits its kind past the prompt
  step unless a rename skipped it (`PromptFits`), which is what a waiting create copies (`RowFits`).
- `Plugins`: `TypeCorrect`, `UserRowsCorrect`, `LeftoversCorrect`, `ReachCorrect`. A directory holds the plugin of its
  name unless it is tainted (`DirInv`); what is not tainted is worked on by one request at a
  time (`Alone`); and `StagesOK` says, for each await of that request, what the process and
  the tables hold of the plugin then, from the directory that was just copied to the rows still to delete.
  Another request that touches it taints it, and user edits and sign-ups leave what a stage says alone.
  `ReachInv` is about a load and a sign-up that overlap: it says which users a load has still to serve
  and which plugins a sign-up or the start-up has, and that the rows one transaction
  has seen stay until it commits; so each of the two serves what the other did not see.
- `Accounts`: `TypeCorrect`, `RevokedCorrect` (an action property). What requests carry was issued before
  (`JobsKnown`), nothing is in a revocation set that was never configured, and the row of an API token
  says so from the answer of its revocation on (`RevokedInv`), the write of a request that read
  the row before included.
- `Workspace`: `TypeCorrect`, `RevertCorrect` (an action property), `PermissionCorrect`: whoever
  is past the gate was allowed, and an answer that is yes is of a call that was (`PermissionInv`).
- `Memories`: `TypeCorrect`, `DuplicatesCorrect`, `ExtractionCorrect` (an action property): a job
  that has read the titles knows those of the memories that were there then and of those it saved since
  (`Knows`), and the messages the session was given since the last job, new or brought back, are never
  fewer than its own count says (`FreshOK`).

The proofs changed the models twice where a CASE had overlapping arms, of which TLC takes the first and
a prover any: `check_permission` (an auto mode with a risky call) and `Plugins.TodoOf` are chains of IF
now, as the code is. `SubAgents` had its lock's queue as a sequence.

`History` had a recursive repair. `RateLimits` counted checks where it now keeps their entries, which
tells one rejection from another. In `Wizards` the proof of `CreatedRunsAsTold` failed at the rename, which the
instance of the run had been too small to reach: hence `skipped`, and two schedules in the run.

Only model-checked: liveness (`StopFreesConversation`, `DueIsFired`, `CallsReturn`), which needs
ENABLED of the fair actions, and the finding `RevocationLasts`, which does not hold.

Operators with `_M_` in their name are mutations of the definition they precede: each is
a plausible bug, listed in `PROJECT.json` with the property that notices it.

## Plan

The modules of the plan are built, and every safety and action property the passing runs check is proved. What
is left is outside both: liveness beyond the small instances, and the parts below.

## Not modelled

- Pure I/O and parsing: prompts, project files, storage, search, natural-language cron (what it
  returns is a choice of cron expression).
- Model routing and the providers: wrappers of remote APIs, whose answers are choices in every module.
- Telemetry and usage, which nothing reads back; the browser client, whose requests are the environment
  of the server's modules; operating-system isolation; migrations, which are generated code.
- The Redis copy of a session: `get_or_create_conv_session_async`, the only reader of it, has no
  caller. The arq worker: it cannot start with the repository's code.
- Notifications, webhooks, e-mails, streaming order and retries of one request: they change no state
  the properties are about.
- Admin routes, renames, exports, soft deletion and file transfer: single writes or reads.
- Daylight saving: a zone is an offset.

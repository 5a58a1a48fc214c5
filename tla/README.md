# Formal models of ottoclaw-worker

`ottoclaw-worker` is a Go agent runtime. Chat platforms deliver messages to *channels*; a message bus carries
them to the *agent loop*, which keeps a session per conversation, calls a language model, runs tools and
publishes answers; the *channel manager* carries the answers back, one worker per channel, with rate limiting,
retries and splitting. Around that pipeline run a cron service, a heartbeat, a mission poller, sub-agents and
several small stores that survive restarts. On a node, the daemon `siam-arm` starts such a runtime as its "brain"
and obeys a master. All of it is goroutines over shared maps, bounded Go channels and JSON files, and almost none
of the interleavings have a test.

This directory holds TLA+ models translated from that source, TLC configurations, and TLAPS proofs.
`PROJECT.json` maps each definition to the lines it models, lists the hazards each property is for, and gives with
each property a small mistake in the code that breaks it. Paths below are relative to `src/ottoclaw/`.

## 1. Inventory

| part | source | state it keeps | what is hard | what makes it correct | module |
|---|---|---|---|---|---|
| Message bus | `pkg/bus` | three channels of 64, `done`, `closed` | publishers between the load of `closed` and the select while Close drains | nothing is admitted after close, Close returns, nobody stays blocked | `MessageBus` |
| Channel manager, outbound | `pkg/channels/manager.go` | channel and worker maps, a queue of 16 per worker, the dispatch context | stale worker pointers, closing queues under senders, cancellation racing a drain | order per channel, no send on a closed queue, stop returns | `ChannelManager` |
| Typing, reaction, placeholder indicators | `manager.go`, `base.go` | three concurrent maps keyed by chat | load-delete-store is not atomic; the janitor judges one entry and deletes another | every indicator that was started is eventually stopped | `Indicators` |
| Message splitting | `pkg/channels/split.go` | none | cuts inside code blocks, windows, a repeated header | no chunk is too long, nothing is lost, it returns | `Splitting` |
| JSONL session store | `pkg/memory` | per session a `.jsonl` and a `.meta.json` | a crash between any two writes, a torn last line, shared locks and files | an acknowledged message survives; skip never exceeds the file | `JSONLStore` |
| Session manager | `pkg/session` | map of sessions, one JSON file each | two Saves reordered between snapshot and rename | the file never goes back in time | `Sessions` |
| Agent loop | `pkg/agent/loop.go` | processed ids, busy sessions, sent flag, sessions | dedupe check-then-act, lock TTL, summaries computed on a stale history | a message is processed once, a session by one round, no message is dropped unsummarised | `AgentRounds`, `Conversation` |
| Provider fallback and cooldown | `pkg/providers` | error counts and windows per provider | late results of older calls, window arithmetic | a request gives up last of all; cooldowns end by the rules | `Fallback` |
| Tool calls of an iteration, audit, approval | `loop.go`, `pkg/tools` | tickets and records at the master, the workspace | tools in parallel, polling errors, a step of several that fails | an unapproved action does not run; what a tool reports is what it did | `ToolProfiles`, `ToolRounds` |
| Sub-agents | `pkg/tools/subagent.go` | task table | the lock is held during a blocking publish | every task ends and announces | `Subagents` |
| Missions, updates, master's messages | `pkg/agent/mission.go`, `update_state.go`, `pkg/channels/siam` | mission states at the master, update state | unordered reports, destructive reads, restarts | a mission ends with its final status | `Missions` |
| Cron service | `pkg/cron` | job list in memory and on disk, running flag | execution outside the lock, crash after NextRun was cleared, two processes on one file | a job runs at most once per due time, recurring jobs go on | `CronService` |
| Heartbeat, last-active state, devices | `pkg/heartbeat`, `pkg/state`, `pkg/devices` | stop channel; the last channel, in a file and three memories | three managers on one file, each loads once | notices reach the last active channel | `Notices` |
| Media store | `pkg/media` | refs, scopes, files | removal of files after the maps were changed; a path under two refs | a ref that resolves names a file that exists | `MediaStore` |
| MCP manager | `pkg/mcp` | server table, closed flag, wait group | a call between the closed check and the wait group | no call uses a closed session | `McpManager` |
| Inbound handlers | `pkg/channels/*` | processed ids, files, indicators | stages in a different order in each channel, redelivery | only what is wanted is published, once | `Inbound` |
| Sending | `pkg/channels/*` | none | whole-message retries, calls that outlive their attempt | "delivered" was shown, in order | `Sending` |
| OneBot connection | `pkg/channels/onebot` | the connection, pending requests | dial, store and listener are separate steps; Stop meanwhile | one served connection, none left by Stop | `OneBot` |
| Pico and MaixCam sockets | `pkg/channels/pico`, `maixcam` | connection tables, a counter | handshakes beside Stop | the counter is exact, what is open is closed | `Sockets` |
| WeCom AI bot streams | `pkg/channels/wecom/aibot.go` | stream tasks per chat | a closed stream against a late answer, cleanup | answers go to the oldest open question | `AIBot` |
| Auth store, OAuth | `pkg/auth` and its users | `auth.json`, `config.json` | unlocked read-modify-write by several processes, one-use refresh tokens | logins, logouts and refreshed tokens stay | `Credentials` |
| siam-arm: commands, brain, soul | `../siam-arm/main.go` | the brain, its mutex, soul files | a mutex given back by another goroutine | one brain with its soul; an answer to each command | `SiamArm` |
| siam-arm: voice | `main.go`, `piper_tts.go`, `wakeword.go` | `isSpeaking`, one wav file | one flag for overlapping speakers | a recording holds no speech of its own | `Voice` |
| siam-arm: voice prints | `main.go` | copies of the master's prints, freshness | a sync beside an enrolment | a fresh copy is the master's | `VoicePrints` |
| siam-arm: proactive agent | `proactive.go` | triggers, their last firing, a file | objects replaced under goroutines | a trigger fires once per due time | `Proactive` |
| siam-arm: control brain | `control_brain.go`, `vision.go` | an Ollama server | start decided before the lock | one server, every job ends | `ControlBrain` |

Not modelled, with the reason:

* **Search cache** (`pkg/skills/search_cache.go`), **rate limiter** (`pkg/utils/rate_limit.go`), **health server**
  (`pkg/health`): each is a table or a bucket behind one mutex that every call holds from beginning to end, so no
  interleaving exists; unit tests reach expiry, eviction and refill.
* **Context builder** (`pkg/agent/context.go`): prompt text out of files; the cache is rebuilt from modification times
  under one mutex.
* **Usage ledger** (`pkg/agent/usage_ledger.go`): counters behind one mutex. The budget is tested before a round and
  charged after it, so rounds in parallel may overspend.
* **Routing** (`pkg/routing`): a stateless precedence table.
* **Configuration, migration, skill loading and installing, logger, identity, crypto, provider HTTP clients, voice
  transcription, setup web UI, installers**: conversions and I/O. `config.json` as the auth commands rewrite it is part
  of `Credentials`; the classes of a provider's errors are part of `Fallback`.
* **Left out of components that are modelled**: slash commands, tool registration and the wiring of the loop; HTTP
  servers and the platforms' client libraries (an operation of theirs succeeds, fails for good, or fails for now);
  siam-arm's parsing, vitals and file transfers; the launcher's process control and log buffer. `PROJECT.json` says for
  each component what "partly" leaves out.

### How the parts meet

    platform -> Channel.HandleMessage -> bus.inbound -> AgentLoop.Run -> sessions, LLM, tools -> bus.outbound
             -> Manager.dispatchOutbound -> worker queue -> runWorker -> preSend/Send -> platform

* Channels call `HandleMessage`, which records the typing, reaction and placeholder indicators with the
  manager *before* it publishes; the manager's `preSend` takes them down when an answer for the chat is sent.
* The agent loop is one consumer of `bus.inbound`; cron and heartbeat call it directly from their goroutines,
  so two rounds may run at the same time.
* Sub-agents and missions answer by publishing *inbound* messages of the channels `system` and `mission`.
* The gateway stops in this order: provider, cancel of the root context, `bus.Close`, `Manager.StopAll`,
  devices, heartbeat, cron, media store, agent loop.
* The master reaches a node twice: siam-arm by a command stream, the brain's ottoclaw by polling.

## 2. Modules, and the code they stand for

One action is one atomic operation of one goroutine: an operation on a Go channel or an atomic, a section under a
mutex, a write to a file, a call to a platform. What the code does between two of them cannot be seen by anybody
else and belongs to the first. Message texts, ids and errors are left out unless a property tells them apart; Go
contexts are a Boolean; times are countdowns or an "it may fire now". Variables marked *history* are not in the code:
they remember what a property speaks of. Definitions whose comment begins with *Fault* are not part of any
specification: each is a small mistake one could make in the code, with which a property of the run must fail.

| module | state ↔ code | actions ↔ code |
|---|---|---|
| `MessageBus` | `buf` the three Go channels, `closed` the atomic, `done` the channel, `pubPC`/`conPC`/`closerPC` where each goroutine stands | `LoadClosed`, `CheckCtx`, `Send`, `GiveUp` are `Publish*`; `EnterReceive`, `Receive`, `StopReceiving` are `ConsumeInbound` and `SubscribeOutbound*`; `CompareAndSwap`, `CloseDone`, `DrainOne`, `DrainNext` are `Close` |
| `Mailboxes` | abstract: mailboxes that admit, accept, hand over, and discard once shut | implemented by `MessageBus` |
| `ChannelManager` | `registered`, `workers`, `lock` the two maps and `mu`; `queue`, `qclosed` the worker queues; `disp`, `wk`, `admin`, `api` the goroutines | `Subscribe`…`Enqueue` are `dispatchLoop`; `Pick`…`Backoff` are `runWorker`, `sendWithRetry` and their media twins; then `UnregisterChannel`, `StopAll`, `SendToChannel` |
| `Indicators` | `typing`, `holder` the sync.Maps at one key; `active` what runs on the platform | `HandleMessage`, `Record*`, `preSend`, `runTTLJanitor`, one action per map operation |
| `Splitting` | `spRunes`, `spStart`, `spChunks` the locals of `SplitMessage`; a rune is its kind | one action for each way a turn of the loop ends |
| `JSONLStore` | `file` what readers see, `disk` what a power loss keeps, `skip` the metadata | `addMsg`, `SetSummary`, `TruncateHistory`, `SetHistory`, `Compact`, one action per file operation, each of which may fail, and `Crash` |
| `Store` | abstract: a history changed by atomic calls | implemented by `JSONLStore` |
| `Sessions` | one key of the sessions map, its file, the snapshots of Saves under way | the manager's methods; `Save` is snapshot and rename |
| `Conversation` | where each round and the summarizer stand, over `Sessions` | `runLLMIteration`, `forceCompression`, `summarizeSession`, the batch dropped after it, a restart |
| `AgentRounds` | `agProcessed`, `agBusy`, `agSent` are `processedMessages`, `busySessions`, `sentInRound` | `StartChat`…`RelayOversight` are `processMessage`; `TakeLock`, `EvictLock`, `RefuseConcurrent`, `Unlock` the session lock; `TellUser` the message tool; `Respond` the end of `Run`'s turn |
| `Fallback` | `fbEntry` the cooldown entries with the ages of their last failures | `Execute`, one candidate at a time: available, call, mark; `Lapse` is time |
| `ToolProfiles` | the steps each tool takes outside the agent and what it makes of one that fails | – |
| `ToolRounds` | where each call's goroutine is, tickets, audit records, what the steps changed | approval, polling, role check, registry, a tool's steps, `SaveResult` in the order asked |
| `Subagents` | `sgTasks` the task table, `sgLock` its mutex, `sgQueue` the inbound queue | `Spawn`, `runTask` up to its announcement under the lock, the loop that takes it |
| `Missions` | the master's statuses, the poller, reports on their way, the mailbox, the update state | poll, inject, round, checkpoints, results, heartbeats, fetch, `SYSTEM_HOT_RELOAD`, crash |
| `CronService` | `store` memory, `file` disk, `due` the list a tick collected, `running` the handler, `draft` the tool's copy, `cli` another process's copy | `Start`, `Stop`, `CheckJobs`, `Begin`/`End`, `AddJob`, `UpdateJob`, `RemoveJob`, `EnableJob`, `CliLoad`/`CliSave`, `Crash`, `Tick` |
| `Notices` | `ntFile` the state file, `ntMem` its three managers, `ntBeat` first timer and ticker | rounds with their save, beats, device events, shutdown, restart |
| `MediaStore` | `mdRefs`, `mdScopeToRefs`, `mdRefToScope`, `mdFiles`; `mdCall` what a goroutine does after the unlock | `Store`, `Resolve`, `ReleaseAll`, `CleanExpired`, one file removal at a time |
| `McpManager` | `closed` the atomic, `wg` the wait group, `servers` the map, `open` the sessions | `Connect`, `CallTool` in five steps, `Close` in five |
| `Inbound` | the stage each delivery of one message has reached, and what it left behind | the stages of sixteen handlers in their own order, `HandleMessage`, publish |
| `Sending` | the calls left of an attempt, files left, what the user has seen | `Send`/`SendMedia` of every channel under `sendWithRetry` |
| `OneBot` | the connection, listeners, dialers, pending echoes | dial, store, listen, request, response, `Stop` |
| `Sockets` | the table, the counter, stages of each connection, `Stop` | handshake, register, read loop, removal, `Stop` in its steps |
| `AIBot` | `streamTasks`, `chatTasks`, a task's fields, handlers, the Send worker | webhook polls, `Send`, `cleanupOldTasks`, deadline |
| `Credentials` | both files, the copies each job read, valid refresh tokens | logins, logouts, refreshes, `models`, one action per read or write of a file |
| `SiamArm`, `Voice`, `VoicePrints`, `Proactive`, `ControlBrain` | the globals of siam-arm each is about | one action per command step, lock section, file or process operation |
| `*Proofs` | – | theorems: `MessageBusProofs`, `ToolsProofs` (`McpManager`, `ToolRounds`), `MachineProofs` (`CronService`, `Credentials`), `ChannelManagerProofs`, `AgentProofs` (`AgentRounds`, `Subagents`, `Missions`), `GatewayProofs` (`MediaStore`, `Notices`, `JSONLStore`), `ChannelsProofs` (`Sockets`, `Indicators`, `AIBot`, `Inbound`), `NodeProofs` (`VoicePrints`, `Proactive`, `SiamArm`, `Voice`) |
| `MC*` | – | instances for TLC |

Remarks on how the code is used. `NewJSONLStore` has no caller but tests: the running program keeps its sessions in
`pkg/session`, and the store is modelled as the package that is to replace it. `RegisterChannel`, `UnregisterChannel`
and `SendToChannel` have no caller but tests either; they are part of the manager's interface and are modelled with one
administrator. `CronService.Start` and `Stop` happen once in a process. The sub-agents' tool registry is always empty,
since `SetTools` and `RegisterTool` have no caller. Of the media store only the cleaner removes anything: the loop's
`ReleaseAll` is commented out.

## 3. Runs

Several components that have nothing to do with one another share a run. In the MC modules `MCServices`, `MCChannels`,
`MCStores`, `MCNode`, `MCGateway` and `MCCronService` the variable `part` names the component that a behaviour drives;
the others stay as they began. Such a run explores the union, not the product, of its components.

| run | shows |
|---|---|
| `bus_safety` | what a drained topic still holds was being published when Close began (`StrandedWerePublishing`); the bus implements `Mailboxes` |
| `bus_stranded` | *violation*: an accepted message that is neither consumed nor counted by the drain |
| `manager_liveness` | stop and unregister return; a failing platform does not hold up the dispatcher for good |
| `manager_stop_panics` | *violation*: StopAll closes a queue under a dispatcher that holds the worker |
| `mcp_race` | *violation*: a call that reaches the wait group after `Wait` |
| `heartbeat_stale` | *violation*: a heartbeat goes to the chat that was active when the process began |
| `services` | MCP calls are cut by that one race only and return; locked rounds of one conversation keep apart and `Run` keeps up; one control brain, whose jobs end; `Close` of the bus comes back; sub-agents end, announce once, and neither they nor a spawning round hang |
| `channels` | only overlapping updates lose an indicator, and the janitor ends the rest; the AI bot's tables agree and its worker returns; connections are counted and closed; OneBot serves one connection and drops a dead one; splitting keeps the text and gets shorter |
| `stores` | bounded loss, order and a valid offset in the JSONL store, and the abstract `Store` up to the first failure; what a conversation forgets, its tool calls and its file; failover and cooldowns; inbound handlers; deliveries and retries |
| `node` | one brain with its soul and an answer to each command; the voice flag; triggers; voice prints; tools and their records; missions, updates and messages |
| `gateway` | order per source and lane, draining on unregister, nothing in flight after a stop; media references and files; notices |
| `cron` | a one-time job runs at most once, a recurring one again and again, removals hold; credentials of several processes |

### Bounds, and why they are enough

* *Bus.* 2 publishers, 1 consumer, 2 closers, capacity 2 (`bus_safety`); 2 publishers, 1 closer, capacity 1 and nobody
  who consumes (`services`). The faults lie between one publisher's two steps and Close; a second publisher fills the
  buffer the first one waits for, a second closer loses the compare-and-swap. Three topics are kept, because Close
  drains them in order.
* *Manager.* One channel, 1 direct sender, a queue of one, one retry, two chunks, 2 text and 1 media messages; for
  liveness and the panic no direct sender, and "cli" stands for the destinations that are skipped. A queue of one is
  full after one message; one retry gives both a retry and an exhausted one; two chunks have an inside and an end.
  Channels share nothing but dispatcher, lock and context.
* *Indicators.* 2 messages, 2 answers: an overlap needs two messages, a placeholder edited twice two answers. Chats are
  independent keys.
* *Splitting.* `maxLen` 40 with windows 15 and 8, a reserve of 5 and 2 inside a block, the constants 2000, 200, 100, 500
  and the like scaled down; answers of up to 5 pieces of text, words, fences, newlines and blanks.
* *JSONL store.* 2 writers of one session, 4 messages, 2 power losses (one during the recovery from the other), 1 failing
  operation; truncation to 0, 1 or 2 leaves hidden, visible and dropped lines at once.
* *Conversation.* 2 rounds of 1 iteration, 1 retry, summaries from 4 messages on with a tail of 3, 1 mishap.
* *Rounds.* Six kinds of message, each delivered at most twice, 1 cron round, 1 expiry of the lock.
* *Fallback.* 4 candidates over 2 providers (one model twice), 2 requests, 3 classes of error, lapses of 1 and of 1500
  minutes: within the window and beyond a day.
* *Inbound.* 16 handlers, 2 deliveries of one message, all group rules. *Sending.* 3 parts, 3 retries.
* *OneBot, Sockets, AI bot.* 2 connections and 2 requests; 2 connections with a limit of 1; 1 chat, 1 poller, 2 tasks.
* *Sub-agents.* 2 tasks, 2 messages of users, a queue of one that one announcement fills.
* *Tools.* Every tool alone and every pair of the five that share something, each with every outcome of each step.
* *Missions.* 1 mission with 1 checkpoint, 2 messages one of which reloads, 1 failure, 1 crash, 1 heartbeat.
* *siam-arm.* 8 commands of which 3 are taken, 1 restart; 2 speakers, 1 listener, 1 listen loop, 2 wakes; 2 triggers, 2
  commands, 1 restart within 3 ticks; 2 enrolments, 2 syncs, 1 capture; 4 brain jobs, 1 death of the server.
* *Media.* 2 clients, 2 paths, 2 scopes, 2 references: two references of one path, in one scope or in two.
* *Notices.* 2 channels, 2 rounds, 2 beats, 1 restart, 1 failed save.
* *Cron.* A one-time and a recurring job, each waiting for the other in the due list; 1 crash, 1 failing save, 1 foreign
  write, at any step and in any order; a period of one tick. *Credentials.* Every pair of jobs that meet in a provider.
* *MCP.* 3 callers (two in flight at once besides one that enters late), 2 servers, so Close stands between them.

Where section 5 proves a property, the bound matters only to its liveness and to the runs that must fail.

`CHECK_DEADLOCK FALSE` is set where the instance may come to rest: all published, everything closed.

### Fairness

Only goroutines that have begun something are obliged to go on. Weak fairness of such a goroutine is what Go's
preemptive scheduler gives; a call to a platform, a model, a handler or a server returns because its client or context
has a timeout; timers fire. Nobody is obliged to publish, to answer, to close, to cancel, to stop, to write or to call
the tool. `Indicators` assumes that time passes the TTL, `CronService` and `AIBot` that time passes, `OneBot` that a
dial repeated long enough succeeds, `ControlBrain` that a mutex that is free is granted to whoever waits. `RunsForever`
is about jobs nobody re-enables over and over, since enabling starts the period anew. The sum runs ask for each
component's fairness only in the behaviours that drive it.

## 4. What the violations say

The four runs that end with a violation each check a statement the repository makes of itself; `PROJECT.json`
quotes it with its line under `findings`. Further behaviours were seen while modelling and have no run of their own;
where a property has to allow one, its comment says so.

*Bus, manager, splitting.*
* `StopAll` cancels the context before it closes the queues; a worker that takes the cancelled context leaves what its
  queue holds (manager.go:409, against the comment at manager.go:413 and `pkg/channels/README.md:1049`).
* Two overlapping `RecordTypingStop` of one chat, or one and the janitor, leave a typing indicator that nobody can
  stop (manager.go:110, :740). `OrphanOnlyByOverlap` states that this is the only way.
* `SplitMessage` loops for ever, and its memory grows, where the first line of a code block about fills a chunk: the
  header is put in front of what is left each time (split.go:116). `LeavesLess` excludes exactly that case.

*Agent.*
* Commands, skipped duplicates and system replies are handled before `ResetSentInRound`: a stale flag suppresses them.
  The answer of a cron round is not published. A round that evicted an expired lock loses its own lock to the deferred
  delete of the round it evicted.
* Ids are compared bare, so those of two platforms, or of a mission and a chat, may collide.
* `summarizeSession`: with more than ten messages the previous summary is dropped, a refusal for want of budget becomes
  the summary, and messages added while the model thinks can be truncated. Retries of a rate limit after 15 and 30
  seconds meet a cooldown of 60.
* The loop's audit record of a failed call says "success", for `ErrorResult` leaves `Err` unset; the registry's says
  "failed". The default list of risky tools names one registered tool only. Parallel edits of one file lose one
  (edit.go:135). An approval answered without an id counts as given (audit.go:158). `update_and_deploy` deploys after a
  refused PUT; a forced `install_skill` removes the old skill before a download that may fail.
* An announcement is lost if the inbound queue stays full for five seconds, with the task table locked meanwhile; it
  says "completed" of failed and cancelled tasks too.
* Nudges before `signal.Notify` are lost; a checkpoint may overtake the result; reports are never repeated;
  `SYSTEM_HOT_RELOAD` exits with the rest of the fetched batch (siam_sync.go:247).

*Stores.*
* In the JSONL store a torn last line swallows the next acknowledged message (jsonl.go:238), two session keys that
  sanitise to one file name but hash to two shards can lose a message (jsonl.go:76, :90), and `TruncateHistory` counts
  unreadable lines as messages. `LossBounded` bounds the first.
* A one-time cron job whose instant passes while the gateway is down stays enabled and never runs (service.go:94 clears
  its next run); a job disabled while it waits in the list of due jobs still runs once; `AddJob` may report an error for
  a job that stays and runs; a job added by the command line goes with the gateway's next save.
* `auth.json` and `config.json` are read and rewritten whole, without a lock, by the command line, the launcher and the
  gateway. Of two refreshes of a one-use token the second is refused; a failed save after a refresh locks out until
  the next login. Logout "antigravity" leaves the credential and reports success.
* A file of the media store is removed after the unlock: a path just resolved may be gone when it is opened. A path
  under two references goes with the first.
* On a fresh workspace heartbeats go to `cli:direct` and device events nowhere, as long as the process lives; every
  round nobody asked for records its own channel as the last one; the example of `README.md:834` lacks the line the
  parser of HEARTBEAT.md looks for.

*Channels.*
* Pico's limit can be passed by overlapping handshakes; a handshake past the running check survives `Stop`. MaixCam's
  acceptor ends with its first error. A OneBot dial that overlaps `Stop` leaves its connection open.
* An AI bot answer can stay for ever in the channel of a closed task; later parts of an answer are lost.
* A message retried as a whole repeats the parts that were delivered; Discord may deliver after "failed"; media files
  that cannot be resolved are skipped; a failed upload of WeCom app is swallowed. Inbound, the mark against duplicates
  precedes the publish.

*siam-arm.*
* `brainMutex` is held by the goroutine that waits for the brain, so the command loop blocks on it for as long as the
  brain lives; a soul sync without a soul unlocks an unlocked mutex. Unknown commands and invalid payloads are never
  answered.
* `isSpeaking` is one flag for overlapping speakers; the wav's "unique" number is the process id. An unreadable voice
  message is never reported.
* `LastFiredAt` is saved only when a trigger is added or removed. `ollamaReady` is set once and never cleared.

## 5. Proofs

The theorems hold for every value of the constants under the assumptions the modules declare: a capacity of at least
one; finite sets of callers, servers and connections; `AtJobs` a part of `Jobs`, a period of at least one, natural
bounds; destinations that are channels or internal, not both; types of triggers that are the three of the code; names
that are not the model's own markers ("bus" is no sender, "none" no message); finite sets of missions and of the
master's messages; rounds made of tools that have a profile; jobs on the credentials with identifiers of their own; commands of siam-arm whose kinds are those its switch knows or one it does not; channels among those of `pkg/channels`; speakers, listeners
and recording loops with identities of their own. They are about the specifications without
fairness. The refinement and the invariants are those the runs check; `PROJECT.json` lists the theorems.

*`MessageBusProofs`.* `TypeCorrect` is inductive by itself. `StrandedBounded` (what a drained topic still holds was
being published when Close began) is not: whether a late `Send` is allowed depends on who was admitted. The invariant
adds `AdmissionsEnd` – once `closed` is set, whoever is inside a call was inside one at that moment – and
`WinnerHasClosed` – a Close beyond its compare-and-swap has set `closed`. Lemmas about `Append` and `Tail` carry the
buffers. `BusRefinesMailboxes` maps each step to a step of `Mailboxes` or a stutter, using the same facts: `DrainOne`
may only be a `Discard` because `closed` is set.

*`ToolsProofs`.* For `McpManager`, `TypeCorrect` includes `wg = Cardinality(Counted)`, so the library's facts on adding and
removing an element of a finite set carry `Count` and `Return`. `OnlyTheRaceCuts` needs that a counted call has its
session open until `Wait` passes (`CountedHasSession`), that `Wait` passes only with nobody counted (`WaitEmpty`), and
that the map and the open sessions agree until Close takes them down (`MapIsOpen`). `ClosedForGood` needs `MapIsOpen`
and that a caller arriving after Close never leaves its first check (`LateStaysOut`). For `ToolRounds`,
`ToolsActAsTheyMay` holds of any rounds made of the tools of `ToolProfiles`, of any length, and of any choice of risky and
restricted tools. `PlanShapes` reads off the profiles of all tools what the rest of the proof needs of them: only
`siam_send_message` claims and raises the flag, a file is read before it is written, a soul is updated before it is
deployed. The invariant `TrInv` then ties each call to a plan of its tool – what it has taken and what it has left make up the
plan, and it says "ok" only if every step was done or its failure excused (`CallsOnPlan`) – and to the user's notice
and the ticket (`AllowedToRun`). Across calls it says that of two that claimed the one bubble of a round one was running
when the other did (`FlagCovers`), and that what a file holds or a call has read was written (`EditsKnown`). A soul that was
updated is there to be deployed (`SoulKept`), and the records of a call appear with its result (`OnRecord`).

*`MachineProofs`.* For `CronService`, all safety properties of the run, from one invariant `IInv`. The centre is `AfterFirstRun`: a
one-time job that has run is past its instant, is not on the list of due jobs, and is still running, or gone, or has
neither a next run nor a copy in the tool that could bring one back. It is kept because every next run is the job's
own instant (`NextIsInstant`), so `computeNextRun` returns none when the instant is past; because what is due was past
(`DueIsPast`); because a copy between `AddJob` and `UpdateJob` dies with the process (`DraftsEnabled`); and because an
identifier not yet used is nowhere (`FreshIsNowhere`). `LateNotDue` gives `DisabledRunsOnce`. One lemma per group of
conjuncts, in each one step per action.
`CredentialsStay` holds of any number of jobs and processes. What a job reported lives on in the file only as long as no
job holds an older copy of it, so the invariant `AuInv` speaks of the copies: what a login stored is in the file and in
every copy of the store, and every credential about to be written, that could replace it (`LoginsKept`), what a logout
removed is in none (`LogoutsKept`), and a job nobody has met holds what the file holds (`OwnKept`). That only jobs that
met can hold an older copy is `Meetings`: whoever is active with, or began after the end of, another is on record as such.
While nothing failed and no jobs have met, a refresh token is in one place – the file, or the hands of the one job that
is to store its successor (`TokensKept`) – and the two files differ only by what that job has yet to write
(`MethodsKept`). `DevicesKept` follows the launcher's one session. The thirteen actions of a job have so much in common that the proof goes
in two stages: each action satisfies one relation, `Stepped`, between the job's old and new state and the files, and that
relation keeps the invariant, one lemma per conjunct.

*`ChannelManagerProofs`.* `TInv` adds to the types what a goroutine holds where it stands: a message on its way to a
queue is to a channel of the manager, a worker at a chunk is at one its message has (`Places`). `NothingLeftBehind` and
`QuietAfterStop` share one invariant: a worker has gone only cancelled, or with its queue closed and empty
(`LeftEmpty`), and each stage of `UnregisterChannel` and `StopAll` has waited for the workers before it (`Waited`).
`DeliveriesInOrder` is the hardest: order is lost not in one place but between them, so the invariant `OInv` speaks of
everything that may still reach a worker. Its queue rises and nothing in it is older than what it sends or has
delivered (`WorkersOrdered`); whatever is *coming* – on the bus, in a dispatcher's hands, in a direct sender's, or not
yet issued – is newer than all that (`WorkersBehind`); the bus rises and holds nothing older than what its dispatcher
carries (`LanesOrdered`); a direct sender carries the last message it issued (`CallsOrdered`). Every step hands one
message on, and one lemma for each way a queue changes keeps both.

*`AgentProofs`.* `RoundsKeepApart` needs that a round is locked only between taking and giving back the lock and that,
while no lock has expired, table and rounds agree (`LockInRound`); that of an id the rounds begun and the one owed are
no more than one, if it is on record as processed, and the expiries (`RoundsCounted`); and that the message tool's flag
says what the tool has told while nobody has crossed the round (`FlagIsOwn`). `AnsweredOnce` leaves out the ids that
are also a mission's: a mission is handled before the table of processed ids is consulted, so such an id may have a
round of its own besides. The proof attempt showed that; TLC's instance had no such id. `AnnouncedOnce` holds of each
task for itself (`TaskInv`): by its stage its announcement is not made, once in the queue, heard, or given up for a
reason; the lock names the one task that announces. Lemmas on `Append` and `Tail` carry the queue.
`MissionsAreKept` has one invariant for each of the three parts of a worker. A mission whose marks all succeeded is
handed out once, so it is published once and has one round (`MarkedOnce`); one that is not final is carried by something
– a batch, the queue, a round, a report on its way – or the history says what left it behind (`Watched`); a checkpoint
on its way has a result behind it (`CheckpointsEnd`). The last failed update stays in the update state, and in what a
heartbeat is about to send, until it is told (`UpdateInv`). Of the master's messages what was handled and what is
fetched make up the queue to a point, and whatever is past that point was cut by a reload, a failed request or a crash
(`MailInv`).

*`GatewayProofs`.* `FilesFollowReferences`: a reference keeps the path it was issued for (`RefsIssued`); a path whose file
is gone, or about to go, has lost a reference (`PathsSpent`, `CallsKnow`), which is final, for references are never
issued again and downloads never reuse a name; the maps agree, and a file without reference is in some goroutine's
hands or its removal failed. `NoticesGoWhereTheFileSaid`: if the file was right when the process began,
the managers that have loaded it hold what it said, the file keeps saying so until the last has, and every beat under
way goes to whom it named (`LoadedAsOfStart`).
`LinesAreKept` assumes that all users of a session come to it by one lock (`OneLock`), as run `stores` does
(`OneShard`): with two keys of one file on two locks a message can be lost, see the remark in section 4. Then one call is under way at a time, and what it carries is a piece of the file
(`CallsPlaced`). The disk holds a beginning of the file, except that a line torn by a power loss may have been written
on, and no acknowledged message stands in the part that may go (`DiskBegins`); the lines in that part are those of
failed calls, one each, and of the call under way (`Unsynced`). Why a loss costs one message and not more is
`LossAccounted`: the bound must hold of the file as it is *and* of the file a power loss would leave, of both as they
would read once the offset that reaches beyond the end has hidden what comes next, and it counts a message from the
writing of its line, not from its acknowledgement. So each tear or fault pays in advance, and a crash only moves
the account from the file to the disk. `WroteIs`, `CutIs` and `ReplacementsAre` say what the operators on files leave where, `HistoryIs`
that counting out the lines of a file keeps their order.

*`ChannelsProofs`.* `ConnectionsCounted`: Pico's counter is the cardinality of the connections between their two atomic
updates, and all that are inside exceed the limit by no more than the crowd that was between check and count together
(`CountBound`); the library's facts on finite sets carry both. For what `Stop` leaves open the invariant says at each
of its stages which open connections are in the table, seen, or late (`StopKnows`). `IndicatorsKept`: whoever stands between the two
map operations of an update finds the key empty, or in it a stop whose storing was noted as an overlap
(`OverlapsNoted`); a placeholder is in the table, in the worker's hands or edited, only one of them, and none before it
is recorded (`PlaceholderOnce`). `AnswersComeInTurn` (`AIBot`): tasks are numbered as they are asked, every queue rises
and holds unfinished tasks of its chat, and an open stream is exactly a queued task that is not closed (`QueuesKept`). So
the head that `Send` takes is older than all that wait, and an answer, from then on paired with that task – in `Send`'s
hands, in the task's channel, before the user – never overtakes one that waits (`TurnsKept`): later steps only shorten
queues or add newer questions. A task whose URL was used is finished or about to be by the one worker (`PostsKept`). A
task that a poll is ending has nothing pending but by a recorded overlap, and one without a stream nothing but by an
overlap or its cancellation (`StrandKept`). What is left of a queue without some of its tasks (`Without`) rises as it
did: `RanksAre` and `WithoutIs` prove it from the cardinalities of finite sets of numbers, without induction.
`MessagesComeInAsTheyShould` (`Inbound`) is about any number of deliveries of one message to any of the channels. `Shaped`
says what the seventeen orders of stages have in common: `handle` comes last and once, a download behind a test of the
sender (but LINE's), at most one mark against duplicates, and it where the channel has one, and every group answer
behind a trigger. A delivery stands at a stage of a handler and has passed all before it (`DeliveriesPlaced`), so what
is published passed them all. Of those past the mark against duplicates there is one, still on its way if the message
is wanted (`OnePast`): the second is dropped only where the first has it in hand. A copy goes to another agent at one stage
of one handler, so there are no more copies than deliveries past that stage, a finite set that grows with each
(`ToldOnce`).

*`NodeProofs`.* `FreshPrintsAreTheMasters`: one sync is under way at a time, on a copy that is stale, and what
it has fetched and then written is the master's print unless something changed (`OneSync`); an enrolment that may still
change that print has been noted as a change (`EnrolmentsNoted`). A command is told with its last step (`ToldAtTheEnd`).
`TriggersFireOnce`: of an id that nothing excuses only the first object was ever in use, its last
firing is the one on record, and at most one goroutine of it is under way, spawned on an occasion (`Orderly`); an
occasion stays one as the clock goes on (`AgainLater`). The goroutines of an object are no more than the evaluations
and commands so far (`SpawnsCounted`), which bounds the type invariant. Only between a change and its save do file and
registry differ. `OneBrainPerNode` (`SiamArm`): a command is in one place at a time – with the master, in the loop, a
job, a starter – and is answered when it leaves the last (`OnePlaceEach`); the mutex is held for exactly the one starter
past its beginning (`LockIsAhead`), which gives one brain; what is being started bears the soul on disk already, unless
the loop stands between writing that soul and asking for the restart (`BearsSoul`). `VoiceIsCovered` (`Voice`): until two
overlap, one speaker at most stands between the two writes of the flag and has it up (`OneSpeaker`); the wav belongs to
whoever plays it (`WavIsPlayed`); what a recording has heard had begun, so it cannot begin to sound while the recording
is transcribed (`HeardHasBegun`); whenever the wake word is marked inactive, the latest loop is cancelled, unless a late
exit of an older one marked it (`WakeCancelled`).

The proofs changed the model in these places. Overlapping arms of a `CASE` in `Respond`, `UseOf` and `Classify`, of
which TLC takes the first and the semantics any one, became disjoint conditions in the order of the code. The AI bot's
queue without some of its tasks (`Without`) is counted out instead of recursive. The history a `JSONLStore` reads is
counted out the same way. In `Credentials`, `Later` compares
positions instead of a `CHOOSE` with two candidates, and the table of tokens grows instead of ending at nine.
`OneDeviceLogin` said that any two device logins polled for at a time had asked for their codes together. Three logins
refute that, as TLC confirms with a plan of three: two that asked together leave one whose session the other took, and
when that other has ended a third may start beside the one that is still polled for. It now says that one of the two had
lost its session to a login it had asked together with.

Only model-checked: every liveness property (fairness and `ENABLED` are out of the prover's reach); what the recursive
and counting definitions of `Splitting` and `Sending` compute for every input; the refinement
`ImplementsStore` and the invariant `ConversationSafe`.

## 6. What is left

Worth proving next: `ConversationSafe`, and `ImplementsStore` from the invariant of `LinesAreKept`. Worth modelling: `AtomicFile` with
each crash point of `WriteFileAtomic`; the shutdown of the gateway as a composition of `MessageBus` and
`ChannelManager`; the launcher's process control.

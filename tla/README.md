# Verification of the SupCom LLM bot

TLA+ models of the bot's control: the bridge between the game (Lua), the DLL in
the game's process (C++) and the Python server, the server's decision loop, and
the Lua threads that report to it and carry out its decisions. TLC checks the
models on small instances; TLAPS proves what is safe about every component that is
modelled, for every value of the constants. Paths are relative to `src/`. `PROJECT.json` maps every definition to the lines that it stands for.

## 1. Inventory

### The system

```
 Lua (game's simulation)           DLL in the game            Python server (one asyncio loop)
 strategy thread  --SendSnapshot-> g_send_q -> pipe thread ==pipe==> reader task -> snapshot_queue(4)
 event thread     /                                |                                     |
 chat thread (fills PendingChat)                   |                              _decision_loop -> router -> LLM client
 strategy thread  <-PollCommand--- g_recv_q <- pipe thread <==pipe== writer task <- command_queue(4)
   | Apply, SendChat                               
 executor, user interface
```

| component | state | operations | interacts with |
|---|---|---|---|
| One-slot queues (`bridge/src/pipe_client.cpp:22-47`) | `buf`, `len`, `ready` | `osq_push`, `osq_pop` | a Lua thread and the pipe thread, through shared memory |
| Pipe thread (`pipe_client.cpp:49-140`) | handle, `g_status` | connect, flush, peek and read, reconnect | the queues, the pipe |
| Pipe server (`server/pipe_server.py`) | pipe handle, `_connected`, two tasks per session, two bounded queues | accept, read, write, end of a session, next session | the pipe, the decision loop |
| Decision loop (`server/bridge_server.py:190-282`) | `chat_history`, the envelope in work | snapshot, save, load | both queues, router, client, builder, fallback |
| LLM client (`server/llm_client.py`) | `_consecutive_deep_timeouts`, `_deep_degraded` | `query` with its retry | Ollama, over HTTP |
| LLM router (`server/llm_router.py`) | none | `route` | decision loop |
| Save state (`server/save_state.py`) | files | `save`, `load` | decision loop |
| Command builder, fallback (`server/command_builder.py`, `fallback_strategy.py`) | none | `build`, `get_command` | decision loop |
| Brain threads (`mod/lua/AI/LLMAIBrain.lua`) | `PendingChat`, cadence, baselines, cooldowns | strategy, event and chat thread, `SendChat` | `LLMBridge.lua`, executor, UI |
| Chat handler, UI hook (`ChatHandler.lua`, `mod/hook/.../gamemain.lua`) | message buffer; last id shown | callback, drain; `OnSync` | brain threads, `Sync` table |
| Strategy executor (`StrategyExecutor.lua`, `BuildOrderUEF.lua`) | strategy, build and expansion index | `Apply`, `TickBuild` | the engine's units |
| Decision logger (`server/decision_logger.py`) | a file | `log` | decision loop |
| Process watcher (`bridge_server.py:37-122`) | injected and pending process ids | `_watch_and_inject` | the injector |

The rest (economy manager, micro, ally mode, territory, game state collector,
JSON, injector, ring buffer, overlay, lobby hooks, installer, configuration) is in `PROJECT.json` "components", each with the reason why it is
not modelled.

### What is hard

- *Memory accesses of two threads* on a queue whose protection ends before the
  copy begins (`pipe_client.cpp:40-44`): a push in between makes two pops return the
  newer message and drops the older one.
- *Processes and connections that end anywhere*: between the two writes of one
  snapshot, between two messages, with a task waiting on a full queue. The
  server's `gather` does not cancel the other task, so tasks outlive sessions, and
  a woken task of an old session may find that a newer one was quicker.
- *One operation at a time on a synchronous handle*: a write waits for the read
  that is pending, and so for the game to say something.
- *Status that changes under its reader*: Lua asks `IsConnected`, then acts.
- *Slots and buffers that are overwritten or cut*: the newest message wins.
- *Failures of two models*, retries between them, and a count of failures that
  decides for good.
- *Answers of any shape*: cut by a stop token or a limit, with values of any
  type, on their way through a cleaner, a parser, a checker and a log that raise
  on some of them.
- *Process ids that are used again*, games that end while they are waited for.
- *Cooldowns and baselines of the event thread*, each with a clock of its own.
- *Changes of strategy at any point of a template.*

### What makes each component correct

| component | properties |
|---|---|
| one-slot queue | a message is claimed only when it is whole, once, and never forgotten; it is a mailbox whose copies only a newer message can damage |
| pipe thread, server, pipe | one open instance, no leaked handle, order in both directions (what overtakes or comes twice does so by an ended session or an overlapped pop only, and never a third time); errors lead to a new session; the loop is blocked by a silent game only |
| decision loop, client | commands in the order of snapshots; the history is what the game was told; the deep model is given up exactly after a row of failures, and for good |
| answers, builder, fallback | the fields that leave are valid, the shares within the rounding; what was valid is unchanged; a failed model never costs a command |
| process watcher | never before the delay; every game in the end |
| event thread | a loss or stall is reported once, from recent and unbroken observations; lasting stalls and phases do get reported |
| chat | in order, again only with a snapshot that is told over, lost only where the code throws it away, and delivered in the end; replies displayed in order |
| executor | the commander follows the template of the strategy in force and then the expansion loop, whatever fails |

## 2. The modules

| module | models | extends, instantiates |
|---|---|---|
| `Mailbox` | abstract specification of the queue: one slot, the latest message wins; carrying a message away takes time, and a newer one may damage it | |
| `OneSlotQueue` | `osq_push`, `osq_pop`, one memory access per action | `INSTANCE Mailbox` |
| `MCOneSlotQueue` | lengths for TLC | `OneSlotQueue` |
| `OneSlotQueueProofs` | theorems | `OneSlotQueue` |
| `NamedPipe` | the Windows pipe as the code uses it (external) | |
| `PipeServer` | `pipe_server.py`, one await to the next per action | `NamedPipe` |
| `PipeClient` | `PipeThread` and the game's process | `NamedPipe` |
| `Bridge` | Lua calls, DLL, pipe, server and decision loop composed | `PipeServer`, `PipeClient` |
| `BridgeProofs` | theorems | `Bridge` |
| `LLMRouter` | `route` | |
| `DecisionLoop` | `_decision_loop` and `LLMClient.query` | `LLMRouter` |
| `CommandBuilder` | `build`: every check, when it raises, and what a decision is (`IsDecision`) | |
| `FallbackStrategy` | `get_command`, `_minimal_fallback` | `CommandBuilder` |
| `LLMAnswer` | the text of an answer, the stop token (external), cleaning, parsing | `CommandBuilder` |
| `DecisionData` | the way of a snapshot's data through `_decision_loop` | `FallbackStrategy`, `LLMAnswer` |
| `MCDecisionData` | answers and snapshots for TLC | `DecisionData` |
| `DecisionDataProofs` | theorems about `build`, the rules, the texts of answers and the way of a decision | `DecisionData` |
| `Watcher` | `_watch_and_inject` | |
| `WatcherProofs` | theorems | `Watcher` |
| `MCDecisionLoop` | snapshots for TLC | `DecisionLoop` |
| `DecisionLoopProofs` | theorems | `DecisionLoop` |
| `EventTrigger` | `EventTriggerThread`: four detectors, one pass per action | |
| `EventTriggerProofs` | theorems | `EventTrigger` |
| `Brain` | the chat through Lua's threads, `LLMBridge.lua`, the slots and the UI | |
| `BrainProofs` | theorems | `Brain` |
| `StrategyExecutor`, `MCStrategyExecutor` | `Apply`, `TickBuild`; templates for TLC | |
| `StrategyExecutorProofs` | theorems | `StrategyExecutor` |

How state and actions correspond to the code:

- **OneSlotQueue.** `buf`, `len`, `ready` are the struct's fields. A cell holds
  the number of the push that wrote it. The stores of a push between its two
  interlocked writes of `ready` happen in any order (`memcpy` and the store of
  `len` are not ordered among themselves), so do the loads of a pop. `sent`,
  `claimed` and `last` are history.
- **NamedPipe, PipeServer, PipeClient, Bridge.** `pipe[s]` is the instance of
  session `s`; a snapshot is two parts in it, its length and its body, a command
  is one. `reader[s]` and `writer[s]` are the awaits of the tasks of session `s`,
  which go on when the session has ended. `putters` and `getters` are the tasks that
  wait in `asyncio.Queue`: every item that goes or comes wakes the first of them,
  which then only tries again (`"put"`, `"get"`) and may find that another one was
  quicker. `HandleFree` is the synchronous handle: a `WriteFile` waits until a
  pending `ReadFile` has something to return. `pt` is where `PipeThread` is. A pop
  takes two steps, in the pipe thread (`Claim`, `FlushLength`) and in Lua
  (`PollClaim`, `PollCopy`): it withdraws a message and copies what the buffer holds
  then. So that properties can tell copies apart, the first copy of message `k` is
  `2k` and a second one `2k + 1`. A torn copy may be no JSON or no UTF-8: `ReadBody`
  leaves open whether a snapshot decodes, `PollCopy` whether a command does after an
  overlap. `taken` is history: the last snapshot the loop took of every session.
  `Exit` may happen at any point of the game's life.
- **DecisionLoop.** `pc` is the await the loop is at. `Snapshots` has what the
  control looks at: the trigger and whether the chat counts as complex. A request
  to a model ends with a decision (`chat`, `silent`, or `malformed`, on which
  `build` or the log raises) or with a failure (`timeout`, `error`). `EmptyChat`
  is what the game's encoder makes of an empty table: `[]` with the game's dkjson,
  `{}` with the mod's own `JSON.lua`, and of that `_build_chat_block` cannot take a
  slice (`state_processor.py:188`; it gets there only when there is a history,
  line 181).
- **CommandBuilder, FallbackStrategy, LLMAnswer, DecisionData.** A decision is a
  record with the keys that the JSON object has; shares are in ten-thousandths (and
  rounded to thousandths, as `round(x, 3)` does), the threshold in hundredths, texts are
  their lengths; `Null`, `Other`, `Array`, `Huge` stand for values of the wrong type,
  `Large`, `Infinity` and `NotANumber` for the floats with which a total overflows. The text of an answer is a sequence of
  tokens (a brace, a key with its value, a block of thoughts, a broken token), so
  that the stop token, `num_predict` and the cleaning act on it as in the code.
  `loaded` is what `_try_import` found, `stops` whether the server behind
  `base_url` honours the stop token. DecisionLoop has the waits and the memory of
  the loop, DecisionData its data; `malformed` there is `build_raises` or
  `log_raises` here.
- **Watcher.** A listing, a step per listed id, and the second listing are actions:
  games start and end in between. `pending` holds the time since an id was first
  seen, which is `now` minus the code's value. `listed` and `reused` are history:
  how long the process itself has been known, and which ids changed hands since the
  watcher last had a chance to notice.
- **EventTrigger.** Lua threads are not interrupted between two waits, so one
  pass through the loop is one action; the army's size, the enemy's distance, the
  income and the phase are its inputs.
- **Brain.** `lua` is the place inside the code between two waits at which the
  pipe thread, a thread of the operating system, can come in between. Messages
  of the player are numbered; `Way` is every message still somewhere, from the
  pipe back to the buffer. The pipe thread pops in two steps (`Claim`, `Flush`), with
  the chat that it has withdrawn in `flushing`; the copy is of what Lua pushed since,
  if it did. `CheckSyncForBotChat`, the polling path of `gamemain.lua:48-59`, looks at
  the table of the same tick and at the same last id, so it displays what `OnSync` does
  or nothing.
- **StrategyExecutor.** Indices as in the code, 0 standing for nil. `tried` is
  the history of the orders since the strategy last changed.

## 3. The runs

| run | states | question | bounds |
|---|---|---|---|
| `OneSlotQueue_safe` | 5 086 | what the queue guarantees under every interleaving; is it the mailbox? | two cells (enough to tear), lengths 1-3 (3 is cut), three pushes (a pop overtaken twice) |
| `OneSlotQueue_torn` | violation | does every pop return one whole message? | two pushes |
| `Bridge_safe` | 159 806 | stale handles, leaked handles, order and repetition; do connection and loop recover? | three sessions, two games, three snapshots, queues of one |
| `Bridge_eof` | violation | does the reader's end end the session? | two sessions and games |
| `DecisionLoop_safe` | 274 448 | giving up the deep model, order of commands, conversation, return to the queue | four envelopes, a limit of two, queues and history of two |
| `DecisionLoop_load` | violation | does loading restore the conversation? | the same |
| `DecisionData_safe` | 134 176 | which answers are used, what of a command is valid, does the fallback always decide? | 16 snapshots at the rules' thresholds, two answers cut at each of their tokens, every key missing or with values at and beyond its limits (shares that are rounded to 1.011 and to 0.989 in all among them) |
| `DecisionData_nested` | violation | does an answer in the form asked for become the command? | the same |
| `Watcher_safe` | 73 843 | is the DLL injected after the delay, and in the end? | two ids, three games, two failures, a delay of three, passes of one or two |
| `EventTrigger_safe` | 876 042 | double, stale, broken and missing reports | 11 passes, times in ratio (below) |
| `StrategyExecutor_safe` | 548 | do the orders follow the templates? | two templates, a strategy without one, a loop of three, eight orders |
| `Brain_safe` | 226 280 | order, repetition, loss and arrival of the chat; order of the replies | two messages, a buffer for one, the server chats only until two replies were made |

Why the bounds are enough. The queues' `maxsize` of 4 is 1 or 2: a queue matters
by being full or empty, and in `Bridge` with capacity 1 every full queue is met
after one message. Three snapshots and two messages of the player let one be
withdrawn, one be pushed over it and copied twice, and (of snapshots) one follow. Three
sessions let a task outlive its session by two, and so meet a predecessor and a successor
of its own kind. `TimeoutLimit` is 3 in the
code and 2 in the run: a row, a broken row and requests after the limit fit into
four envelopes; the theorem covers every limit. `EventTrigger` keeps the code's
relations among the times (`Window + Step <= Cooldown`, which `CooldownAssumption`
states and `LossReportedOnce` needs; 5, 100 and 200 ticks in the code) with
1, 2 and 3. Sizes 2 and 6 are below half of, and above, the threshold of 5.
`MaxPush`, `MaxSession`, `MaxSnap`, `MaxGame`, `MaxIn`, `MaxTick`, `MaxTried`,
`MaxAsked`, `MaxChat`, `MaxStart` and `MaxFail` bound counters that grow for ever
in the code. `DeadSessionIsReplaced` excludes the last session, after which the
bound allows no other. In `DecisionData` every key is varied alone, because `build`
treats each apart from the others, in an answer with a nested `army_composition`
and in one without. In `Watcher` three games on two ids make one id change hands,
and passes of two let the time jump over the end of the delay.

`CHECK_DEADLOCK FALSE` is in the configurations of the models whose bounds make
them stop (no more sessions, messages or ticks); the queue, `DecisionData` and the
watcher are checked for deadlock.

### Properties, and what they show

- `ReadyMeansWhole`, `NoOlderByte`, `ImplementsMailbox`: the swaps of `ready` do
  protect a message until it is claimed, and hand it to one pop. A pop that no push
  overlaps is exact; one that is overlapped mixes in only *newer* bytes.
  `PublishedIsPopped`: a message left in the slot is popped in the end, or a newer
  one is. (Weak fairness of the pops is enough because the pushes are bounded: a
  producer that pushes without pause could always withdraw.)
- `OneOpenInstance`, `NoLeakedHandle`.
- `SnapshotsInOrder`, `CommandsInOrder` say what is left of order and of "once" in the
  presence of overlapped pops and of tasks that outlive their session. A snapshot that
  waited in an ended session may come after newer ones of the next, because the reader
  that is woken for a free place and the new session's reader race for it; within a
  session none passes another, and a snapshot of a later session is never overtaken in
  its turn. A copy may be taken, or applied, a second time, directly after the first.
- `LoopBlockedOnlyBySilence`: if the loop is stuck on a full command queue while a game
  is connected, then that game has fallen silent with the reader in its `ReadFile`, which
  the writer's `WriteFile` waits for. With the code's snapshots every 20 seconds that
  ends; the model does not assume that the game sends.
- `DeadSessionIsReplaced` is what is left of the comment at `pipe_server.py:112`: a
  session ends when a task raises, or when its client went away and there is a
  command to write. `SnapshotExposesDeadServer` is its counterpart in the DLL, where
  a failed peek is taken for "no data".
- `DegradedExactly`, `DegradedForGood`, `CommandsInSnapshotOrder`,
  `HistoryWasSaid` (a reply enters the history before it is queued, but never
  without being queued), `LoopReturns`.
- `CommandIsValid`, `ValidIsKept`: the builder's two halves. Of any object the fields
  leave valid, the strategy if one was given, and the total of the shares within 0.011
  of 1.0 (three roundings on top of the tolerance, or of a quotient), unless the given
  shares overflow; a decision that is complete and valid leaves unchanged.
  `FallbackAlwaysDecides`: neither the builder nor the log
  raises on what the rules decide, and the two sets of rules agree except where they
  order the army and the income differently, or only one looks at the base.
  `OnlyFlatAnswersUsed`: with the stop token an answer is used exactly when no `}`
  was written before the last one, so the shares of a command from the model are
  always the default.
- `NeverTooEarly`, `EveryGameAttached`: the delay is that of the process and not of
  its id, except when an id changes hands between two cleanings; failures only put
  an injection off. An id that was injected is never tried again: the premise
  `p \notin injected` is what the code needs and does not ensure.
- `LossReportedOnce`, `StallIsSustained`, `StallIsReported`,
  `PhaseIsKnown`: the relations between each detector's memory and its cooldown,
  during which two of the detectors do not look and the third goes on updating.
- `ChatInOrder`, `ChatIsKept`, `ChatArrives`, `RepliesInOrder`. `clean` marks the
  behaviours in which the code has not thrown chat away: a full buffer, a
  snapshot overwritten in the slot or after the pipe thread has withdrawn it, not built
  or not written, an event reported while offline.
- `OrdersFollowTemplate`, `TemplateEnds`.

### Where code and documents differ

Four runs show a promise of the repository violated: `OneSlotQueue_torn`
(`pipe_client.cpp:15-18`), `Bridge_eof` (`pipe_server.py:112`),
`DecisionLoop_load` (`spec.md:141`, FR-015) and `DecisionData_nested`
(`contracts/python-llm-server.md:85`). Other differences seen, without a run:

- when the reader raises, `gather` does not cancel the writer: it stays first in
  line at `command_queue.get()`, takes the next command, and fails to write it to
  the closed handle (`pipe_server.py:112`, `143`). `Bridge` contains it;
- when the fallback encoder `JSON.lua` is in use (its lines 45-62 make an object of an
  empty table), the bot falls silent after its first message: `state_processor.py:188`
  cannot take a slice of `{}`, and from then on, until a load empties the conversation,
  a snapshot in which the player says nothing gets no command, not even the fallback's.
  `data-model.md:49` says "player_chat: string[]", `state_processor.py:180` expects a
  list, and FR-009 (`spec.md:130`) a fallback. `DecisionLoop` has the step
  (`PromptRaises`); no run is spent on it;
- `command_builder.py:4` says "Fills missing fields with safe defaults", and
  `tests/integration/test_pipe_roundtrip.py:144` expects a strategy in every command: a
  missing `strategy` or `attack_direction` stays missing; `build` raises on the values of
  `build_raises` although it promises a valid dict "even if raw is None or malformed"
  (line 32); negative shares pass when the total is right;
- `data-model.md:84` wants shares that sum to 1.0 within 0.01: they are rounded after
  that was tested, so 0.7036, 0.2036 and 0.1027 (1.0099 in all) leave as 0.704, 0.204
  and 0.103, 1.011 in all, and 0.6964, 0.1964 and 0.0973 (0.9901) as 0.989; and
  shares whose sum overflows (`1e999`, `1e308` twice) leave as NaN or 0;
- the fallback's thresholds in `contracts/python-llm-server.md:99-103` (factories
  below 5 with mass stored above 500, army above 20 before the base, income below 5) are
  not those of the code (base above 50, factories below 3, income below 3, army above 20,
  in this order), which its docstring states as they are;
- the direction `nearest_enemy` of the fallback's attack is not valid, and the
  builder makes it null;
- `_minimal_fallback` looks at the army before the income, `get_command` after it;
- an id is never removed from `injected`: a later game that gets the id of an
  earlier one goes without the DLL. `inject.exe` runs for up to 20 s inside the
  event loop (`bridge_server.py:74-77`), and everything else waits;
- priority events are not handled first: `bridge_server.py:205-206` announces it,
  the loop takes envelopes in order and logs the priority (line 236);
- `llm_client.py:26` speaks of timeouts, `query` counts every failure;
- the first deep snapshot comes after the fast ones at 0, 20 and 40 s and then
  every 80 s, not 60: the count is tested before it is raised;
- a push that overlaps a pop makes two pops return the newer message and drops the
  older one, against `specs/001-supcom-llm-ai-bot/contracts/lua-dll-bridge.md:27`
  ("next call returns nil until new command arrives"): `Bridge` and `Brain` show what
  that does to order and to chat;
- a command is written only when the game's next snapshot, or its end, frees the
  handle from the reader (`pipe_server.py:99`);
- `LLMAIBrain.lua:309` adds the player's message "so the next snapshot carries
  the context"; an event reported offline clears it unsent;
- between strategies that have no template of their own a change starts the
  template of "balanced" afresh each time.

### Fairness

Weak fairness for what the code loops over without end: the pipe thread, every
asyncio task at its await, the watcher, the decision loop (every request ends: `httpx` has a
timeout), the consumer's polling, the executor's tick. In `Bridge` a `WriteFile` is
possible only while the handle is free, which comes and goes with the reader's
`ReadFile`s; strong fairness of the writes says that one which waits gets its turn, as
the system serves the operations on a handle in their order. When the reader never gets
anything the write never ends, and no fairness makes it. Assumed are that a thread of
the executor is there for every blocking call (two per session, and a call on a closed
handle returns at once), and that `CloseHandle` does not wait for the read that is
pending (`pipe_server.py:125`). In `Brain`, strong fairness
for the two loops that need Lua to be idle: each waits for a fixed time, after
which the simulation resumes it, and other threads run in between. Nothing is
assumed of the game's will: it need not send, exit, start, chat or report, and
the pipe need not stay connected.

## 4. The proofs

One module of proofs for each component. In each, `Invariance` (in `BridgeProofs`
`HandlesHold`, `CommandOrderHolds` and `SnapshotInvHolds`) is the inductive invariant, with one lemma for each
action or group of actions; the theorems named after the properties follow from it.
TLC checked every inductive invariant on the bounds of the component's run before it
was proved.

| module | every | theorems |
|---|---|---|
| `OneSlotQueueProofs` | capacity, set of lengths, number of pushes | `TypeCorrect`, `ReadyMeansWholeHolds`, `PopContents`, `EachClaimedOnceHolds`, `Refinement` |
| `BridgeProofs` | number of sessions, games and snapshots, size of the queues | `HandlesHold`, `TypeCorrect`, `OneOpenInstanceHolds`, `NoLeakedHandleHolds`, `CommandOrderHolds`, `CommandsInOrderHolds`, `SnapshotInvHolds`, `SnapshotsInOrderHolds` |
| `DecisionLoopProofs` | limit, size of queues and history, set of snapshots | `TypeCorrect`, `DegradedExactlyHolds`, `DegradedForGoodHolds`, `OrderHolds`, `CommandsInSnapshotOrderHolds`, `HistoryWasSaidHolds` |
| `DecisionDataProofs` | set of answers and snapshots | `CommandIsValidHolds`, `ValidIsKeptHolds`, `OnlyFlatAnswersUsedHolds`, `FallbackAlwaysDecidesHolds` |
| `WatcherProofs` | set of ids, delay, lengths of a pass | `NeverTooEarlyHolds` |
| `EventTriggerProofs` | set of sizes and times related as the code's | `TypeCorrect`, `StallIsReportedHolds`, `PhaseIsKnownHolds`, `LossReportedOnceHolds`, `StallIsSustainedHolds` |
| `BrainProofs` | buffer, intervals, number of messages | `TypeCorrect`, `ChatInOrderHolds`, `ChatIsKeptHolds`, `RepliesInOrderHolds` |
| `StrategyExecutorProofs` | templates and expansion loop | `TypeCorrect`, `OrdersFollowTemplateHolds` |

Why the properties alone are not inductive, and what is:

- **Queue.** Whether a pop returns its message depends on what is *still to be
  stored* when it claims. `ProducerInv` says that exactly the pending stores are
  missing from the slot, `ConsumerInv` that the cells read so far hold the claimed
  message, or newer bytes once a push has begun, `LastInv` carries this over to what
  was returned. `Refinement` is `Spec => ImplementsMailbox`, for all behaviours: a push
  is `Begin` at its first write of `ready` and `Put` at its last, a pop is `Take` at
  its swap and `Return` at its end. `torn` is true of a copy that is not the message;
  `View` shows that a copy can be torn only when a push has begun since.
- **Bridge.** `Handles` adds to the types that every instance's two ends are what
  server and `PipeThread` take them for, that nothing is in a stream that was not
  opened, and that the tasks in a queue of waiting ones wait, each once (`Waits`).
  A body has its number only because lengths and bodies alternate in the stream and the
  reader is at the right one of them; `Frames` says this for every reader that may still
  read, those of ended sessions included. The order of snapshots is that of the places on
  their way: within a session the loop, the queue, the reader's hands and the stream
  (`Chain`), and all of an earlier session before all of a later one (`Passed`); that
  the queue itself is in order only session by session (`QueueAscends`) is the race for
  the free place. The numbers of copies come in at the DLL's slot: what `PipeThread`
  copies next is newer than all that it wrote, or it is the message that an overlap made
  it copy before, and then `2k` was its number and `2k + 1` will be (`SlotOrder`, `Older`).
  Commands are the other way round: `CommandOrder` says of each place from the loop back
  to the game that it is newer than all that is nearer to Lua: the queue, the hands of
  the writer of the session that is served (`InHand`; no other can deliver), the stream
  (`Down`), the slot, the command that Lua has withdrawn, and the copy it applied.
- **Decision loop.** `CountInv` says that the counter is the length of the row of
  failures that ends the log (the element before it is an answer), which makes
  `DegradedExactly` inductive; `RowAppend` is the lemma about rows in a log with one
  more outcome. `OrderInv` relates the numbers in the queue, in work and sent, and
  says which envelopes get past the prompt; one invariant carries all three of the
  properties about order and conversation.
- **Decisions.** `IsDecision` is what the models' objects and the rules have in
  common. `BuildIsValid` says what `build` makes of any such object, `BuildKeeps` that
  it keeps a valid one. For the total of the shares (`CompositionTotal`) the proof bounds
  what each of the three roundings adds (`Round3Bounds`), to shares within the tolerance
  or to quotients by the total; the infinite sums are cases of their own. `Among`, the
  filter of the build priorities, finds each place by its rank: it is what
  `SelectSeq` gives (which is defined by recursion), in a form to be reasoned about;
  `AmongPlaces` says which places it reads, and in what order.
- **Answers.** `OnlyFlatAnswersUsedHolds` follows an answer from its text to its use.
  `Shaped` holds of the text of every decision, with thoughts before it, and cut
  anywhere (`TextShaped`, `AfterThoughts`, `CutShaped`). From it follows what the stop
  token leaves: of a flat answer one opened object (`FlatResponse`), of any other a
  broken token, no object, or two (`OtherResponse`). After cleaning the one "}" is the
  one that was put back, so by `Depth` exactly the first parses (`AcceptedIffFlat`).
  `FlatInv` carries this to every pass.
- **Watcher.** The time that an id has waited is never longer than the time that its
  process has been listed, except for ids that changed hands since a cleaning.
- **Event thread.** `ArmyInv` bounds the baseline's age by `Window`, which with
  `CooldownAssumption` outruns every report; `StallInv` relates the start of the
  timing to the last report and to the start of the stall; `PhaseInv` says that `told`
  is `last_phase`.
- **Chat.** `Ordered` takes `ChatInOrder` apart: the chats that the pipe has, the one
  that is withdrawn and not yet copied, the one in the slot, and the three parts of the
  way in Lua; each in order and each before the next, but that the chat in the slot may be
  the one just written, over again, when a push has overlapped the pop. `Kept` says where
  a message can be, and that as long as nothing was thrown away no push overtakes a
  withdrawn chat that is not empty. `Replied` says that `Sync` never holds an older reply
  than the last displayed.
- **Executor.** `IInv` ties the history of orders to the two indices. A change of
  strategy keeps `_expansion_index`, so the loop begins anywhere; `LoopGoesOn` is the
  lemma about remainders that it needs.

Assumptions on constants are the named `ASSUME`s of the modules; TLC evaluates them in
the runs. They say of what kind a constant is (`MaxSession \in Nat \ {0}`) but for
three: `CooldownAssumption`, which is a relation between the code's times
(`LossReportedOnce` needs it); `ValuesAssumption` and `TextsAssumption`, that the stand-ins for
values of the wrong type are none of the numbers, a list none of the texts, and the three
for floats not each other; `AnswersAssumption`,
that answers are texts, with any thoughts and cut anywhere (`IsAnswer`), of objects as
`CommandBuilder` describes them (section 5).

Only model-checked:

- liveness under fairness, which is out of the prover's reach: `PublishedIsPopped`, the
  last four properties of `Bridge_safe`, `LoopReturns`, `EveryGameAttached`,
  `TemplateEnds`, `ChatArrives`;
- what the runs that end in a violation show.


## 5. Abstractions, and what is not modelled

- Payloads are numbers; the length on the pipe is always right; the 64 KB buffers
  of the pipe never fill, and `CreateNamedPipe` does not fail.
- `Bridge` and `Brain` take a pop's copy for one step, in which a mixture of two
  messages is taken for the newer one (when it decodes) or for nothing;
  `OneSlotQueue` has the bytes. What the decision loop decides is in `DecisionLoop`,
  not in `Bridge`. In `Brain` a command is popped in one step: two copies of one reply
  are two replies with ids of their own, which `CommandsInOrder` speaks of.
- One bot per game: two bots would share one queue and one chat buffer, and the
  ids of their replies would collide.
- Of `build_prompt` only the chat block is taken to raise; a damaged save file, on
  which `load` raises outside the loop's `try`, is not modelled.
- Finite shares are multiples of a ten-thousandth, or `Large`, which stands for a float
  that two of overflow; infinity below zero stands with `NotANumber`, which ends the same
  way, and negative floats of the size of `Large` are left out. A total of exactly 0.99 or 1.01 is outside the tolerance, as it
  is for the doubles `1.01 - 1.0` and `1.0 - 0.99`; sums that come out differently in
  their last bit are not told apart. Objects that the model puts where the schema has
  none do not appear in answers.
- In `EventTrigger` `WaitTicks` takes exactly its ticks. In `StrategyExecutor` of
  the factories' queues only the strategy of the newest batch is kept, and the
  engine may end any order.
- In `Brain` every message gets an offline reply, as `OfflineChat` returns one for
  every text; whether the engine empties `Sync` after a tick is left open.
- `PipeClient_Stop`, `RetryConnect` and the initial fallback decision are left out.

## 6. Plan

Done, in this order: the queue and its proofs; the pipe, its two ends and the
bridge; the router, the decision loop and its first proofs; the event thread; the
executor; the chat; the data of decisions; the watcher; then the proofs of the
decision loop's order, the event thread, the executor, the watcher, the decisions,
the bridge and the chat, and the texts of the answers.

To do, most important first:

1. An abstract specification of the bridge (two channels that lose but keep order),
   and the proof that `Bridge` implements it.
2. The economy manager and the micro's decisions, as far as they keep state.

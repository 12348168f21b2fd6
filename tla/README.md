# Hera V1 in TLA+

Specifications of the behaviour of Hera V1 (`src/`, TypeScript on Bun): a coding
agent that runs as three processes joined by IPC. The program's own code is under
`src/src`; paths below are relative to it unless they start with `tests/` or
name a document of the repository.

## 1. Inventory

### Parts, state and operations

| Part | Code | State | Operations |
|---|---|---|---|
| Communicator | `communicator/core.ts`, `communicator/state.ts`, `process/lifecycle.ts` | the turn (idle, running, waiting for an answer), the restart budget, `executorStopped`, `halted`, `shuttingDown`, the live child of each role and its epoch | `submitPrompt`, `answer`, `cancel`, `halt`, `shutdown`; `route` per message type, `onChildEvent`, `onChildExit`, `respawn` |
| Executor runtime | `process/child.ts`, `executor/main.ts` | whether the session is open, the acknowledgement it waits for | `hello`, `session_open`, `sendEvent` with and without acknowledgement, `terminate` |
| Agent turn | `executor/agent.ts`, `compaction.ts`, `injection.ts`, `children.ts` | `turnActive`, `finishing`, `queuedPrompt`, `abortReason`, `pendingAsk`, phase, messages, the mailbox, the child processes | `runTurn`, `loop`, `checkFit`, `compact`, `modelCall`, `executeTool`, `askUser`, `onAnswer`, `onContinue`, `onCancel`, `onResume`, `onInject`, `finish` |
| IPC channel | `process/ipc.ts`, `process/envelope.ts` | control and display lanes, pending acknowledgements, peer state | `send`, `sendAwaitAck`, `ack`, `dispatch`, `drain`, `close` |
| Effect gate | `harness/gate.ts` | `_halted`, `_inFlight`, `pendingResolvers` | `execute`, `egress`, `resolve`, `halt`, `collectInFlight` |
| Gate plugs | `harness/plugs/*` | stored decisions | `request`, `resolve` |
| Supervisor | `supervisor/core.ts`, `watchdog.ts`, `review.ts`, `memory.ts` | watchdog times, review triggers and the reviewer, the memory store | `tick`, `onEvent`, `onHeartbeat`, `schedule`, `drain`, `reseed`, extraction, retrieval |
| Session store, projection | `session/store.ts`, `session/projection.ts` | the JSONL file | `append`, `projectEvents` (restart recovery) |
| Console | `cli/console.ts` | one queued line, the open question | `handleLine`, `askUser`, `answerPlain`, `onTurnEnd` |
| ACP server | `acp/*` | the pending prompt, the cancel timer, requests made of the client, the write queue | `session/new`, `load`, `prompt`, `cancel`, `$/cancel_request`, EOF, brokers |
| Headless | `cli/headless.ts`, `cli/prompt_queue.ts`, `cli/main.ts` | the prompt file, the wait for the end of a turn, the events seen | `runHeadless`, `deriveExitCode` |
| Tools | `tools/*` | the read ledger, shell processes | file, edit, shell and web tools |
| Providers | `providers/*` | the retry attempt, the state of a stream | `withRetries`, `streamTurn` |
| Debug log | `debug/*` | the buffer, the pipe, the file | `dlog`, `drain`, `flush`, `close` |
| Self test | `selftest/*` | the budget, the results | categories, `runLive`, `roundTrip` |
| Configuration, admission, prompts, rendering | the rest | none that the above decides on | |

### How they interact

The user types at the Communicator (the console runs inside it; an editor speaks
ACP to it; the headless mode reads a file). The Communicator spawns an Executor
and a Supervisor and relays between them. Prompts, answers, cancel, halt and
shutdown go to the Executor; the Executor sends events, questions, heartbeats and
the halted message back. Every event is appended to the session store before it
is acknowledged, and an Executor waits for the acknowledgement of the lines that
precede an effect. When an Executor exits, the Communicator decides between a
respawn that replays the turn, an end of the turn, an idle respawn and staying
stopped; the new Executor reads the store, closes the calls it finds open as
`unknown` and acknowledges `session_open`. Inside a process every effect passes
the gate. The Supervisor sees copies of events and heartbeats: it resumes or asks
to restart a stalled Executor, injects notes and memories into its turn, and
keeps the memory files.

### What is hard, and what must hold

* *Two processes own one turn.* Ends of the turn (turn_finished, exit, halt,
  failed respawn) race. They must agree on whether a turn runs; no prompt may be
  dropped; every turn must end.
* *Crash at any point.* No effect without a stored request line; the store must
  be readable by the restart rule and restore a conversation a provider accepts;
  replays are bounded; one Executor at a time.
* *Halt and cancel.* Nothing starts after them; a halt's report names every
  effect under way and it releases every call.
* *The gate's suspensions.* Questions, decisions and halts interleave: one
  dispatch per effect, a denial is final, no waiter is lost.
* *Timeouts.* Acknowledgements, the watchdog, the cancel timer, retries and the
  self test's timeout race the late answer.
* *What is computed for one prompt arrives during another*: injected notes,
  memories, permissions, the end of a turn.
* *Bounded queues* of the channel, of the ACP line and of the debug pipe: what is
  dropped must be what nobody waits for, and must be noticed.
* *A file that others change* between a read, the check and the write.

`PROJECT.json` lists each hazard at its line.

## 2. Modules

| Module | What it models |
|---|---|
| `Communicator` | the Communicator, its console, one Executor per epoch, one pipe in each direction, the session store, the environment |
| `EffectLifecycle` | abstract: what the gate promises about one effect |
| `Gate` | the gate of a process with any plug; refines `EffectLifecycle` |
| `LocalGuards` | the plug of a desktop: its splitter, its lists, its stored decision |
| `GateProofs` | theorems about `Gate` and `LocalGuards` |
| `CommunicatorProofs`, `AcpServerProofs`, `IpcChannelProofs` | theorems about the module of that name |
| `ExecutorProofs` | theorems about the Executors and replays of `Communicator` |
| `TurnProofs` | theorems about `AgentTurn` and `SupervisedTurn` |
| `PartsProofs` | theorems about `Reviews`, `ProviderStream`, `AcpConnection`, `MemoryStore` and `SessionLog` |
| `LedgerProofs` | theorems about `FileTools`, `DebugLog`, `SelfTest` and `Headless` |
| `AgentTurn` | a turn in the Executor, with compaction, mailbox and child processes |
| `StallWatchdog` | the watchdog's decisions, as operators on its state |
| `SupervisedTurn` | `AgentTurn` and `StallWatchdog` composed: freezes, heartbeats, resume, restart |
| `IpcChannel` | the channel of the Communicator and a child, `ChildRuntime` on it |
| `AcpServer` | the ACP server and its brokers on a Communicator and an Executor |
| `AcpConnection` | the line to the ACP client: write queue, updates, replay |
| `MemoryStore`, `Reviews` | the Supervisor's memory and its reviews |
| `SessionLog` | the session file, its writer and its projection |
| `FileTools` | the read ledger and the edit gate on one file |
| `ProviderStream` | one model call through retry, adapter and agent |
| `Headless`, `DebugLog`, `SelfTest` | the run without a user, the debug log, `hera selftest` |
| `Totals` | the sum of a sequence, for the last two |
| `MCCommunicator`, `MCGate`, `MCTurn`, `MCParts`, `MCAcpServer` | the instances for TLC |

A part that shares no variable with another is checked in one run with it: an
instance chooses at the start which of them moves.

### Communicator

`comm` is the state of the Communicator process: the turn (`turn`, `prompt`),
the budget (`used`, `idleExits`), `stopped` (`executorStopped`), `halted`,
`shutting`, `live` and `epoch`, for every Executor the stage of its spawn
(`child[e]`: hello outstanding, session_open outstanding, up, hello late, gone)
with what follows its open (`after[e]`), the console's `slot` and open question
`ask`, and `pipe[e]`, the messages it wrote to Executor `e`. `exec[e]` is an
Executor: where its turn stands (`pc`), its prompt, `queuedPrompt`, the abort
flag, the gate's halt flag and the current call. `toComm[e]` is the pipe back.

The handlers that call one another (`submitPrompt`, `onTurnEnd`, `decideOnExit`,
`respawn`) are functions on the record `comm`, so an action is a whole handler:
`OnChildExit` closes the channel, decides, submits the queued line and runs the
continuation of a rejected hello, as one turn of the event loop does.

An `await` that other messages may overtake is a boundary between actions: an
acknowledgement, a model call, a tool, a question, the construction of the
adapters while the session opens. Awaits that only yield to microtasks are not.

* The acknowledgement is a flag, not a message: it resolves its waiter when it
  is dispatched, ahead of the inbound queue. This is the reason a prompt can
  arrive while the turn is still active in the Executor (`agent.ts:205`).
* `halt` may be taken before older messages of its batch (control lane).
* The model's answer is any number of calls up to `MaxCalls`; a tool either runs
  or asks the user. Both may take any time.
* The Supervisor appears as a cause of `Exit` only (`restart_request`); see
  `SupervisedTurn`.
* `ProviderError` stands for both ways a turn ends without turn_finished: the
  error of the provider and an error thrown in the loop (`agent.ts:245`).
* Left out: a refused admission, empty prompts and unknown workflows (a turn
  that finishes at once), compaction, the tool call limit's question (it waits
  like any question), switching and resuming sessions, terminal widgets (the
  piped console's line is the answer). Most of it is in `AgentTurn` and
  `AcpServer`. A pending effect's decision belongs to `Gate`.

### Gate

`pc[f]` is where the call for effect `f` is suspended. A plug may answer at once
(`LocalGuardsPlug`) or be asynchronous (the interface and `ScriptedPlug` allow
it): `Async`. The policy is any answer, but a stored decision wins and is used
up (`localguards.ts:253`). `freeze` is shallow, so the integrity check before a
dispatch may fail. `Resolve` includes the second question to the plug: the
woken call asks before the next message is handled. `said[f]`, `started[f]` and
`reported` record what was decided, dispatched and reported.

`EffectLifecycle` is the promise: requested, perhaps held, released, started at
most once, over; a halt ends what is held and admits nothing new.

### The turn and its watchdog

`AgentTurn` is the coroutine `runTurn`: `agent.at` is the await where it stands
(context fit, compaction, model, write-ahead acknowledgements, gate, tool,
question), and the inbound handlers are actions that run between any two steps.
`messages` is the conversation as roles and call ids; `mailbox` the injects;
`procs` the registered processes and the snapshots that `terminateAll` is
reaping. Model, tool, gate and user answer in every way the loop tells apart.
`delivered` and `cancelled` are history for the properties.

`StallWatchdog` keeps a moment as its age in heartbeat intervals. In
`SupervisedTurn` each interval has one beat of a live Executor and one tick, in
either order, and passes only while everything waits; the process may freeze and
thaw (it may also never thaw). A restart kills the process and replays the turn,
once, as the Communicator does. Its registry dies with it: the tool processes it
leaves run on, in `host.orphans`, until they exit by themselves.

### The channel

Both ends are one class, so the operators of `IpcChannel` work on a channel
record. Timers may fire whenever their wait is registered, and in particular
between the arrival of a message and its handling. `Communicator` takes the
result as FIFO pipes and a flag; this is where that is shown.

### The ACP frontend

`acp` is the server: the pending prompt with its timer and kind, the requests
made of the client, the answers given. `comm`, `exec` and the two channels are as
much of the rest as it can observe. `AcpConnection` is what becomes of the lines:
the queue that drops updates, the numbers that let a client notice, the replay.

### Stores and calls

`MemoryStore` has a step per await: the model, the gate, the acknowledgement,
the append, and the continuation that updates the map. `SessionLog` runs a writer
next to the file it writes; a crash leaves any prefix, and `Restored` is the
projection plus the restart rule of `executor/main.ts`. `FileTools` has a step
per system call, outside writes in between; a read makes its ledger entry first and
returns an error, a part or the rest afterwards, so `recorded`, the content the
entry was made of, need not be one the model was shown. `ProviderStream` has a step per event
of a provider's stream, with the three adapters told apart. `Reviews` has the
triggers and the reviewer; before the re-seed has read the session it reviews
nothing.

### Headless, debug log, self test

`Headless` parses the prompt file line by line and drives the Communicator as its
hooks show it. `DebugLog` has the two sinks, the pipe's buffer and the viewer's
connection. `SelfTest` counts in cents; an interrupt is heard only by a round
trip that has begun, because the abort listener is added after the adapter was
awaited (`selftest/runner.ts:156-159`).

## 3. Runs

| Run | Instance | Shows |
|---|---|---|
| `communicator_faults` | two prompts, one call, up to three of {fault, prompt} and a halt, every kind of fault | write-ahead and order of the store, replays bounded |
| `communicator_turns` | two prompts, two exits of an Executor that is up, a halt, a cancel: any four of these | one Executor, no double close, no ghost turn, no lost prompt, no tool after the halt, turns end, the queued line is sent |
| `gate` | two tools and a model call in the gate at once, asynchronous plug, two decisions, two halts; command lines of up to four characters; prompt files of up to six lines; six log lines and a buffer of two; up to three categories with two models and two cents | single dispatch, denial final, complete report, registered waiters, release by a halt, refinement; the guards judge what a shell would run; the exit code tells of every prompt; lost lines are reported; the self test keeps its budget and reports it |
| `turn` | eight settings (`MCTurn`): aborts while commands run, injects around ends of turns, a long conversation with compactions, and under the watchdog a hung tool with a freeze, two freezes, a hung tool with a cancel, a hung tool in the turn before another, commands with a freeze | results follow their calls, an inject lands in the turn it is for, no process of the live Executor is forgotten, a cancel keeps later tools from starting, a healthy Executor is not killed, the turn ends |
| `acp_server` | two prompts, two cancels of either kind or two sessions, a question or permission, an exit; or three prompts, a cancel and an exit; a write queue of two | every prompt is answered once and by its own turn, or one late after a turn its timer gave up, a cancelled one always; a permission names its call; nothing but updates is dropped |
| `parts` | see `Parts.cfg`: channel, memory, reviews, session file, file tools, model call | an acknowledged wait means a stored line, lanes keep their order, waits end; the memory is the fold of its files; every trigger gets its review; a restored conversation is well formed; an edit replaces only the content that was read last or written; the calls that run are those of one whole answer |
| `provider_error`, `start_prompt`, `halt_lost`, `gate_halt_report`, `turn_cancel`, `crash_tail` | the smallest instance | a disagreement with the documents, see section 5 |

**Bounds.** Two prompts are one in a turn and one queued. Two exits exceed the
restart budget of one restart per turn, in a turn, during the replay or while
idle (`IdleMax` is 1 where the code has 3: the same boundary, sooner). With two
exits and two prompts a line can be queued when the budget runs out. One call
suffices for a call left open by a crash, closed by the replay's Executor and
repeated by none. `MaxEpoch` exceeds the Executors these events can spawn. Three
effects are a waiter, a running and a third call; two decisions are a repeated or
crossed pair. Prompts are interchangeable in the safety run, which uses symmetry;
the runs with liveness do not.

In a turn, two calls in a batch are one that is aborted and one that would
follow; a stall timeout of three intervals and a confirmation of two keep the
three timers of the code apart; a kept tail of two messages cuts between a call
and its result. In the session file the kept tail is three messages and there are
two compactions or drops, so that a second checkpoint keeps the first; an
answer has one call there, as its results are logged one after the other anyway
and the theorem covers any number. A display lane of one, a write queue of two and a debug buffer of
two overflow with the first surplus message. Three tasks of memory are two
extractions and a retrieval at once, three openings two restarts. A prompt file
of six lines nests a longer fence in a shorter one, with a prompt behind it; its
lines have no text that is not a built-in word (`Words`), as outside a prompt either
is commentary and in it a task may be empty. Two
retries are the code's own number. Four characters are a quote or escape around
an operator, and a word behind it.

**Deadlock** is not checked: the user may stop typing, and a shut down system
stops.

**Fairness.** Weak fairness for the steps of each child and for the
Communicator's handling of its messages: these are event loops and operating
system processes, and every await they contain has an end (a model call and a
tool return or are cancelled, the ack has a timeout). In the gate, weak fairness
for the continuation of a call: the plug's promise and the dispatched effect
settle. In `SupervisedTurn` also for deliveries and for the two timers, which
makes time pass; a hung tool and a frozen process owe nothing. In `IpcChannel`
for what either side handles, the ack timer and the exit of a process that
terminates. In `AcpServer` for the cancel timer.
Elsewhere the user is never fair: no line, answer or decision is owed. In
`AgentTurn` the user answers a question in the end, otherwise a turn waits for
ever by design. Timeouts and exits are not fair otherwise.

**Properties that hold under a restriction.** `AtMostOneExecutor`, `ClosedOnce`,
`NoGhostTurn`, `NoPromptLost`, `HaltStopsTools` and the liveness properties of
`Communicator` are checked without faults during the start of an Executor and
without prompts typed meanwhile. With them they fail, in ways worth knowing:

* a prompt typed before the hello of an idle respawn finds no live channel that
  is ready and spawns a second Executor beside the first (`core.ts:271`);
* an Executor that dies before its hello triggers a respawn by `onChildExit`
  and, through its rejected hello, the `catch` of `respawn`, which sets
  `executorStopped`: the next prompt spawns another (`core.ts:544`);
* such Executors share the store, so one closes as unknown the call that the
  other still runs and then finishes; and an Executor that said hello too late
  still runs its tools after the run is halted.

Exceptions a property states itself: `HealthyNotKilled` excuses a turn that
missed a heartbeat or whose tool phase lasted almost the stall timeout, where the
turn is the one the watchdog heard of last, and a tool phase of that length that
the last heartbeat of the turn before reported;
`TurnEnds` of the turn does not count an Executor that freezes after its
turn_finished (nothing restarts it); `ResultsHaveTheirCall` does not count the
results a restart closes as unknown (section 5); `OwnAnswer` names the turns that
were given up by their timer, and those that lost their answer to one of these; `NothingChangedIsReplaced` names the outside writes
no check could notice, and `OwnChildrenAreListed` is about the live Executor's own
processes; `ResumedPairs` says what a checkpoint may break;
`SelftestTells` weakens with an interrupt and a deadline.

## 4. Proofs

Each proof module extends the modules it is about. Its theorems hold for every
value of the constants under the `ASSUME`s of that module, so also where the
bounds of section 3 are any numbers: they are the ones the runs evaluate.

| Module | Proved of every behaviour | Inductive invariant |
|---|---|---|
| `GateProofs` | `SingleDispatch`, `DeniedNeverStarts`, `HaltReportsAll`, `NoLostWaiter`, `Implements` (refinement of `EffectLifecycle`), `GuardsDecide` | `GateInv`, `GuardInv` |
| `CommunicatorProofs` | `WriteAhead`, and that an acknowledgement is never taken for another line's | `CommInv` |
| `ExecutorProofs` | `BoundedReplays`; without faults during a start `AtMostOneExecutor`, `HaltStopsTools`, `NoPromptLost`, `NoGhostTurn` and `ClosedOnce` | `ReplayInv`, `OneInv`, `WorkInv`, `CloseInv` |
| `AcpServerProofs` | `AnsweredOnce`, `OwnAnswer`, `PermissionNamesItsCall`, `NoGhostTurn` (of `AcpServer`) | `ServerInv` |
| `TurnProofs` | `ResultsHaveTheirCall`, `InjectInItsTurn`, `OwnChildrenAreListed`, `CancelSticks`, each for a turn alone and under the watchdog; `HealthyNotKilled` where `Stall > 1` | `TurnInv`, and `WatchInv` for the watchdog |
| `IpcChannelProofs` | `AckedMeansStored`, `LaneDiscipline`, `NoAckMissed` | `IpcInv` |
| `PartsProofs` | `TriggerIsReviewed`, `OneAnswer`, `NothingLostSilently`, `MapIsTheFold`, `ResumedPairs` | `ReviewInv`, `StreamInv`, `LineInv`, `StoreInv`, `LogInv` |
| `LedgerProofs` | `NothingChangedIsReplaced`, `LossIsReported`, `SelftestTells`, `ExitCodeTells` | `FileInv`, `DebugInv`, `SelfInv`, `HeadlessInv` |

Every inductive invariant was checked by TLC on instances like those of the runs
before it was proved. None of the properties is inductive alone:

* **Gate.** That an effect starts once needs that a call before its dispatch has
  started nothing; that a denial is final needs that the denied call is on its
  way with the answer `block`, which needs that the stored decision is the one
  the next question reads; that the report is complete needs that every call
  under way has an entry until the halt; and a halt ends the right calls only if
  the registered waiters are the calls that wait. `RefinesNext` maps each action
  to one of the life cycle, with `MoveStage` for the one call that moves.
* **Guards.** The scan of a command line carries flags, the specification cuts the
  line into units, and the two agree for every line (`SplitIsStatements`). `Phase` says
  where the scan of the first characters stands: between two units, behind the first
  half of an escape or of a double separator, or inside a quotation none of whose
  quotes has ended it, escaped exactly if an odd number of backticks stands there
  (`TicksGrow`). Units do not overlap (`UnitsAreApart`), so a character inside one
  separates nothing. `PiecesOK` makes the pieces so far the statements that have
  ended. `GuardInv` ties the plug's answer to that judgement of the line.
* **Communicator.** A tool runs after an acknowledgement, and nothing in the
  acknowledgement says which line it is for (the model's `acked` is one flag per
  Executor, as the code waits for one line at a time). `OneWait` closes the gap: a
  living Executor has at most one awaited line in its pipe, the one its state
  owes. With `CallStored` (a call that may run is in the store) write-ahead
  follows, under every combination of faults.
* **Replays.** The count in the store does not bound itself: a prompt that is about
  to be respawned, or stands in a pipe, a queue or a line, will be in the store
  too. `ReplayInv` counts all the places where a prompt stands (`Tokens`) against
  the room it has: none before it is submitted, one more than the restarts used
  while its turn is open, one more than the budget when it is over. Each handler
  is shown to move a place (`TokensMove`) or to make one when there is room
  (`AddsCounted`), under every combination of faults.
* **Executors.** `OneLive` says that the child that is neither ahead nor gone is the
  live one; `ExecIsRight` and `PipesAreRight` how far each Executor can be at its
  stage of the start; `HaltIsRight` that in a halted run an Executor is halted, or
  has no turn and gets none. These hold only under `NoStartFaults`: with an Executor
  that dies or is late before its session is open, or a prompt typed meanwhile,
  the code lets a second Executor start beside the first, and TLC finds
  `AtMostOneExecutor` violated with each of the three faults and `HaltStopsTools`
  with the last two. The run `communicator_turns` has none of them, and the hypothesis leaves
  crashes, failing appends and failing model calls unrestricted.
* **Turns of two processes.** `WorkInv` says that whatever an Executor works on, has
  queued, is sent or will be sent once its session is open is the prompt of the
  turn the Communicator has open (`Mine`), unless the run is halted. A prompt in a
  pipe is alone and meets an Executor that can take it; one that overtakes the
  acknowledgement of the last turn's end is queued, and that end was received. This
  rests on `OneWait`: the end that the Communicator received was the only one on its
  way, so no older end closes the new turn. Without `NoStartFaults` `NoPromptLost` is
  false, as the run `start_prompt` shows.
* **Closed calls.** `CloseInv` says that the finish lines on their way from the live
  Executor close calls that are open in the store, each another one and none the
  call it works on. A new Executor reads the store only after the exit of the old
  one was noticed and its unread lines were discarded, so what it closes as
  unknown is closed by nothing else.
* **ACP server.** The end of a turn answers whatever prompt is pending.
  `TurnsInOrder` says that the ends in the pipe, the turn that runs and the
  prompts on their way to the Executor are in one increasing order;
  `LiveIsCurrent` that each of them is the Communicator's turn or one that
  answers its prompt no more; `TurnWillEnd` that a turn the Communicator counts
  as running will still be finished. `CallsAreKnown` keeps the last announced
  call the one a permission is about.
* **Turn.** A result is appended for the call at the head of the batch.
  `BatchIsOpen` says that the calls left in the batch differ and that each has
  only results between its answer and the end of the conversation (`IsOpen`);
  `Grounded` is kept by appending a result of an open call, by cutting the
  conversation at a compaction and by dropping results wherever they are
  (`WithoutResults`, by induction on the length). `CancelHolds` keeps the
  reason of an abort until the turn is over.
* **Watchdog.** `WatchInv` ties what alarms the watchdog to the history: a sign of life
  is never older there than the last heartbeat, a tool phase it could alarm about
  was seen in the Executor too, and whoever is waited for after a resume was
  suspected before. The hypothesis `Stall > 1` is needed: where
  `stall_timeout_s` is one heartbeat, an Executor that beats in time is at the limit
  before its next beat. The configuration asks only for a positive number
  (`config/schema.ts:44`); its default is 120 s.
* **Channel.** `InOrder` bounds what waits in a lane by what the lane handled last
  and by what is on its way; `AcksAreStored` and `WaitsAreRegistered` tie an
  arrived acknowledgement to the store and to the wait that it ends.
* **Files.** `EditReadsWhatItJudges` and `EditKeepsWhatPassed` follow an edit from
  its read over the gate to the rename, as long as the outside writes were
  noticed; `InHandUntilStat` says that between a read or a rename and its stat the
  file is what the tool has in hand, and `RecordedIfItLooksRead` that a file that looks
  read is the content the entry was made of. How much of that content the
  model was shown none of them says: the gate does not ask for it.
* **Model call.** `GivenInOrder` says that the calls given so far are the first
  ones and whole; then what `StreamEnds` still gives is the rest in order
  (`RestIsTail`, by induction on the number of calls).
* **ACP line.** `LineInv` says that every line owed is written, queued or in the
  chunk that is being written, and that updates were dropped only while a burst
  is on, whose report is still to come, or has set the gap. The core is
  `QueuedKeeps`: a full queue gives up its oldest update, and only an update;
  `QueuedOneByOne` unfolds a burst of lines one after the other.
* **Memory.** The map equals the fold only while no write is between its file and
  the map. `FoldOK` says what holds in between: what the map says of an id without
  such a write is the last line of the id (`IsLastLine`), and of the writes under
  way the newest of each id is its last line (`IsNewest`), so that the continuations,
  which run in the order of the appends, leave the map right when the last has run.
  `OneStory` spans the map, the files and the lines that tasks still hold: two
  touches of one memory may be under way, but a new id is above everything counted
  (`Counted`), after a restart too, because a tombstone counts (`Reopened`).
* **Session file.** A crash may leave any prefix, so the invariant speaks of every
  prefix: the projection, event by event, stays a `Story`. In it a result has its call in
  front with only results between, or it is among the checkpoints and results that lead
  the conversation (`Paired`); behind a pending message that was pushed there are results
  only (`PendOK`), which is what lets a late result land next to its call; a call that is
  open is held by the pending message, pushed or not, or a checkpoint cut it
  away (`OpenOK`); and without a checkpoint every call that is not open is
  answered (`AnsweredOK`). Each kind of event keeps this for any file. What the
  writer adds is in `SessionOK`: a call is requested once, and outside of a tool
  all that were requested are finished, so a turn and a compaction find no
  call open and the restart rule closes at most the one that a crash left.
* **Debug log.** `Books` counts: what the console accounted for, what its `drain`
  has in hand, what the buffer holds and what was dropped add up to what was
  logged; the buffer is the newest lines (`Newest`) and everything shown is
  older (`Before`), so the console's lines stay in order. A `drain` has written
  only once a viewer was there: otherwise its arrival would show the line again.
* **Self test.** `Accounts` says that, until a category throws, the report and the
  running category account for every cent, and that a result which is not
  whole is a failure unless the user interrupted; `Lengths` counts the results
  against the plan; `BudgetOK` that a test begins only under the limit.

* **Headless.** The parser and the grammar are tied by `Shape`: what the parser expects
  says where the last block of the lines read so far stands and what is behind it;
  `Chained` that the blocks before it are separated as the grammar wants; a line
  that is refused stays wrong however the file goes on (`Refused`). `PromptsAre` makes
  the prompts those of the closed blocks, in order (`OneMore` says which blocks one
  more line opens or closes, by induction on the lines before it). `RunOK` counts the
  turns that finished against the prompts submitted: fewer while one is waited for,
  at most as many between two prompts, so the code 0, which asks for as many, means
  that none is missing.

Nine proof attempts changed a model:

* `OwnAnswer` said that another turn's end answers a prompt only if that turn was
  given up by a cancel timer. That is false with three prompts: once the end of
  a stalled turn has answered the next prompt, the end of *that* prompt's turn
  answers the one after it, and so on (`server.ts:347-366`). The property now says
  so (`Unanswering`), and the third prompt of the run `acp_server` reaches it.
* `HealthyNotKilled` counted what looked like a stall per turn of the Executor. With a
  second prompt that is false: the restart may follow from a resume in the turn
  before, of whose end the watchdog has not heard. It now counts from the
  `user_message` the watchdog gets, and excuses the phase the last heartbeat before it
  reported, as the code does not clear it (`watchdog.ts:65-69`). The run `turn`
  has the second prompt.
* An Executor of `AcpServer` went on with any acknowledgement of a tool call. It
  waits for its own message's (`ipc.ts:182-195`): `Acknowledged`.
* `dropOldToolResults` removes messages by their place. As a selection by value
  it would drop equal messages together: `Without`.
* `Queued` of `AcpConnection` had overlapping cases for a dead line and one that
  is not writing, which TLA+ leaves open. The code tests `dead` first
  (`connection.ts:102`): a chain of IF.
* `ParseLine` of `Headless` had overlapping cases for a fence behind a separator (the
  code tests for the fence first, `prompt_queue.ts:30`), and the file ended at the
  line that was refused, so that a parser that refuses too much could go unnoticed.
  Now the lines behind it are read as well.
* A retrieval of `MemoryStore` touched its memories in the order of their ids, and
  retention wrote its tombstones so. The code takes the order of the model's answer
  (`memory.ts:398-407`) and that of the map: `Selections` has every order now, and
  `Tombstones` one that is not fixed.
* `Split` of `LocalGuards` returned the statements in their order, which no
  judgement depends on (`localguards.ts:262-298`): it is their set now.
* `ResumedPairs` allowed a result without its call only directly behind one checkpoint.
  That is false: a second compaction that keeps the first one's checkpoint, with results
  behind it, puts another checkpoint in front (`compaction.ts:131-144`), and TLC finds it
  as soon as the bounds let a turn compact twice. The property now says which messages
  may be in front (`Leading`), and the bounds of the run `parts` reach it. The calls a
  restart closes come in the order of the log (`projection.ts:189-196`), dropped
  results go by their place in the file too (`ElementsAt`), and `Projected` is a
  recursive function, which a proof can unfold an event at a time.

Only model-checked is liveness (`HaltReleases`, `TurnEnds`, `QueuedLineIsSent`,
`WaitEnds`, `CancelIsAnswered`), which is beyond the prover, as are fairness and
ENABLED. Every other property of the passing runs is a theorem.

## 5. Disagreements between code and documents

* **provider_error** - after a provider error the Executor is idle and the
  Communicator's turn is not (`agent.ts:266`, `core.ts:433`). The console queues
  every further line for a turn that never ends, against `console.ts:87` and
  `tests/integration/executor_turn.test.ts:136`. A later crash replays the
  failed prompt.
* **start_prompt** - a prompt sent between hello and the end of `session_open`
  is dropped (`core.ts:271`, `executor/main.ts:158`) although no turn was in
  flight, against README.md:40 of the repository.
* **halt_lost** - a halt that the Executor does not live to handle has no effect
  (`core.ts:304`), against README.md:313.
* **gate_halt_report** - an approved effect that runs is reported as pending
  (`gate.ts:94`), against README.md:313.
* **turn_cancel** - a stall resume that comes while a cancelled call has not
  settled replaces the cancel, and the turn goes on to its next tool
  (`agent.ts:615`), against `agent.ts:399`.
* **crash_tail** - after a compaction within a turn the restored conversation
  keeps the turn a crash cut off, whose prompt is then sent again
  (`projection.ts:181`), against `projection.ts:198`.

### Seen while modelling

No document speaks against these, but for two that are named, and no run is
about them; the models contain them.

*Turn.* The note that a cancel appends to the live conversation (`agent.ts:627`) is in no
model, as no property depends on it. After a cancel in the middle of a batch (or a refusal, an output limit, a
declined continue) the remaining calls get no result in memory, and no adapter
adds one; the file's projection does. A restart in a tool call drops the turn and
still appends its `unknown` results, without their call (`executor/main.ts:103`).
`dropOldToolResults` leaves calls without results and is not logged. A turn that
ended by a provider error is dropped on resume though the live Executor keeps it.
A cancel during a compaction or an acknowledgement does not stop the next model
call. In a halted gate a model call is an empty answer that ends the turn
(`providers/registry.ts:114`). The loop goes on after `end_prompt`
(`agent.ts:503`).

*Watchdog.* An Executor frozen while idle or after turn_finished is never
restarted (`watchdog.ts:112`); the phase stays `tool_call` while an effect waits
for the user, so a healthy Executor is restarted; a resume that reaches
`idle` or `waiting_answer` is ignored (`agent.ts:602`) and then counts as unconfirmed. A
`user_message` does not clear the phase of the last heartbeat (`watchdog.ts:65-69`): if
that was a long tool call of the turn before, the first tick resumes the new
turn, and restarts it if the resume comes while its phase is still `idle`. The
reset on "executor exited" is never reached (`supervisor/core.ts:99`).

*Supervisor.* The prompt id of a note is read after the model call
(`supervisor/core.ts:162`, `:186`). Triggers before the end of the re-seed are
consumed without a review (`:173`), and the re-seed overwrites counts
(`:226`, `:228`). A halt before its session is open finds no gate (`:312`). Two
sessions that share a memory directory give one id to two memories
(`memory.ts:176`), and concurrent touches lose a use.

*Providers.* A stream of Anthropic or Z.ai that ends early without an error hands
on its unfinished calls; one without a fragment is run with `{}`. The back-off of
a retry is not abortable (`retry.ts:104`).

*Restart.* A restart kills the Executor only. Nobody names its tool processes to the next
one (`core.ts:255-260`), so the branch that would reap them (`executor/main.ts:151-154`)
is never taken, although `children.ts:69` speaks of the "termination of orphan pids from
the previous Executor's last heartbeat"; the Communicator reaps only at its shutdown
(`core.ts:624`). A command runs on beside the replay that may start it again, and
`OwnChildrenAreListed` says nothing of it (`host.orphans`).

*Files.* `read_file` makes its ledger entry before it looks at the offset (`file.ts:81`,
`:86`): a call that returned only an error lets the next edit through, although the edit
tool "will error if you attempt an edit without reading the file" (`definitions.ts:35`).
A part of a file that was read, or lines that were cut, open the gate for the whole of
it (`file.ts:87-91`). An outside write between a read and its stat, after the gate, or
with the same size and no newer time is not noticed. The ledger's key is the path in
lower case (`file.ts:43-45`), so two files that differ in case only share an entry.

*Console.* A question of an Executor that died stays open and takes the next line as its
answer (`console.ts:58`); the turns end all the same.

*Headless.* After `/halt` in a prompt file a further prompt starts no turn and
the wait for its end does not settle: the run hangs (`headless.ts:81`). The same
holds for a turn that ends by an exception (`agent.ts:247`). A refusal and an
output limit exit with 0.

*Debug.* `close` does not reject waiting writes, so `flush` ends by its deadline;
a second connection of a viewer fails the link.

*Self test.* An interrupt while an adapter is awaited, or between the two trips
of category 06, is not heard; a later timeout is then taken for it. A call that
times out or throws is not charged. A category that throws loses the results it
had, not their cost. A second trip that is cut off after some text passes.

## 6. Plan

1. The Supervisor as a child of the Communicator: its restarts and the guards
   that fail open meanwhile.
2. `AgentTurn` with `Gate` in place of the gate's answers.

## 7. Not modelled

Configuration, migration, prompt assembly, admission and rendering transform text
once and keep no state that the system decides on. Wire formats of the providers,
prices and usage are data. Search, web and document tools change nothing of the
system. Terminal widgets, session listing and settings commands are dialogue. The
MAC and the lock of the memory files, and a line torn in the middle, are left to
tests: a torn line merges with the next one that is appended.

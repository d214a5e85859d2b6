# Verification of signal-ha

TLA+ models of the Rust workspace in `src/`, model-checked with TLC and, where it
matters most, proved with TLAPS. signal-ha is a set of crates for home automation
processes that talk to Home Assistant: a shared WebSocket client, lighting logic
that must behave well while lights come and go, embedded agents that let a language
model look around the house, a recorder, and a message board.

## 1. The system

Paths are relative to `src/crates/`.

| component | state it keeps | operations | what makes it correct |
|---|---|---|---|
| **WebSocket client** `signal-ha/src/client.rs` | id counter, command channel (64), reply channels, maps `pending` and `subscriptions`, sticky disconnect signal; two tasks | send with timeout, subscribe, writer and reader loops | every answer reaches its caller, every call returns, no event is lost for want of its subscription, a loss is signalled to everybody |
| **Light reconciler** `signal-ha-lighting/src/reconcile.rs` | timer handle and retry count per entity, handle of the reconcile-all timer | change event, schedule, timer fired, reconcile all, reset | a light that recovers is reconciled; the timers set are those it can cancel; retries are limited |
| **Light actuator** `…/actuator.rs`, `target.rs` | time of the last apply and of the last write per light | apply, reset | the lights come to show the targets; no needless commands |
| **Light overlays** `…/overlay.rs` | snapshots while an overlay is active | enter, exit | leaving brings back what was there before the first mode |
| **Agent session** `signal-ha-agent/src/session.rs`, `conversation.rs` | cancel channel, trigger permit, turn and repetition counters | spawn, trigger, stop, sleep, run a session | triggers are served, stop ends it, sessions are bounded and recover from lost connections |
| **Agent engine** `…/engine.rs`, `signal-ha-shell/src/repl.rs` | the Python REPL, suspended at a call or held | evaluate a snippet, resume it with an answer | a snippet ends, and leaves the session's definitions behind |
| **Agent host access** `…/ha_host.rs` | the client in use | fulfil a call, reconnect, retry once; list, read, write, answer and close posts on the board | an answered call is not made again (but for errors that are taken for a lost connection), a finding is not posted twice |
| **Agent memory** `…/memory.rs` | content in the process, file | load, save | a saved memory is remembered |
| **Power state machine** `signal-ha/src/power_fsm.rs` | state, average, debounce times, peak | update | cycles are debounced, end, and keep their peak |
| **Scheduler** `…/scheduler.rs` | nothing between two ticks | streams of sunrise, sunset and a local time | one tick per day, for offsets that are not negative |
| **Recorder** `signal-ha-recorder/src/recorder.rs`, `filter.rs` | a bounded channel per entity, statistics | fill in, subscribe, poll, write | it records what the filter admits, accounts for what it misses, and ends up with the newest |
| **Record store, curator** `…/sqlite.rs`, `mysql_store.rs`, `curator.rs` | rows with deletion flags; live table, snapshot, archives | record, query, flag, unflag, preview, prune, report, rotate | flags stick; only old rows go; a preview says what flagging does; a rotation that fails anywhere loses nothing |
| **Status pages** `signal-ha/src/status.rs` | values by section, evaluations | setters, requests | a request shows the last evaluation and all that was told before |
| **Dashboards** `…/dashboard.rs` | nothing; Home Assistant keeps them | ensure, list, create, save, delete | two deployments that race both get through |
| **Message board** `message-board/src/*` | posts and replies behind one mutex | create, list, get, update, reply | requests take effect one after the other, and nothing committed is lost |
| Lighting helpers, answer parser, conversions, legacy tools, Python bindings | none | pure functions | - |

**Interaction.** Tasks clone the client and call it concurrently; the loops behind it
share the two maps under a mutex each. An automation waits in a `select!` for
subscribed changes, timers and the disconnect signal, and exits on the latter to be
restarted. It calls the lighting objects itself, which are plain data behind `&mut`
and reach Home Assistant and the scheduler through traits. An agent is a task of its
own: it shares the automation's client at first and replaces it with a new one in its
`HaHost`; its conversation holds a client for the length of a session.

**What is hard.** Calls that interleave between drawing an id and being written; two
loops that end independently, each with a share of what callers wait for; answers
after timeouts; a signal raised while its listener is busy; timers that are replaced,
cancelled or fire late; commands on their way while a light is read; stop and trigger
in the middle of a session; a process that ends while it writes its memory; a rotation
of tables that may stop between two statements; several statements of one request
that commit by themselves; receivers that lag; clocks on days without a given hour. The list,
by line, is `hazards` in `PROJECT.json`.

## 2. The modules

| module | models | composed of |
|---|---|---|
| `RequestReply` | abstract: what a caller of the client may rely on | |
| `HaClient` | the client, Home Assistant and the transport | implements `RequestReply` |
| `HaClientProofs` | theorems about `HaClient` | |
| `Reconciler` | the reconciler, its scheduler, the lights' availability | |
| `ReconcilerProofs` | theorems about `Reconciler` | |
| `Lamps` | external: lights that carry out commands late or not at all | |
| `Actuator` | the actuator and its clock | `Lamps` |
| `Overlay` | overlays | `Lamps` |
| `Lighting` | an automation with both on the same lights | `Actuator`, `Overlay` |
| `AgentMemory` | the memory and its file | |
| `HaHost` | the agent's client, reconnect and retry | |
| `Agent` | agent task, session, engine | `HaHost`, `AgentMemory` |
| `RecordRows` | the table as a set of rows; what each statement makes of it | |
| `RecordStore` | abstract: what the trait promises of live table, snapshot and archives | |
| `MysqlStore` | the tables of the server, the rotation by its statements | `RecordRows`; implements `RecordStore` |
| `Recorder`, `Recording` | the recorder process on a store that is rotated | `MysqlStore` |
| `Curator`, `Curation` | the curator's tools and reports on such a store | `MysqlStore` |
| `PowerFsm`, `Scheduler`, `StatusPage`, `Dashboard` | the parts of an automation | |
| `Automation` | an automation that uses them, or looks after lights | all four and `Reconciler` |
| `FindingsBoard` | abstract: a board that serves one request after the other | |
| `MessageBoard` | the handlers, statement by statement | implements `FindingsBoard` |
| `Findings` | agents and people who use the board | `MessageBoard` |
| `AgentProofs`, `LightingProofs`, `RecordingProofs`, `CurationProofs`, `AutomationProofs`, `FindingsProofs` | theorems about those modules | |
| `MC…` | the instances TLC checks | |

### HaClient

A call is named by the id it drew. `Begin` draws it, `Enqueue` gets a slot in the
channel, and then the call waits: the two are separate steps because the code awaits
between them (client.rs:462-475). `Receive` and `Timeout` end a request; a
subscription has no `Timeout` (350-389). `WriterRegister` and `WriterSent` are
separate because the write is awaited after the registration; so are `ReaderDrain`
and `ReaderBail`, between which the reader holds the mutex of `pending`. A write (`WriterSent`) may take for
ever, for it has no timeout; after the reader took a close frame (`CloseTaken`) the transport refuses
it, as tungstenite does. `Dropped`
says what becomes of a caller when its sender is dropped, and `WriterGone` and
`ReaderGone` drop the maps only when both loops have returned: that is how long the
shared `Arc`s live. `Outcome` is what a call makes of its reply; a subscription does not
recognise the reader's error marker and takes it for a rejection.

Home Assistant (`HaHandle`, `HaEvent`) handles commands in any order and sends answers
of any size; the connection may be closed or break at any moment, with frames still to
be read. `executions`, `accepted` and `lastSent` are history variables.

### Reconciler

One action per method. The change events of an entity are handled in order but late
(`news`), so that a timer may fire on a state no event has announced yet.
`SetTimer` is `schedule` after a given number of failed attempts; `owed` remembers that an
entity has recovered and was not reported ready since. Home Assistant's strings are reduced to
available or not; a change event with the same availability before and after does
nothing in the code and does not occur.

### Lamps, Actuator, Overlay, Lighting

A light has a power state, a brightness and a colour temperature, 0 where it has or
reports none, as the code reads them. Commands are on their way (`order`) until the
light obeys or, unreachable, loses them; a new command replaces one on its way. People
operate lights (`Touch`). Times are kept as ages up to the interval they are compared
with. `Lighting` lets the two components run side by side, which the crate leaves to the
automation.

### Agent

The task's place `at` is a program counter over `agent_loop`, `run_session` and
`eval_python`. Sessions: `LoadMemory`, `BeginConversation` (takes the client from
`HaHost`), then turns: `LlmAnswers` or `LlmFails`, the blocks, `TurnEnds`. Snippets:
`EvalPython` covers `start()` and `feed()`, which `start()` may follow from the top. `HaHost` is
stepped while the snippet is suspended. `TakenForLost` is its fallback for errors that the `?` operator
wrapped: it compares texts, so that an error that Home Assistant answered may be taken for a lost
connection, and the call is made again. `Restart` may come at any
moment and leaves the memory file as it is. `select!` takes any branch that is ready.

### RecordRows, MysqlStore, Recorder, Curator

The unique index makes entity, time and state a key, so a table is a set of rows.
`RecordRows` has one operator per statement, written from the SQL; those of the two back ends
are the same but for the rotation. `MysqlStore` names the tables: `CreateNew`,
`CheckPrior`, `Rename` and `RotationEnds` are the statements of `rotate_for_curation` and its
return, from any place, with an error; a crash of the process that rotates does the same. The recorder and a
rotation of its own store exclude each other by the write lock, other stores do not
(`Unlocked`). `DropLeftover` is a person who clears `state_log_new`. The recorder's
`GlobMatch` follows `filter.rs` piece by piece; `Admits`, what a star means, is the
reference it is compared with. A report of the curator is a list of statements, read one by
one (`ReadOn`).

### PowerFsm, Scheduler, StatusPage, Dashboard, Automation

`Update` is `update()` with time counted in the automation's ticks and the moving average in
integers. The clock of `Scheduler` is the hour of the day and the time to the target; a day is
plain, or odd, when a local time is missing or comes twice, on which `at()` panics and
`Revive` starts the process anew. `streak` and `fires` are history: what the readings really did, and
the times between two ticks. `Dashboard` lets every request be refused, fail, or be carried
out with its answer lost. `Automation` is the loop of
`docs/getting-started.md`: it pushes its dashboard, then follows an appliance or a stream and
tells its page, one call of a setter at a time, or looks after lights with a reconciler
(`LookAfterLights`, any step of `Reconciler`). The validation of card types, which only warns, is left out.

### MessageBoard, Findings

`holder` is the handler that has the mutex, with the statement that comes next; each
statement may be the last one that works (`StatementFails`), or the last before the process ends
(`RestartBoard`). `FindingsBoard` serves a request in one step, and for one that is not completed
it allows what some of its statements do (`Partial`). An agent lists its open posts, fetches each of
them, is prompted, and then calls what it likes; people reply, edit and close.

## 3. The runs

| run | expects | shows |
|---|---|---|
| `client` | pass | routing, refinement of `RequestReply`, liveness and signalling of the client |
| `client_ids` | violation | ids can be written out of order |
| `client_hang` | violation | a subscription that was written before the peer closed, and is not answered, hangs for ever |
| `reconciler_gives_up` | violation | a light that was away for all retries is not reconciled when it comes back |
| `lighting` | pass | convergence to targets that can be shown, quiescence for those that suit, restoration |
| `agent` | pass | stopping, triggering, retries, memory |
| `recording` | pass | the filter, the accounts of what is missed, the newest change, no deadlock with a rotation |
| `curation` | pass | flags, previews, reports, retention; refinement of `RecordStore` |
| `automation` | pass | cycles, daily ticks, the status page, racing deployments; timers of lights are the handles, retries are limited, a recovery within the limit is reconciled |
| `early_timer` | violation | a stream with a negative offset does not fire once a day |
| `findings` | pass | no finding twice, replies are heard; refinement of `FindingsBoard` |
| `agent_comes_back` | violation | an agent whose client died never gets another |

The violations are disagreements between code and documentation, each quoted in
`findings` of `PROJECT.json`.

**Bounds, and why they are enough.**
- *Client*: two calls, a channel of one place, two frames in flight (45,000 states).
  Two calls are what overtaking and a full channel take; each of them may be a
  request or a subscription, may be lost, rejected or too large. `MaxCalls` and
  `InboxBound` are guards of `Begin`, `HaHandle` and `HaEvent`. The run allows a
  deadlock: a system whose last client is gone, or whose ids are used up, stops. The
  theorems hold without the bounds.
- *Lighting*: a light with a colour temperature and a dimmable one, the attribute of
  interest on the target, within the deadband and outside, a target without a temperature, `MinApply` 1 and `PerLight` 2,
  lists of both lights or of the dimmable one, overlays of the other, one effect (146,000
  states). The intervals differ so that each limit suppresses what the other lets
  pass, and the shorter list lets one call hold up another through the limit they share.
- *Agent*: two turns, one block per answer, one host call per block, three connections, as
  many as the automation, the conversation and `HaHost` can hold together; the repetition limit is the
  code's (239,000 states). A second block or call repeats what the first one does from the same state.
- *Recording*: an entity the filter admits and one that it must not, spelled so that the two ends of
  the pattern would overlap on it (with two stars the property does not hold, see
  section 5); a channel of one place and three changes, so that it overflows; one
  failed write, one start, three rotations (so that a leftover table and an archive in the
  way are met), one tick. Deadlock is allowed: with the bounds used up and the channels empty
  nothing is left to do.
- *Curation*: two entities of two domains, two rows per table, one reason, one tick between a
  row's time and the present, with ages 0, so that a row can be at, before and after
  each boundary; `keep_every_n` absent or 2; one report and one rotation. Deadlock is allowed as above. The
  theorems hold for any rows, ages and number of rotations.
- *Automation*: thresholds 4 and 10 with readings of -1, 6 and 20, below both, between and above,
  debounce times 2 and 3 ticks with up to two ticks between readings; a day of four hours
  with sunrise, a local time and sunset, and offsets -1, 0 and 1; two lights, two retries, two events
  on their way per light, four handles, so that one is always fresh; two deployments, two faults and one
  use of the manager by others. The loop is followed only after a start without faults
  (`EnterLoop`), for the two share nothing, and is about one thing, for the things it may be about share
  nothing either (160,000 states). Two lights are what it takes to confuse handles. Deadlock is allowed: a start that others spoilt may stop.
- *Findings*: one agent that is also given `board_get_all_posts`, one person, two posts,
  one reply, two texts that are alike (606,000 states). A person between any two
  statements, requests and sessions of the agent is what it takes for replies to be missed; the
  refinement is proved for any number. Deadlock is allowed: the bounds stop the calls.

The type invariants of the client, the reconciler, the lights, the agent, the recorder and the tables
are not properties of a run: they are proved.

**Fairness.**
- *Client*: both loops and all woken tasks are polled, timers fire; `Enqueue` is strongly
  fair because the channel's permits are handed out in order. A write over a connection that was lost
  fails if the transport does not take it. Nothing is assumed of Home Assistant, not even that it reads:
  `WriterSent` is not fair, for the write has no timeout (client.rs:541). `RequestsReturn` therefore
  promises the return of a request that has its slot of the channel, and of one that still waits for it
  only if no write is held up for ever.
- *Lighting*: the automation applies its targets again and again (the crate is written
  to be called so), time passes, a light in reach obeys. `Apply` of all targets is strongly
  fair: a call that writes starts the limit for every other call, so an automation that
  applies part of its lights each time first, one of them unreachable, never gets
  to apply the rest. The code does nothing against it; fairness assumes that the
  automation does not do so. The liveness properties are about lights left alone from
  some time on: every later step is `Quiet`, of the actuator, the clock or a light that obeys.
- *Agent*: steps with a timeout or without waiting end. Not fair: Python evaluation (the
  interpreter has no limit), calls over HTTP and connecting (no timeout), fetching
  the prompt. Properties except a session that is stuck in one of these (`Stuck`).
  `WakeTriggered` is strongly fair: a stored permit is consumed when `select!` begins to
  wait, while the timer starts anew. `Exit` is fair: an automation leaves when
  its own connection is lost.
- *Recording*: the loop of `run()` polls every channel in turn, and the statements of a rotation
  return. Nothing is assumed of the recorder's other waiting, of Home Assistant or of the person.
- *Automation*: a process that failed is started again by systemd, requests return, the loop
  comes round and time passes. Events of the lights are delivered, and timers fire unless cancelled or replaced.

## 4. What is proved

For all values of the constants that satisfy the named assumptions.

- **`HaClientProofs`**: `TypeCorrect`; `AnswersFindTheirCallers`,
  `EventsFindTheirSubscriptions`, `SendersAreHeld`, `EndsAreSignalled`; and
  `Refinement`, that the client implements `RequestReply`. None of the properties is
  inductive. That an answer finds its caller depends on its command having been registered
  before it was written, which depends on its never having been queued twice, so `IInv`
  follows a call through all its places: not yet queued (`IdsInv`), in the channel (`QueueInv`), in the
  writer's hands (`CurrentInv`), carried out (`ExecInv`), answered (`InboxInv`), and,
  while the reader runs, registered (`RouteInv`, `SubsInv`); `SenderInv` says where the
  reply sender of a waiting call is. `NextIInv` has one step per action and one per
  conjunct under it. Sequences are seen through `Members`, `Distinct` and
  `OneAnswerEach`, with a lemma for what `Append` and `Tail` do to each.
- **`ReconcilerProofs`**: `TypeCorrect`, `TimersAreExactlyTheHandles`,
  `RetriesAreLimited`. `HandlesAreTimers` needs `HandlesDistinct`: cancelling by handle
  removes one timer only if no two share it. `SetTimerCore` does the work once for
  the three operations that schedule. `RecoveriesAreLookedAfter`: a light that recovered and was not
  reported ready since has its event on the way or a timer set, unless its retries are used up. An event may be
  stale when it is read, so `NewsIsCurrent` says that the last of those on the way tells how the light is. The theorems are about `ReconcilerSpec`,
  and `LightsAreLookedAfter` (in `AutomationProofs`) shows that every behaviour of an automation is one of it.
- **`LightingProofs`**: `TypeCorrect` and `OverlaysRestore`. Restoring needs
  that the snapshots are those taken when the first mode was entered (`FirstSnapshot`), that a
  snapshot is something the light can show (`SnapshotsOK`), and that commands are within
  what a light has (`OrdersOK`). Assumes that the commands of the effects are commands and that no
  value of an attribute is one of the markers. `InLineForGood`: a light whose target suits it (`Suits`), that has come to it and
  is left alone, stays there and is not commanded any more, whatever the targets of the others. It rests
  on `MatchIsInLine`, that what the actuator compares is what the light should show. Without `Suits` it is not so: a
  light that can only be on or off never matches a target with a brightness, and one with a temperature none without.
- **`AgentProofs`**: `TypeCorrect`, `AnswersAreFinal`, `StopLeavesOneSession`,
  `SavedIsRemembered`. The invariant adds that a call in progress was
  not answered for good, that a session begun after `stop()` is the last thing the task does, and that a
  save reported done is what the file holds. `SessionsEnd`: each step of a session ends it or
  makes `Work` less, which is seven numbers in the order of a lexicon: turns left, the way to the answer, blocks,
  the beginning of a block, calls of the snippet, attempts at a call, requests of the attempt. `LessHasAnEnd`
  proves that this order has no infinite descent.
- **`CurationProofs`**: `Refinement` of `RecordStore`, `FlagsAreKept`, `RowsVanishRipe`,
  `TypeCorrect` and `ReplacementIsEmpty`, on which the others rest: the rename puts an empty
  table in place of the live one only because nobody writes to `state_log_new`, and a rotation that
  found a prior snapshot must find it there still. Statements that change rows are treated once, as an
  edit of one table (`Edited`). `RecordStore` takes the statements as parameters, so that the refinement is
  about which table they meet and when. What they compute is the subject of
  - `AggregatesAddUp`: the folds of the reports are sums over finite sets (`SumOf`, `FoldsAreSums`), and
    sums over the parts of a set add up to it (`PartsAddUp`), for the domains, the reasons and the buckets
    of age, of which each row is in one (`OneBucket`);
  - `PreviewIsTrue`: the rows by time are a numbering of them (`ByTimeIsInOrder`), so that the rows
    spared are as many as their places (`ThinnedCount`), and these as many as the quotient that the preview
    computes (`NthCount`);
  - `ReportsAreConsistent`: `ReportInv` keeps, beside the report, the rows that there were when it began.
    They are among those there are now, what came since has no flag, because the curator has nothing else in
    hand, and each number lies between what its statement would have counted then and what it would now. Sums of
    such numbers lie between as well (`SumsGrow`).

  Where an induction over sets or numbers is called for, the proof takes the least set or number that would
  be a counterexample (`Least`, `LeastNumber`), for the library's induction theorems cannot be instantiated.
- **`RecordingProofs`**: `TypeCorrect`; `NewestIsKept`, for which the newest change of an entity is the last in
  its channel until it is polled and is then in a table, which no statement of a rotation loses: the renames
  move tables, and the one they drop is empty; `AccountsAreKept`, which counts what waits as the elements of a
  set, one for each place. `FilterIsExact`: on every text, the matcher and the meaning of its pattern agree while
  the pattern has one star or none. What the first characters of the pattern reach is, before the star, the one
  place where they end (`ReachBeforeStar`), and behind it every place that follows what comes after the star
  (`ReachAfterStar`). With more stars they do not agree (section 5). `OnlyMatchesAreRecorded` rests on it.
- **`AutomationProofs`**: `TypeCorrect`. `DebouncedCycles` and `HighestPeak`: the machine's counters are related
  to what the readings did (`Counted`), and its peak to the highest average since. `FiresOncePerDay`, whatever
  the offsets, for a stream whose own is not negative (`OnTime`; `early_timer` shows why not for the others): the time a stream sleeps until is related to the clock and to what has fired, and an
  automation that is behind by at most half a day (`Late`) comes back before the next time.
  `PageIsTrue`: between two evaluations the rows of the page are those of the last one.
  `DeploymentsShow`: the dashboard that a process is through with shows the config of one of the
  processes, and no other dashboard is touched. `LightsAreLookedAfter`: `Spec => ReconcilerSpec`.
- **`FindingsProofs`**: `Refinement` of `FindingsBoard`, `NoFindingTwice` and `NoReplyGoesUnheard`. `Progress` says,
  for each request and each statement that comes next, what the handler has made of the tables that
  it found; while a handler holds the mutex, the callers see what it found (`Seen`), and
  when it returns, fails or the process ends, what it has made. `NoFindingTwice` counts the posts of an agent
  together with the one that it is owed (`CountInv`): only inserting turns one into the other.
  `NoReplyGoesUnheard` follows a session that gets all it asks for (`HeardInv`): the replies it is due are on posts that
  were open when it listed them, and those it was not told of yet are on posts that are left to fetch or in
  the answer it waits for. The lists that the board answers with leave nothing out (`NoneIsLeftOut`).

Assumptions that a reader may not expect: a channel of the recorder has a place, `keep_every_n` is at most one number
(it is an `Option`), the bounds of age ascend, an automation is behind by half a day at most, patterns of the
recorder's filter have one star or none (in `FilterIsExact` and `OnlyMatchesAreRecorded`).

Every safety property of the runs is proved. Only model-checked is what needs fairness: `RequestsReturn`,
`SubscribersReleased`, `LossIsSignalled`, `RecoveryIsReconciled`, `Converges`, `Settles`, `StopEnds`, `TriggerIsServed`,
`ChangesAreDrained`, `EndsAreNoticed` and `DeploymentsSucceed`. The prover has no rule for `ENABLED`, and without it
none for what must eventually happen. What some of them need besides fairness is proved as safety:

| property | what it rests on |
| --- | --- |
| `SubscribersReleased` | `SendersAreHeld`: with both loops gone nobody holds the reply sender of a call that waits |
| `LossIsSignalled` | `EndsAreSignalled`: a loop that ended has raised the signal |
| `RecoveryIsReconciled` | `RecoveriesAreLookedAfter` |
| `Converges`, `Settles` | `InLineForGood`: what was reached is not left again |
| `StopEnds` | `SessionsEnd`: a session has finitely many steps |
| `ChangesAreDrained` | `AccountsAreKept`: what is not recorded or counted is still in a channel |
| `DeploymentsSucceed` | `DeploymentsShow`: success means that the dashboard is there |

## 5. What is not modelled

- Connecting, authentication and the REST calls of the client. They have no timeout, so a
  peer that accepts and says nothing holds an automation at its start (client.rs:118).
- Which statements of a snippet run again when it is started over, and the validation of card types.
- Text: prompts, transcripts, log messages, the reason entity, Markdown parsing,
  Python values and their JSON.
- Colours other than the temperature; transitions; the signature, which the actuator
  computes and does not use to decide.
- The waiting on the read-write lock in `HaHost`, which matters only when several tasks
  share a host: it is held while an answer is awaited (ha_host.rs:200).
- The functions of `HaHost` other than those of the board: each reads once and shapes what it finds.
- In `Curation`, statements of two tools at once (the curator runs one at a time), and SQLite, whose
  statements are the same under a mutex and which does not rotate.
- Sums and durations of a power cycle; the drift of the sun's times; clocks that are set.
- The components marked *not modelled* in `PROJECT.json`.

Disagreements met while reading; unless a run is named, none shows them, because they are about data
or wording:
- `docs/crates/signal-ha-agent.md` calls agents read-only until `call_service` is removed
  from `disallowed_calls`; the gate (engine.rs:416-425) matches `domain.service` pairs
  only and the list is empty by default.
- The shell's host call sends `service_data`, `ha_host.rs:651` reads `data`.
- `run_session` says it returns the next interval and always returns `None`;
  `schedule_next_session` only logs. The default interval is documented as a day
  (session.rs:65) and is `Duration::MAX` (128).
- `session_count` of the memory counts saves.
- `repl.rs:13-15` says the REPL is preserved whatever happens; it is lost with too many
  host calls (engine.rs:177-182) and with an unknown function (527-530).

*Client*
- A peer that stops reading holds up the writer for ever (client.rs:541 has no timeout). The command channel
  fills, and a call then waits for its slot outside its timeout (468-475), for ever as well. It is in the model, and
  `RequestsReturn` says what is left.

*Agent*
- `reconnect` is documented to be "called automatically when a host call fails due to a dead connection"
  (ha_host.rs:124). It is also called for an error that Home Assistant answered if its text contains
  `Connection closed`, `channel closed` or `WebSocket error` (177-190), and the call is made again.
  `AnsweredIsFinal` leaves out such answers.
- A snippet that reaches an external call only through a function of an earlier snippet runs its
  beginning twice: `feed()` runs it, fails at the call, and `start()` runs it again (engine.rs:133,
  repl.rs:76-79).
- `read_transcript("porch")` also matches the files of `porch-lights`, which sort last, takes the
  oldest for an index beyond the end, and cuts at byte 50,000, which panics inside a
  multi-byte character (ha_host.rs:933-985); so does the reason of the reconciler at byte 255
  (reconcile.rs:287).
- `get_area_entities` lists an entity that is assigned to another area when its device is in this one.

*Lighting*
- A target without a colour temperature is compared as 0, so a light that has one is written at
  every interval (actuator.rs:236, 250; actuator.rs:5 and 70 say otherwise). The run has such a target, and
  `Settles` leaves it out (`Suits`).
- A light that is out of reach when an overlay begins is not restored (overlay.rs:246, on purpose).
- Calls with different lists share one limit, so that one can starve another (actuator.rs:125).

*Recording*
- `run` is documented to return on a disconnection (recorder.rs:127) and does not: a closed
  channel is logged every 50 ms (188).
- `records_skipped` counts what a receiver missed as well; `records_written` counts
  duplicates that were ignored. If every subscription fails the loop runs on with no channels.
- Changes between the fetching of the states and the subscription are lost, and entities that
  appear later are never subscribed to.
- `a*b*b` matches `ab`: the parts between stars may share characters with the end, which is compared first (filter.rs:76).
  `OnlyAdmittedRecorded` is therefore checked for patterns with one star.

*Store*
- `migrate` creates an index on `deletion_reason` before it adds the column, so that a table from
  before it fails (sqlite.rs:65).
- A preview without `keep_every_n` says 0 and `flag_entity` flags all (curator.rs:191). Thinning twice
  thins twice.
- A table that a rotation leaves behind makes every later one fail until somebody drops it. After a
  rotation a record that comes again is inserted again, for the index is that of the new table.
  The write lock belongs to a store object, so it excludes nothing between two of them.
- The age report is documented with a bucket "> 30 d" and has 90 d; summaries leave out entities with one
  row; MySQL's collation compares states without case.

*Timing*
- With a negative offset a stream of the sun fires again and again until the event has passed
  (scheduler.rs:128; docs/getting-started.md:113 uses one): `early_timer` shows it, and `OncePerDay` is about
  the other streams.
- A daily stream panics on the day before one on which its time is missing or comes twice (165).
- The first reading's interval counts; the end of a cycle is judged by the average and may be found
  while readings are above the running threshold; `started` is the time of the confirmation.
- The countdown of a status page goes stale when the loop is stuck.

*Message board*
- Its documentation lists `/health` and `GET` replies, which have no routes, and other field names.
- The two statements of an update commit separately; an error of the database is answered with 404.

## 6. What could come next

- `Connect`: the handshake of the client with its missing timeouts, and an automation that
  comes back through it.
- Two curators at once, and a curator beside an agent that reads the record.
- Patterns of several stars in `FilterIsExact`, once the matcher compares the end of a text last.

# Rust-TR069: specification and proofs

TLA+ specifications of the dual-stack auto-configuration server in this
repository: a Rust worker (`src/rust-core`) that speaks CWMP (TR-069, HTTP) and
USP (TR-369, MQTT) with devices, a FastAPI service (`src/python-api`) for
operators, and a PostgreSQL schema with a trigger (`src/postgres/init.sql`).
TLC checks the specifications on small instances; TLAPS proves their safety
properties for every instance.

Contents: [the system](#the-system) · [plan](#plan) · [modules](#modules) ·
[runs](#runs) · [disagreements](#where-code-and-documentation-disagree) ·
[fairness](#fairness) · [bounds](#bounds) · [proofs](#proofs) ·
[abstractions](#abstractions) · [not modelled](#not-modelled)

## The system

| component | state | operations | talks to |
|---|---|---|---|
| Pending command queue (`cpes.py`, `main.rs`, `init.sql`) | rows of `cpe_pending_commands`: status, result, `created_at`, `dispatched_at`; row locks | POST commands, POST reboot with MQTT publish and compensation, PATCH status, DELETE CPE (cascade), dequeue (`FOR UPDATE SKIP LOCKED`), settle by RPC response | API, CWMP handlers, device, broker |
| CWMP server (`main.rs` 690-989) | `session_cache` by IP address, the live rows, the cookies of devices | classify a body (Inform, empty POST, response), resolve whose it is | device, queue, channel |
| Telemetry ingestion (`main.rs` 518-680, 991-1140) | MQTT session, bounded MPSC channel, the sink's update and attempts, the shutdown watch | poll, enqueue within 500 ms, receive, auto-provision, upsert with retries, drain and exit | broker, devices, PostgreSQL |
| Inventory (`cpes.py` 37-138) | rows of `cpe_inventory`: primary key, unique serial number | register (read, then insert or update), delete with cascade | sink, queue |
| Decoders and live state (`main.rs` 70-387, `cwmp.rs` 226-427, `main.rs` 485-516) | the `telemetry_metrics` and `current_parameters` columns of `cpe_live_state` | decode JSON, USP, Inform; merge (jsonb concatenation) | sink, trigger |
| Reconciliation trigger (`init.sql` 124-237) | `cpe_historical_metrics` | compare the optical power of the old and the new row, append | live state |
| Inform parser (`cwmp.rs` 64-427) | the document, the cursor in its parameters, what has been found | repair namespaces, identify the device, read the parameters, `parse_optical_power` | CWMP server, decoder |
| SOAP documents (`main.rs` 748-784, `cwmp.rs` 429-551) | none: functions of a command | make an RPC of a command, write envelopes | CWMP server, device |
| Health monitor (`main.rs` 394-463) | `HealthState` flags, `/tmp/healthy` | every 2 s: probe, decide, write or remove | MQTT task, sink, container health check |
| API read endpoints, health router, configuration, scripts, limits tool | none that other components read | | |

How they interact. A device's report reaches PostgreSQL either as an MQTT
message or as an Inform; both become an update in one bounded channel, which
one sink empties into `cpe_inventory` (auto-provision) and `cpe_live_state`
(merge). The trigger on the live row writes the history. Independently, an
operator queues a command through the API; the device fetches it in a CWMP
session with an empty POST, executes it and answers; the answer settles a row.
The worker and the API share nothing but the database and the broker.

### What is hard, and what correctness means

*Command queue.* Two CWMP requests of one device can overlap (a device that
timed out sends again), the API writes the same rows without locks, and the
worker identifies the command a response belongs to by `dispatched_at` alone.
Correct: one queueing of a command is dispatched once; a result is stored with
the command it answers; a settled row stays settled; a reboot that was refused
is gone; a lock left behind lets no younger command overtake; a pending
command is served, and a caller who waits for a lock is answered.

*CWMP sessions.* Only the Inform names the device. What follows is attributed
by cookie, by address, or by the live rows, while addresses are shared (NAT)
and move (DHCP). Between the request, its resolution, the UPDATE and the next
dequeue other sessions, deletions and restarts go on. Correct: no device that
the server can know executes a command from the queue of another one, or
settles one of its rows.

*Telemetry.* Back-pressure with a 500 ms limit, three attempts per upsert,
reconnects, graceful shutdown along a chain of tasks, crashes. Correct: what is
accepted is merged once its turn comes or is given up for a reason, in order;
shutdown drains and ends.

*Inventory.* The sink provisions a device in one statement and upserts in
another, and the API registers and deletes between them. Correct: the foreign
key fails only for an explicable reason; what an operator has registered is not
overwritten by what a device reports.

*Live state, trigger, power.* The merge of JSON columns meets values of every
type, and a repeated upsert meets a trigger that appends. Correct: a power that
appears is recorded, once, and does not leave its record by more than the
threshold per report; parameters do not get lost; a text is never read as
a power it does not say.

*Inform parser.* Documents of real firmware are damaged, and their parameters
compete for one field. Correct: what can be repaired is accepted and nothing
else; the last readable power of its kind counts; a WAN address outranks a URL.

*Health.* A probe, two flags set by other tasks, and a file that outlives the
process. Correct: the file is written on evidence; a lasting outage shows,
unless the worker keeps restarting with an old file nobody removes.

`PROJECT.json` lists every hazard at the line where it bites, with the
properties that cover it.

## Plan

The order follows how much can go wrong with several actors.

1. `CommandQueue` and its proofs. *Done.*
2. `TelemetryPipeline` with the abstract specification `TelemetryDelivery`. *Done,
   with proofs.*
3. `CwmpSession` and its proofs. *Done.*
4. `LiveState` (decoders, merge, trigger). *Done, with proofs.*
5. `OpticalPower` and `HealthMonitor` and their proofs. *Done.*
6. `CwmpServer`, the composition of sessions and queues: devices behind one
   address, each with its queue. *Done, with proofs.*
7. `CommandLife`, the abstract life of a row, implemented by the queue. *Done,
   with the proof.*
8. `InformParser` on top of `OpticalPower`. *Done, with proofs.*
9. `CommandRpc`, the documents the server sends. *Done.*
10. Proofs of what the runs `queue_service`, `telemetry`, `live_state` and
    `cwmp_server` check: the order of the queue (`CommandOrderProofs`), the
    pipeline and its step simulation (`TelemetryPipelineProofs`), the live row
    (`LiveStateProofs`), the types of sessions and server. *Done: every
    invariant and every action property of a passing run is a theorem.*
11. Left: the columns of a PATCH that are not modelled (time stamps, result),
    under which the theorems of `CommandOrderProofs` would need one more
    condition.

## Modules

| module | models | checked through |
|---|---|---|
| `CommandQueue` | the rows of one `cpe_id`, their four kinds of users | `MCCommandQueue` |
| `CommandLife` | abstract: the life of a row, every operation in one step | as a property, and in `CwmpServer` |
| `CommandQueueProofs` | type correctness, selection, dispatch, refusal, rewinding, refinement | TLAPS |
| `CommandOrderProofs` | which row a response settles, which one a dequeue takes | TLAPS |
| `TelemetryPipeline` | from a published report to the live row | `MCTelemetryPipeline` |
| `TelemetryDelivery` | abstract: what the pipeline promises | as a property |
| `TelemetryPipelineProofs` | types, ledger, foreign key, order, step simulation | TLAPS |
| `CwmpSession` | whose request it is, and what it is taken for | `CwmpServer`, itself |
| `CwmpServer` | sessions over the queues of several devices | `MCCwmpServer` |
| `CwmpSessionProofs` | types; no mix-up with a cookie or a fresh Inform | TLAPS |
| `CwmpServerProofs` | types, refinement, routing of commands and results | TLAPS |
| `LiveState` | decoders, merge and trigger for one device | `MCLiveState` |
| `LiveStateProofs` | types, history, retries, parameters | TLAPS |
| `OpticalPower` | `parse_optical_power`, a part of `InformParser` | `InformParser` |
| `InformParser` | `parse_inform` | `MCInformParser` |
| `InformParserProofs` | every document, every decimal, every integer | TLAPS |
| `CommandRpc` | the RPC of a command and the documents sent | itself |
| `HealthMonitor` | monitor, flags, file, process | itself |
| `HealthMonitorProofs` | the file is written on evidence | TLAPS |

Definitions keep the names of the source where there is one. Operators whose
comment begins with *Defect* are variants of the definition next to them, the
way a plausible mistake would have it; `PROJECT.json` ("mutants") pairs each
property with a variant that TLC finds to violate it. They are used nowhere
else.

### CommandQueue

One instance is the queue of one device: every statement filters by `cpe_id`.
A command is its rank in `created_at` order. `created_at` is `now()`, the begin of
the inserting transaction (`init.sql` 250; the handler's SELECT of the CPE opens
it), and the commit comes later; so `Insert` makes rows visible in any order of
rank.

| code | model |
|---|---|
| `status`, `result_payload` | `status[c]` (plus `absent`, `deleted`), `result[c]`: the command whose response is stored |
| `dispatched_at` = CURRENT_TIMESTAMP of a transaction | `noLater`: the order of the time stamps of rows and open transactions |
| `reboot_cpe` | `RebootDual`, `PublishSucceeds` / `PublishRaises`, `Compensate` / `CompensateFails` |
| `enqueue_cpe_command` | `EnqueueCommand` |
| `update_cpe_command` | `PatchRead` (SELECT and transition check), `PatchWrite` (flush and commit) |
| `delete_cpe`, `create_cpe` | `DeleteCpe`, `RegisterCpe` |
| `handle_cwmp_post`, empty body | `EmptyPost` |
| `handle_cwmp_post`, RPC response | `ResponsePost`, `PickRow` (sub-select), `SettleRow` / `SettleFails` (write) |
| `dequeue_pending_command` | `SelectNext`, `CommitDispatch` / `DequeueFails`, `Reply` |
| closed connection, killed process, device time-out | `Cancel`, `WorkerCrash`, `ApiCrash`, `DeviceTimeout` |

A handler passes through `pick`, `write`, `select`, `locked`, `reply`: its
awaits. `CommitDispatch(h, FALSE)` is a commit whose acknowledgement was lost.
The device has one request outstanding (`waiting`), owes at most one response
(`owes`), and may repeat a request whose reply did not come; the old request
then still runs in the worker.

`CommandLife` has the same rows with one step per operation: queue, send,
settle, rewrite by PATCH, drop. The mapping is the identity on `status`,
`dispatches` and `rewinds`; everything between a SELECT and its UPDATE is a
stutter.

### TelemetryPipeline and TelemetryDelivery

`run_mqtt_ingest` is `mqtt` with `Connect`, `PollPublish`, `MqttSend`,
`PollFails`, `BackoffEnds`, `MqttShutdown`; the Inform branch of
`handle_cwmp_post` is `Accept`, `BodyArrives`, `InformSend`, with `ClientGone`
for a dropped handler; `run_cwmp_server` is `ServerDrains`, `ServerExits`;
`run_db_sink` is `Receive`, `AutoProvision`, `Upsert` / `UpsertFails`,
`SinkExits`; `main` is `CtrlC`. The API adds `CreateRead`, `CreateCommit`,
`DeleteCpe`; the environment adds `Publish`, `WorkerCrash`,
`DatabaseRecovers` (the unlogged table is empty after a crash).

`TelemetryDelivery` knows neither tasks nor a channel: reports are lost or
accepted, accepted ones settled one at a time in order, those of MQTT accepted
in the order of publication. The mapping takes the update in the sink's hands
followed by the channel as the queue, and what the broker or a handler still
holds as open.

### CwmpSession

`Lookup` is the first part of `resolve_cpe_id` (cookie, then cache), `Query`
its last resort (the live rows, newest `last_seen` first), which is a step of
its own because it is awaited. `Effect` is the chain of `contains` that
classifies a body: `Words` are the words that parameter names and values may
bring along. `Expire` ages a cache entry past 120 s, `Move` hands an address
on, `MqttReport` writes the address a device claims into its live row,
`Restart` empties the cache and ends the sessions. A cache entry older than
120 s is never used, so the model drops it. The address an Inform states is not
used: `handle_cwmp_post` always passes the client's address on.

### CwmpServer

The sessions of `CwmpSession` over the rows of `CommandLife`. `stage[d]` is the
next statement of the handler that serves `d`: `SettleRow`, then `Dequeue`, then
the reply (`Deliver`). Each is a step of its own, between which sessions,
deletions and restarts take place. `Rows` are the rows with the `cpe_id` the
request was resolved to, right or wrong; which of them is the oldest or the last
dispatched is left to `CommandQueue`. `inbox[d]` is the command the device has
executed and has yet to answer, `known[d]` whether the server could know the
device when its request came. A command here is one in the queue of one device:
queues may be shared by mistake, rows never are.

### LiveState

A JSON object is a function on some of `Names`; `NotObject` stands for an array or a
scalar, `Text` for a string that is no number, `Null` for null (`LiveStateAssumption` says what a report may look like).
`Decode` is the
decoder of the report's format; for USP the result depends on the iteration
order of a hash map, so it is a set. `Concat` is `jsonb || jsonb`. `Power` is
the COALESCE of the trigger, `Reason` its conditions. `Report` is upsert and
trigger in one step, as in the database, including the failure of the whole
statement on NUMERIC(6,2).

### OpticalPower

A text is blank, a decimal in 0.001 dBm or an integer; the result is an integer
in 0.01 dBm, or None. Binary floating point does not decide which way a text
right between two hundredths is rounded: `Rounded` allows both.

### InformParser

A document is what `parse_inform` can tell of it: the number of undeclared
prefixes, whether the declarations would go into a comment (the injection skips
a comment only up to its first `>`), whether it is damaged otherwise, its
elements, and its parameters. A parameter's name is the set of words the code
looks for. `Repair` is one round of the loop, `ParseDocument` its end and the
parse after it, `Identify` the DeviceId; then `ReadPower` (the action
`parse_optical_power` of `OpticalPower`) and `TakeParameter` handle one
`ParameterValueStruct` after the other.

### CommandRpc

A document is its method, the names it carries, and the prefixes it uses.
`build_soap_rpc_for_command` decides by the words in the command type; what is
neither a reboot nor about parameters is sent as a Reboot, and
`SetParameterValues` as GetParameterValues.

### HealthMonitor

`Tick`, `Probed`, `Decide`, `Settle` are the awaits of one round of
`run_healthcheck_monitor`; `MqttFlag`, `SinkUpserts`, `SinkFlag` are what the
other tasks do to the flags meanwhile; `Connected`, `ConnectGivesUp`, `Crash`,
`Restart`, `Shutdown` are the life of the process.

## Runs

| run | configuration | properties and what they show |
|---|---|---|
| `queue_patch` | 2 commands, 2 handlers, 1 PATCH, each command re-queued at most once | `SelectionStaysValid`: what the dequeue selected is still pending and its own when it commits. `DispatchedOncePerQueueing`: overlapping sessions never send one queueing twice. `OnlyStalePatchRewinds`: only a PATCH that read the row before it was settled takes it out of a terminal status. `LifeSpec`: the rows behave as in `CommandLife` |
| `queue_service` | 2 commands, the first from a dual reboot, 2 handlers, fair | `UndisturbedResultIsOwn`, `UndisturbedSettlesOnce`, `UndisturbedTakesOldest`: as long as no request was repeated or abandoned in mid-service, no row patched and no dispatched row deleted, results belong to their rows, settled rows stay, and SKIP LOCKED skips nothing: a dequeue takes the oldest row visible as pending, lost replies, rollbacks and worker crashes included. `RefusedRebootHasNoRow`: no handler brings a compensated row back. `PendingIsServed`: a pending command leaves the queue. `DualRebootIsAnswered`: publish and compensation end, or die with the process |
| `telemetry` | 2 devices, 3 MQTT messages of one (the first ignored) and an Inform of the other, 2 slots, 1 POST /cpes with each other's serial number, deletions, fair | `AcceptedIsAccountedFor`: no accepted update is forgotten or duplicated. `LiveFollowsPublication`: no older report is merged after a newer one was settled. `ShutdownDrains`: when the sink has returned nothing is left. `ForeignKeyHolds`: an upsert misses its inventory row only if the auto-provision failed or the CPE was deleted after it. `RegistrationIsAuthoritative`: only a POST that had read the row changes a serial number. `DeliverySpec`: refinement, liveness included. `ShutdownEnds` |
| `cwmp_server` | 2 devices, one keeps cookies, 2 addresses, 1 command each | `CookieSessionIsOwn`, `FreshSessionIsOwn`: no mix-up of known devices. `KnownDeviceRunsOwn`: they execute no command of another queue. `KnownDeviceSettlesOwn`: they settle no row of another queue |
| `live_state` | 15 reports, 3 history rows, 3 upserts in a row without a record | `ShownPowerIsNearRecord`: a power that appears or reappears is the last one recorded, and leaves the record by 1.00 dBm per upsert at most. `RetryAddsNoRecord`, `PlainPowerIsTracked`, `ParametersStay` |
| `inform` | every integer of every scale, decimals around the bounds, zero and a working point; every damage with up to 7 prefixes; 2 or 3 of 13 competing parameters | `AcceptedExactly`, `PowersAreLastReadable` (the receive power, besides, is that of a parameter not called TxPower or TransmitOpticalLevel), `AddressOutranksUrl`, `DecimalIsRead`, `ReceiverScalesAgree`, `PowerIsRecordable` |
| `health_monitor` | no bound on crashes and restarts, fair | `WrittenOnEvidence`, `OutageIsReported`: a lasting outage is reported in the end and stays so; the exception, stated in the property, is a worker restarted for ever with a file that no monitor removes |

`queue_patch`, `telemetry` and `live_state` also check `TypeOK`, `cwmp_server`
checks `ServerTypeOK`. Five more runs end with a violation, see below.

Deadlock is checked wherever the system never stops. It may stop in three
places: after a graceful shutdown the process has ended (`telemetry`), a
document is parsed once (`inform`), and with `MaxRecords` rows of history no
further report is taken (`live_state`).

## Where code and documentation disagree

Each of these runs checks one statement the repository makes and ends with a
behaviour of the code that contradicts it.

- `queue_rewind` (`TerminalIsNeverRewound`). A test says that terminal states
  cannot be rewound. `update_cpe_command` checks the status it has read and
  writes by id at commit, without a lock: a PATCH to `pending` that has read
  `dispatched` and is overtaken by the device's response puts the completed row
  back to `pending`. `OnlyStalePatchRewinds` shows that this is the only way.
- `queue_result` (`ResultIsOwn`). A handoff note says the handler matches the
  command id. It settles the row dispatched last: when a reply is lost and the
  device repeats its response, the command dispatched in between is settled
  with it. `UndisturbedResultIsOwn` says when that cannot happen.
- `queue_refused` (`RefusedRebootIsNotExecuted`). The compensating DELETE is
  said to make the dual reboot atomic. The row is committed before the publish,
  so a device that polls in between executes a reboot that is answered 503.
  `RefusedRebootHasNoRow` is what does hold.
- `cwmp_response` (`ResponseCompletes`). A response is said to complete its
  command. A body is classified by the words it contains, so a
  GetParameterValuesResponse with `PeriodicInformInterval` is taken for an
  Inform and rejected, and one with `Fault` in a name or value fails its
  command.
- `rpc_envelope` (`DocumentIsWellFormed`). The documents are said to be valid
  XML. GetParameterValues uses the prefix `soap-enc`, but declares `SOAP-ENC`;
  a device with a strict parser rejects it.

The models contain further behaviour that is worth knowing and contradicts
comments or notes; no run is spent on it:

- `cpes.py` 47-81: a POST /cpes that races the auto-provision of its own CPE is
  answered 409 although no other CPE has the serial number (`CreateCommit`).
- `main.rs` 472-533: the auto-provision uses the `cpe_id` as serial number; if
  another CPE has it the insert fails, is logged, and all three upserts violate
  the foreign key (`AutoProvision`, `UpsertFails`).
- `main.rs` 1002-1017: a client that never finishes a request keeps the
  draining server, with it a sender of the channel, and with it the sink.
  `ShutdownEnds` therefore needs `ClientFairness`.
- `init.sql` 135-153: the trigger reads the merged row under the first of four
  names, so a power reported as `optical_power` stays hidden behind an older
  `rx_optical_power`. `PlainPowerIsTracked` is the case that works.
- `main.rs` 154-178 and 509: parameters that are no JSON object turn the column
  into an array for good; see `ParametersStay`.
- `cwmp.rs` 175-199: the scaled branches do not check the physical range, so
  "-9999" is read as -99.99 dBm. `PowerIsRecordable` is the bound that holds.
- `main.rs` 748-784: a `SetParameterValues` command is sent, and completed, as a
  GetParameterValues, and a command of an unknown type as a Reboot
  (`CommandRpc`). The API takes any type.
- `cwmp.rs` 205-210: a comment with two tags before the root element catches the
  declarations, and a document that could be repaired is rejected
  (`shielded` in `InformParser`).
- `main.rs` 930-943: a GetParameterValuesResponse with undeclared prefixes is not
  repaired as an Inform is; its command is completed without a value.
- `main.rs` 878-881: `session_cache` gains an entry for every address and loses
  none; an old one is never used.
- `cwmp.rs` 384: a name with "optical", "rx" and "tx" counts for both powers.
- `main.rs` 427 and 1057-1102: an old health file is removed only when the
  monitor starts, after up to fifteen attempts to reach PostgreSQL, and the
  removal may fail unnoticed. A worker that crashes over and over in an outage
  is therefore shown as healthy while it connects; `OutageIsReported` names the
  case.
- `init.sql` 190: the trigger compares with the row, not with the last record, so
  a power that drifts by 1.00 dBm per report or less is never recorded, however
  far it goes. `ShownPowerIsNearRecord` bounds the distance by the reports.
- `main.rs` 716 and `init.sql` 250: the queue is ordered by the begin of the
  inserting transaction. A row committed late is overtaken by one that a dequeue
  has taken before, and SKIP LOCKED passes over a row that an abandoned request
  still holds.

## Fairness

*CommandQueue.* Each handler's next statement is weakly fair: the runtime polls
every ready future. A lock is released by the next statement of the handler that
holds it, COMMIT or ROLLBACK, or by the end of that handler. The publish and its compensation are weakly fair, being one await
each. The device polls periodically (weak fairness of `EmptyPost`,
`ResponsePost` and `DeviceTimeout`). Statements that can be rolled back or cut
off by a crash are strongly fair as a group: a crash may recur for ever, but
one that always hits the same statement is a permanent outage, under which
nothing is promised. Nothing is assumed of operators, of PATCH or of DELETE.

*TelemetryPipeline.* `ServerFairness`: weak fairness of the steps of the MQTT
task, of a handler that waits for the channel (its 500 ms timer ends the wait),
of the server and of the sink; strong fairness of `MqttShutdown` because
`select!` polls its branches in random order, so a poll that is ready at every
turn does not hide the shutdown for ever. `ClientFairness`: clients finish
their requests or close the connection; the code has no read time-out, so this
is an assumption about clients, not about the code.

*HealthMonitor.* Weak fairness of connecting (fifteen attempts, then an error),
of the monitor's statements, and of the MQTT task noticing that the broker is
gone (keep-alive); strong fairness of a removal that succeeds: the monitor tries
it again in every round of an outage. Nothing is assumed of crashes and
restarts, which may recur for ever; hence the exception in `OutageIsReported`.

## Bounds

| bound | why it is enough |
|---|---|
| 2 commands | the faults are about one command taken for another, or overtaken by another |
| 2 handlers | a request and the one that repeats it; every race of the dequeue is between two |
| 1 PATCH, `MaxRewinds` = 1 | a PATCH races responses, dequeues and deletions; a second re-queueing repeats the first |
| `Capacity` = 2 | full, half full, empty; the order of two queued updates |
| 3 MQTT messages | one with the sink, one in the channel, one waiting or in flight |
| 1 POST /cpes at a time, 2 bodies | it races the auto-provision, a deletion and, over a serial number, the other device |
| `MaxAttempts` = 3 | the code's number, no bound |
| 2 devices, 2 addresses | an address shared, an address handed on, two rows with one address |
| 1 command per device (`cwmp_server`) | a command either stays with its owner or does not; order within a queue is checked by `queue_service` |
| `Words` = {"Inform"} (`cwmp_server`) | the routing does not depend on which branch a body takes; `cwmp_response` has all words |
| symmetry of addresses, commands' handlers | no property names an address or a handler; no liveness is checked in these runs |
| up to 7 prefixes, up to 3 parameters (`inform`) | the code repairs 5; one parameter may be replaced by a second and the result by a third; the proofs have no such bound |
| `MaxRecords` = 3 | a baseline, a jump, a record after a truncation |
| 15 reports | every format, powers that differ by 1.00 and by 1.01 dBm, null, text, non-objects, second names, overflow |
| `MaxQuiet` = 3 | the drift away from the record needs one upsert without a record; the next ones add to it |

Worker crashes, device time-outs, rollbacks and reconnects are not bounded.

## Proofs

Every theorem holds for every value of the constants that satisfies the
assumption of its module, which TLC evaluates in each run: `QueueAssumption`
(commands are numbers, names do not clash), `PipelineAssumption` (MQTT messages
are numbered as they are published, the channel has room for one),
`SessionAssumption`, `ServerAssumption` (each command has one owner),
`LiveStateAssumption` (what JSON values and reports look like, the normalised
name is read first), `AnswerAssumption` (None is no number),
`DocumentAssumption` (the shape of documents). That an
invariant is preserved is shown by a lemma for each group of actions and one
that collects them.

*CommandQueueProofs*
- `TypeCorrect`: `TypeOK` needs `LockedIsRow`, because a commit writes the row
  the handler has locked.
- `SelectionSafe`: `SelectionStaysValid` is inductive given the types. A row
  changes status only while nobody holds it, or by the commit of the one
  transaction that does; a selection takes a row nobody holds.
- `DispatchedOnce`: strengthened to `DispatchBudget`: a row that is pending or
  not yet inserted still has a dispatch to spend; only a PATCH adds one.
- `RefusedRebootRemoved`: a deleted row stays deleted (`RowStep`), and
  `Compensate` answers only after its DELETE.
- `QueueImplementsLife`: each step is one of `CommandLife` or a stutter; the
  commit of a dequeue needs that the row it holds is still pending.
- `RewindNeedsStalePatch`: from `RowStep` and `PatchReadOpenRow`: a PATCH that
  is under way has read a row that was not terminal.

*CommandOrderProofs*
- `ResultsAreOwn`, `SettledOnce`, `OldestTaken` share the invariant
  `OrderInv`. The handler settles the row that was dispatched last, so what has
  to be shown is that this row is the one the device answers. While nothing is
  disturbed one handler at most works on the rows, the one the device waits for
  (`OneAtATime`); every dispatched row carries a time stamp, all of them earlier
  than an open transaction (`OpenIsLatest`); so the row stamped next is the
  latest, and remains it until the device has answered (`OwedIsLatest`). Rows
  left behind by a lost reply, a settling that failed or a crash stay
  dispatched, but are stamped before it. `OneAtATime` also means that
  nobody else holds a lock when a dequeue selects, so that SKIP LOCKED skips
  nothing and the oldest selectable row is the oldest pending one.

*TelemetryPipelineProofs*
- `PipelineInv` is inductive as a whole. `Hands` says what the MQTT task and
  the sink hold where they stand, `Returned` what a task that has returned has
  left behind, and `Ledger` that an update is where its fate says, once
  (`QueuedOnce`, `SentOnce`, `RequestsAreOpen`), and that MQTT updates are in
  order with the broker, in the task, in the channel and between these and what
  is settled (`SentInOrder`, `QueuedInOrder`, `SettledInOrder`).
- `PipelineTypes`, `ForeignKey`, `ShutdownDrainsAll` follow from it.
  `AcceptedAreAccountedFor` turns the ledger's positions into the sequence that
  the property speaks of.
- `LiveInPublicationOrder`: an upsert merges what the sink holds, which is
  queued, so by `SettledInOrder` nothing published later is settled.
- `RegistrationAuthority`: the auto-provision writes only where no row is; what
  else writes is the commit of a POST, which replaces a row only if it read it.
- `PipelineImplementsDelivery`: every step is one of `TelemetryDelivery` or a
  stutter (`StepIsDelivery`). The update in the sink's hands is the head of the
  abstract queue (`AcceptedHead`), and `SettledInOrder` makes acceptance follow
  publication.

*LiveStateProofs*
- `LiveStateTypes`: the decoders of all three formats make an update of every
  report (`DecodeIsUpdate`), and the merge keeps an update one
  (`MergedIsUpdate`). The history has only powers its column holds, because a
  statement whose trigger fails leaves the row alone.
- `PowerOnRecord`: inductive with the types. A power that appears where none was
  shown is recorded as `initial_state`, one that jumps as a variation, and
  either way it is the last record; any other upsert moves it by 1.00 dBm at
  most (`NearRecordStep`). A deletion or a lost table takes the row, and with it
  the obligation.
- `RetryIsIdempotent` needs no invariant beyond the types: a merge that is
  repeated changes nothing, whether the values are objects or not.
- `PlainReportsAreTracked`: strengthened to `PlainRow`: the metrics of a row
  merged of plain reports are an object and carry the power reported last under
  the name that is read first.
- `ParametersAreKept`: the merge of objects keeps their names.
- COALESCE and the decoder of JSON take the first of several places in a list.
  That there is one (`NatMin`) is derived from the well-foundedness of the
  naturals, because the library's induction rules take an operator, which the
  provers here cannot instantiate.

*CwmpSessionProofs*
- `SessionTypes`: `TypeOK` says that the live rows are a sequence without
  repetitions of exactly the devices with an address. An upsert or a deletion
  takes one row out (`WithoutRow`), which leaves the others in order; `Stored`
  puts it at the end.
- `CookieSessions`, `FreshSessions`: the invariant says whose cookie a device
  sends and whose cache entry its address has (`CookieIsOwn`,
  `KeeperHasCookie`, `FreshIsCached`). A device of either kind is therefore
  found before the query of the live rows, about which nothing is known.

*CwmpServerProofs*
- `ServerImplementsSession`: every step of the server is a step of
  `CwmpSession` or leaves it alone; hence `ServerSessionsAreOwn`.
- `RoutedToOwner`, `SettledByOwner`: the invariant `RoutingInv` says that a
  device known when its request came is in service, not waiting for the live
  rows (`KnownIsServed`), and taken for itself. The sessions' invariant gives
  this when the request arrives; later steps cannot take it away, because a
  handler keeps the name it has resolved. Its statements therefore look at its
  own queue, and its reply carries a command of that queue.
- `ServerTypesHold`: strengthened to `ServerTypes`: a handler that settles
  has a verdict, so the status it writes is one.

*InformParserProofs*
- `DecimalReading`, `PowersAreRecordable`, `ScalesAgree`, for all integers and
  decimals, where the run has finitely many.
- `RepairIsExact`: `DocumentInv` counts: prefixes missing plus rounds done are
  the prefixes of the document.
- `PowersFound`, `AddressFound`, for any number of parameters: what has been
  found is what the definition says of the parameters before the cursor, and
  the parameter at the cursor comes after all of them.
  A receive power is, in addition, that of a parameter which is not called
  TxPower or TransmitOpticalLevel (`ReceiveKeysReceive`); a name with "optical",
  "rx" and "tx" does count for both.

*HealthMonitorProofs*
- `EvidenceIsNeeded`: the invariant follows the evidence through a round: while
  the probe is out an answer can only come from a database that has been seen
  up; the decision to write implies both.

*Only model-checked.* What needs fairness, which is out of the prover's reach
(ENABLED): `PendingIsServed`, `DualRebootIsAnswered`,
`ShutdownEnds`, `OutageIsReported`, and of `DeliverySpec` the fairness of the
abstract steps. `CommandRpc` has no theorem, and neither have the disagreements:
their runs end with a violation, for which one behaviour is enough.

## Abstractions

- One SQL statement is one step, with two exceptions: the settling UPDATE picks
  its row by a sub-select that locks nothing and writes later; the dequeue is a
  transaction that holds its lock between two steps. The lock that a PATCH
  holds from its UPDATE to its COMMIT is collapsed, since nothing happens
  between the two.
- `created_at` is a rank: no two rows of a queue have the same one. INSERT and
  COMMIT of a row are one step, since nobody sees the row in between; ranks
  become visible in any order.
- A PATCH carries a status; changing time stamps or the result by PATCH is left
  out. A reboot for `tr369` alone has no row and is left out.
- A statement that is cancelled while it is under way was executed before, or
  not at all.
- An update is one report; what it says matters in `LiveState` only, where of
  the metrics only the optical power is kept.
- jsonb numbers are exact; a power is a multiple of 0.01 dBm there. Texts that
  Rust reads as infinite or not a number are left out of `OpticalPower`.
- Of an Inform, header ID, events and hardware version are left out: they decide
  nothing. The texts a document carries are left out of `CommandRpc`; the code
  puts them in without escaping.
- `CwmpServer` takes a request and its classification as one step, and PATCH is
  left to `CommandQueue`. A handler ends with the connection of its device; one
  that runs on beside the request that repeats it is in `CommandQueue`.
- A device's name is its identity. Devices of one model without serial number
  share a name (`cwmp.rs` 317-321) and are one device here.
- `last_seen` is the order of the upserts, not the clock of the producers.
- The broker keeps nothing for a worker that is not subscribed (clean session,
  QoS as subscribed), and delivers in order within a connection.

## Not modelled

- What a GetParameterValuesResponse carries (`main.rs` 930-943): the result is
  whose response it is, in `CommandQueue`.
- Read endpoints of the API, `/health`, `database.py`, `config.py`, Gunicorn:
  no state of their own. A dying API process is `ApiCrash`.
- PUT and PATCH of descriptive inventory fields: no other code reads them.
- `updated_at` triggers, indexes and views of `init.sql`.
- `configure_limits.py`: a sequential, interactive editor of one text file.
- `simulate_flow.sh`, `bootstrap.sh`: drivers for a deployment.
- `usp.proto`, `build.rs`: generated code; what is taken from a record is in
  `LiveState`.
- `mosquitto.conf`, `docker-compose.yml`: configuration; the container's health
  check is `ReportedHealthy` in `HealthMonitor`.

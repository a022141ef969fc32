# TLA+ models of the eCAL subscriber data path, logging and service client

This directory holds TLA+ models of three eCAL components:
- `CDataReader`, the class behind every eCAL subscriber
  (`src/ecal/core/src/readwrite/ecal_reader.cpp`);
- `CLogProvider`, the logging back end
  (`src/ecal/core/src/logging/ecal_log_provider.cpp`);
- `CServiceClient`, the service client front end
  (`src/ecal/core/src/service/ecal_service_client.cpp`).

It also holds the TLC configurations that check the models and TLAPS proofs of
the main invariants and of a refinement.
`PROJECT.json` is the machine-readable index. For every definition it gives the
source lines it models, and it lists the runs, mutants, findings and hazards.

## 1. The system

### Parts

- **Ingress.** `ApplySample` is called by transport threads (UDP, SHM, TCP). It
  takes `m_receive_callback_mtx` first and holds it to the end. It runs these
  steps in order:
  1. the `m_created` check;
  2. the layer-enable check;
  3. the layer-active latch;
  4. hash de-duplication over the last 64 hashes (`m_sample_hash_queue`);
  5. the id filter (`m_id_set`);
  6. `CheckMessageClock`, which holds a per-publisher cursor in
     `m_writer_counter_map` and counts drops in `m_message_drops`;
  7. `m_clock++`;
  8. delivery, either to the receive callback or to the one-slot read buffer.
- **Clock check.** `CheckMessageClock` classifies a sample against the cursor of
  its publisher, by the difference Δ between the sample's clock and the cursor:
  - first sample: accepted;
  - Δ=1: accepted;
  - Δ=0: rejected;
  - Δ>1 (a gap): the `dropped` event fires, drops are added, and the sample is
    accepted;
  - Δ<0 (reordered): rejected under the drop policy, or accepted without moving
    the cursor under the keep policy.
- **Read buffer.** `m_read_buf` holds one slot, with `m_read_buf_received`,
  `m_read_buf_mtx` and `m_read_buf_cv`. `ApplySample` overwrites the slot and
  calls `notify_one`. `Read(buf, time, timeout)` has three modes:
  - it polls when `timeout` is 0;
  - it waits with a timeout when `timeout` > 0;
  - it waits forever when `timeout` < 0.
- **Connection table.** `m_connection_map` and `m_connection_count` are
  updated by the registration thread:
  - `ApplyPublication` inserts an inactive entry the first time. The second
    time it activates the entry and fires `connected`. After that it fires
    `update_connection`.
  - `RemovePublication` erases the entry and fires `disconnected` when the map
    is empty.
  - Events fire after `m_connection_map_mtx` is released, under
    `m_event_callback_map_mtx`.
- **Setters.** `Add/RemReceiveCallback` and `Add/RemEventCallback` check
  `m_created` first and only then take their mutex. `SetFilterIDs` takes no
  lock.
- **Stop.** The destructor or `Destroy` calls it. It runs these steps in order:
  1. checks `m_created` without a lock;
  2. `StopTransportLayer`;
  3. clears the receive callback under its lock;
  4. clears the event map under its lock;
  5. sets `m_created = false`, without any lock;
  6. unregisters.

- **`CLogProvider`.** `Start` takes no lock. It opens the log file
  (`StartFileLogging`: directory check, then `fopen`), creates the UDP sender,
  and sets the atomic `m_created`. `Log(level, msg)` runs under `m_log_mtx`:
  1. it returns when `m_created` is false;
  2. it applies the per-sink filters;
  3. it writes to the console, calls `fprintf(m_logfile)` and sends by UDP.

  `Log(msg)` reads `m_attributes.level` before it calls `Log(level, msg)`.
  `SetLogLevel` locks; the three filter setters do not. `Stop` (also called by
  the destructor) checks `m_created` without the lock, then, under the lock,
  resets the sender, `fclose`s the file, nulls `m_logfile` and clears
  `m_created`.
- **`CServiceClient`.** A handle owns a shared `CServiceClientImpl`. The
  constructor registers it with the client gate, and the destructor
  unregisters it. The move constructor and move assignment transfer it and
  leave the source holding `nullptr`. `CallWithResponse` and
  `CallWithCallback` work in three phases:
  1. they snapshot the instances (`GetClientInstances`);
  2. they launch one `std::async` task per instance;
  3. they `get()` the futures in snapshot order, and-ing the results.

The monitoring declarations, the public headers and two tests are not modelled
(section 5).

### Interactions and the hard behaviours

Four kinds of thread act on one reader:
- transport threads;
- the registration thread;
- user threads (setters and `Read`);
- the owner (`Stop`).

Four behaviours are what a unit test hardly reaches:
- **Check, then act.** Each setter checks `m_created` before taking its lock,
  and `Stop` can run in between.
- **Unsynchronised paths.** The registration path fires events without checking
  `m_created`.
- **Side effect on the map.** The receive-callback path writes to the connection
  map through `operator[]`.
- **Sequences of samples.** Duplicates arrive across layers, and gaps and
  reorderings interact with a bounded hash window and with the cursor.
- **Single-slot buffer.** It has one `notify_one`, and several readers may be
  waiting, some of them with a timeout.
- **Logging shutdown.** Loggers, the destructor and an explicit `Stop` race
  around the unlocked `m_created` check in `Stop`.
- **Moved-from handles.** A service client handle can be used after it has
  been moved from.
- **Out-of-order completion.** Async tasks finish in any order, but their
  futures are collected in snapshot order.

## 2. Modules

| Module | Models | State (code) |
|---|---|---|
| `ReadSlot` | the read buffer and `Read` | `readReceived` (`m_read_buf_received`), `signalled` (notified waiters not yet running), `readPc` (idle / wait_timed / wait_forever per reader) |
| `DataReader` | all of `CDataReader` except attributes and registration samples; EXTENDS `ReadSlot` | `created`, `readEnabled`, `layerActive`, `hashQueue`, `idSet`, `writerCounter` (domain = publishers seen), `clock`, `messageDrops`, `recvCb`, `eventCb`, `conn`, `connCount`, setter pcs, the Stop phase, the pending event of the registration thread; history variables `fired`, `acceptLog`, `applies` read only by properties |
| `IngressOrder` | the abstract accepted stream (spec P1 and §4.4), modelled from the spec | `delivered`: the ⟨publisher, clock⟩ pairs delivered, in order |
| `LogProvider` | `CLogProvider` | `created`, `logfile` (0 = `nullptr`, n = the file the n-th `Start` opened), `fileState`, `udpSender`, `level`, `filter`, the `Start` pc, per-logger pc and level, per-stopper pc; history variables `wrote` (the ⟨sink, file⟩ pairs a step wrote to), `closes`, `stopped` |
| `ServiceClientLife` | the constructor, the destructor and the moves of `CServiceClient` | per-handle `life` and `holds` (`m_service_client_impl`), `registered` (the gate's registry), `gateUp` (`g_clientgate() != nullptr`), `crashed` |
| `ServiceCall` | `GetClientInstances`, `CallWithResponse`, `CallWithCallback` | `known` (the implementation's service ids), the caller's `pc`, `inst` (the snapshot), `task` (per launched task: running or its outcome), `next` (the next future to get), `responses`, `success` |
| `MCDataReader`, `MCReadSlot`, `MCLogProvider`, `MCServiceClientLife`, `MCServiceCall` | model values and small sets for TLC | |
| `DataReaderProofs`, `LogProviderProofs`, `ServiceClientLifeProofs`, `ServiceCallProofs` | TLAPS proofs | |

### Actions and the code they model

- **`ApplySampleBegin`** takes `m_receive_callback_mtx` and checks
  `m_created` (lines 422-426); `ingressPc = "checked"` means the mutex is
  held. `m_created` is written by `Stop` without that mutex, so `StopMark`
  may run between this check and the rest of the call, while
  `StopClearReceive` and `SetReceiveCallback` wait for the mutex (their guard
  `ingressPc = "idle"`).
- **`ApplySample(l,p,c,id)`** is the rest of the call, one step under the
  mutex. It splits into three cases:
  - `DiscardDuplicate`: the hash is in the queue.
  - `RejectSample`: the hash is queued, then the id filter or the clock check
    rejects the sample.
  - `AcceptSample`: the hash is queued, the cursor and drops are updated,
    `m_clock++` runs, and the sample is delivered.

  Two helpers translate `CheckMessageClock` branch by branch:
  - `ClockVerdict` classifies the sample.
  - `NewWriterCounter`/`NewMessageDrops` give the updates.

  Delivery (`DeliverSample`) goes one of two ways:
  - to the receive callback, which inserts a `phantom` entry for an unknown
    publisher (`m_connection_map[pub_info]`);
  - otherwise to `ReadSlot!BufferSample`.

  A sample's hash is the pair ⟨publisher, clock⟩. Equal hashes are exactly the
  copies of one sample.
- **`ApplyPublication(p)`, `RemovePublication(p)`** model the part under
  `m_connection_map_mtx`. They record the event to fire in `regPc`, and
  **`FireEvent`** fires it later, as the code does after the unlock.
- **`BeginSetter`** is the `m_created` check of a setter. It is followed by
  **`SetReceiveCallback`** or **`SetEventCallback`**, the store under the
  mutex. **`SetFilterIDs`** is a single assignment.
- **`Stop`** is four steps: **`StopLayers`** (the check and
  `StopTransportLayer`), **`StopClearReceive`**, **`StopClearEvents`** and
  **`StopMark`**.
- **`ReadSlot`** has these actions:
  - `ReadBegin`: take the sample, or block in timed or forever mode.
  - `ReadWake`: a notified waiter re-acquires the mutex.
  - `ReadTimeout`: `wait_for` returns its predicate.
  - `NotifyOne`: wakes one blocked waiter, if there is one.

  Spurious wake-ups re-check the predicate and change nothing, so they have no
  action of their own.

- **`LogProvider`.** `Start` is three steps, because it takes no lock and
  `m_created` is set last:
  - `StartFile`: `StartFileLogging` opens a new file, leaves `m_logfile`
    unchanged (no directory), or stores `nullptr` (`fopen` failed). Which of
    these happens is a constant `OpenOutcomes`.
  - `StartUdp`: `StartUDPLogging`.
  - `StartMark`: `m_created = true`.

  A logger's `Log(msg)` is two steps:
  - `LogBegin` reads the level;
  - `LogLocked` is the whole body under `m_log_mtx`. `Targets` is the set of
    sinks the filters and the enable flags let through.

  A stopper's `Stop` is two steps: `StopCheck` (the unlocked check) and
  `StopLocked` (the body). `SetLogLevel` and `SetLogFilter` are one step each.
  A message is abstracted to its level. Its text, header and UDP
  serialisation are left out.
- **`ServiceClientLife`.** `Construct`, `Destroy`, `MoveConstruct` and
  `MoveAssign` are one step each, sharing `UnregisterHeld` (line 51/71).
  `GateDown` is the runtime's finalisation.
- **`ServiceCall`.** `BeginCallWithResponse` and `BeginCallWithCallback` share
  `Launch` (snapshot and tasks). `FinishTask(i)` is instance call i returning
  or throwing. `CollectResponse` and `CollectCallback` are one loop iteration
  each of the two calls. `Return` ends the call, and `Discover` is service
  discovery changing the ids at any time.

Data is abstracted: payloads, topic names and data-type descriptions are
not modelled. The frequency calculator, `m_receive_time` and `m_topic_size` are
written by `ApplySample` but read by no property, so they are left out.

## 3. Runs

| Run | Checks | Result |
|---|---|---|
| `stop_race` (MCStopRace) | `TypeOK`, `CursorIsMaxAccepted` | pass |
| `read_wake` (MCReadWake) | `BufferedSampleTaken` | pass |
| `stop_events` (MCStopEvents) | `NoCallbackAfterStop` | violation |
| `disconnect` (MCDisconnect) | `DisconnectIffLastActiveGone` | violation |
| `phantom` (MCPhantom) | `ConnectedOnSecondApply` | violation |
| `drop_count` (MCDropCount) | `DropsCountLost` | violation |
| `ingress_order` (MCIngressOrder) | `IngressRefinesOrder` | pass |
| `log_ok` (MCLogOk) | `FileClosedOnce`, `LogFileIsOpen`, `NoLogAfterStop` | pass |
| `log_fopen_fail` (MCLogFail) | `LogFileIsOpen` | violation |
| `client_registry` (MCClientRegistry) | `RegisteredIffHeld` | pass |
| `client_null_impl` (MCClientNullImpl) | `NoNullImplDeref` | violation |
| `call_collect` (MCCallCollect) | `CallResultMatchesTasks` | pass |

### What the passing runs show

- **`stop_race`.** The bounds are one setter thread, one reader, one
  publisher with clocks 1..2, two layers (one enabled), a 1-entry hash queue
  and the keep policy. The run has 3.2 million distinct states. Besides
  `TypeOK` (whose queue bound a missing trim breaks) it checks:
  - **`CursorIsMaxAccepted`.** Under the keep policy, the cursor of each
    publisher is the largest clock accepted from it, and reordered samples
    must not pull it back. The bounds reach the verdicts first, next,
    duplicate and reorder, and re-delivery after a hash has left the window.
    Gaps need a third clock. `ingress_order` reaches them, and
    `CursorCorrect` proves the invariant for every clock set.
- **`BufferedSampleTaken`.** This run uses three readers with arbitrary timeout
  modes. While a reader waits forever on a filled slot, the slot is eventually
  drained.

- **`IngressRefinesOrder`.** This is the refinement: the reader under the drop
  policy implements `IngressOrder`, with `acceptLog` as the delivered stream.
  The bounds are two publishers, two filter ids (so that the id filter rejects
  samples after their hash was queued), a 1-entry hash queue and up to three
  accepted samples. The run has 369,280 distinct states.
- **`LogFileIsOpen`, `FileClosedOnce`, `NoLogAfterStop`.** The bounds are one
  logger, two stoppers (the destructor and an explicit `Stop`), two levels,
  all sinks enabled and one `Start`. The file opens in this run. A `Log` that
  read the level before `Stop` took the lock writes nothing. Two stoppers that
  both passed the unlocked check do not `fclose` twice, because the second one
  finds `m_logfile` null.
- **`RegisteredIffHeld`.** The bounds are three handles and three
  implementations, with the gate able to go down. While the gate is up, its
  registry is exactly the set of implementations that live handles hold.
  Deadlock is not checked here, because the handles' lifetimes end.
- **`CallResultMatchesTasks`.** The bounds are two servers,
  every outcome (true, false, throws), discovery at any time and two calls.
  Whatever order the tasks finish in:
  - the returned flag is the and of all the instance results;
  - `CallWithResponse`'s vector holds one response per instance, in snapshot
    order.

  Deadlock is checked: after `MaxCalls` calls the model stutters in
  `Discover`, which stays enabled.

### What the violations show

These are the findings in `PROJECT.json`:
- **`stop_events`.** `AddEventCallback` checks `m_created` (line 214) before it
  locks. `Stop` then completes, the callback is stored, and the next
  `RemovePublication` fires `disconnected` after `Stop` returned. This breaks
  P6. The receive path breaks it too (a second finding on the same run):
  `AddReceiveCallback` passes its check (line 180), `Stop` clears the
  callback (lines 118-119), the setter stores its callback (line 189), an
  `ApplySample` takes the mutex and finds `m_created` still true (line 426),
  `Stop` sets `m_created = false` without that mutex and returns (line 129),
  and the callback runs (line 538). The re-check in `ApplySample` does not
  help, because the flag it reads is not written under its mutex. TLC's trace
  shows the shorter event path; the receive path was confirmed separately.
- **`disconnect`.** `disconnected` is decided on an empty map (line 351). It
  fires when an unknown or only-inactive publisher is removed, and it is missed
  when an inactive entry remains.
- **`phantom`.** The receive-callback path inserts a default entry (line 538).
  The publisher's first `ApplyPublication` then fires `connected`.
- **`drop_count`.** Clocks 1 then 3 give `m_message_drops = 2` (line 926). The
  spec (P3/S2) counts Δ−1 = 1.
- **`log_fopen_fail`.** `StartFileLogging` fails and `Start` only warns (line
  196). It leaves `file_sink.enabled` true and sets `m_created`. The next
  `Log` calls `fprintf(m_logfile, ...)` with `m_logfile == nullptr` (line 263).
- **`client_null_impl`.** A handle is constructed, moved into a second handle
  and destroyed. The destructor calls
  `m_service_client_impl->GetServiceName()` on `nullptr` (line 51), and so
  does move assignment into a moved-from handle (line 71).

### Mutants and fairness

Each property of a passing run has a mutant that TLC catches:

| Mutant | What it breaks | Caught by |
|---|---|---|
| `PushHashNoTrim` | the queue is not trimmed | `TypeOK` |
| `NewWriterCounterOnReorder` | reordering moves the cursor | `CursorIsMaxAccepted` |
| `NotifyNone` | `notify_one` is dropped | `BufferedSampleTaken` |
| `ClockVerdictDupAccepted` | Δ=0 is accepted | `IngressRefinesOrder` |
| `LogLockedUnchecked` | `Log` drops `if(!m_created) return;` | `LogFileIsOpen`, `NoLogAfterStop` |
| `StopLockedNoReset` | `Stop` drops `m_logfile = nullptr;` | `FileClosedOnce` |
| `MoveAssignNoUnregister` | move assignment does not unregister | `RegisteredIffHeld` |
| `CollectKeepsSuccess` | the catch block keeps `overall_success` | `CallResultMatchesTasks` |

**Fairness.** Only `read_wake` assumes fairness:
- it assumes weak fairness of `ReadWake(u)`. A thread notified
  through a condition variable becomes runnable, and the OS eventually runs
  it. Nothing is assumed about when samples arrive or when a timed wait
  expires.
- `call_collect` assumes none and checks no liveness: that an instance call
  returns rests on `CClientInstance`'s timeout, which this file does not
  show, so the model lets a task run forever.

## 4. Proofs

### `DataReaderProofs`

- **`TypeCorrect`** proves `Spec => []TypeOK`. `TypeOK` is inductive together
  with `IngressBound`: while an `ApplySample` holds the mutex past its check,
  `m_clock` is below `MaxAccepted`, so the accepted count stays in range. The
  proof has one step per action, with lemmas for the helpers:
  - `PushHashType`: the queue stays within `HashQueueSize`;
  - `ActiveCountType`: the count is a natural, by finiteness of `Pubs`;
  - `BufferSampleType`;
  - `ReaderStepType`.
- **`CursorCorrect`** proves `Spec => []CursorIsMaxAccepted`. The invariant is
  inductive together with `TypeOK`, whose clock values must be integers. The
  argument rests on two lemmas:
  - `CursorFrame`: only `AcceptSample` changes the cursor or the log.
  - `CursorAccept`: one accepted sample extends the log by one entry. The proof
    has one case per accepting verdict:
    - first: the publisher had no entries before;
    - next/gap: the new clock exceeds all earlier ones;
    - reorder_keep: the cursor is unchanged and is still attained.

- **`ClocksIncrease`** proves `Spec => []AcceptedClocksIncrease` (P1 under the
  drop policy). No run checks it separately, because it follows from the
  refinement that `ingress_order` checks. The
  inductive invariant is `TypeOK`, `CursorIsMaxAccepted` and the property.
  The lemma `AcceptFresh` says that, under the drop policy, an accepted clock
  is above every clock accepted before from its publisher. That follows from
  the cursor invariant, because the drop policy accepts only first, next or
  gap. An appended entry is therefore above all earlier entries of its
  publisher.
- **`IngressRefinement`** proves
  `DropOutOfOrder => (Spec => IngressRefinesOrder)`, the refinement that
  `ingress_order` checks on a small instance:
  - `Init` maps to `OrderInit`, because the log starts empty.
  - `AcceptSample` maps to `Deliver(p, c)`, whose guard `Fresh` is
    `AcceptFresh`.
  - Every other step leaves `acceptLog` unchanged, by `CursorFrame`.

**Assumptions.** The proofs rest on `DataReaderAssumption`, and TLC evaluates it
on every `DataReader` run:
- the enabled layers are among the layers;
- `Pubs` is finite;
- clocks are integers;
- the hash queue size is positive;
- `MaxAccepted` is a natural.

These proofs hold for every such value, and so for the real queue size of 64 and
64-bit clocks without wrap-around.

### `LogProviderProofs`

`FileClosedOnce` is not inductive on its own. A `Stop` that `fclose`s
`m_logfile` must know that this file is still open. The inductive invariant
`LogInv` adds:
- `LogTypeOK`;
- `closes[f]` is 1 exactly on the closed files;
- a non-null `m_logfile` is open;
- the files of later `Start` calls are unopened, so `StartFile` opens a fresh
  one;
- `stopped` implies `~created` and nothing written.

TLC checked `LogInv` before the proof, with `MaxStarts = 2` and every open
outcome. `InitLogInv` and `NextLogInv` (one step per action) prove it
inductive, for any loggers, stoppers, levels and bound on `Start` calls:
- **`FileClosedOnceTheorem`** proves `LogSpec => []FileClosedOnce`.
- **`NoLogAfterStopTheorem`** proves `LogSpec => NoLogAfterStop`. In a
  state where `stopped` holds, `m_created` is false, so `LogLocked` writes
  nothing.

- **`LogFileOpenOnSingleStart`** proves
  `MaxStarts = 1 /\ (FileEnabled => OpenOutcomes \subseteq {"ok"})` implies
  `LogSpec => LogFileIsOpen`. This is the action property that `log_ok`
  checks. Both hypotheses are necessary:
  - `log_fopen_fail` breaks the property when `StartFileLogging` fails.
  - With `MaxStarts = 2`, TLC breaks it even when every `fopen` succeeds.
    `Start` takes no lock, so a `Stop` that passed its `m_created` check
    before a second `Start` can null `m_logfile` between that `Start`'s
    `StartFileLogging` and its `m_created = true`.

  The inductive invariant `OpenInv` adds to `LogInv`:
  - before the first `Start`, and during a `Start`, `m_created` is false and
    no stopper is past its check;
  - with the file sink enabled, `m_logfile` is non-null while `m_created` is
    true or a `Start` is under way.

  `LogLocked` writes to the file only when `m_created` holds, so it writes to
  `m_logfile`, which is then non-null and, by `LogInv`, open. TLC checked
  `OpenInv` before the proof, with the file sink on and off.

**Assumption.** `LogProviderAssumption` gives the sink flags as Booleans,
the open outcomes among the three of `StartFileLogging`, and a positive bound
on `Start` calls.

### `ServiceClientLifeProofs`

**`RegistryMatchesHandles`** proves `LifeSpec => []RegisteredIffHeld`. While
the client gate exists, its registry equals `Held`, the impls that live,
non-moved-from handles point to. This is not inductive on its own:
- Destroying or moving out of a handle removes its impl from `Held`. That is
  right only if no other handle holds the same impl.
- Constructing a handle adds a fresh impl. That is right only if the impl is
  not already held.

`LifeInv` adds:
- a non-null handle is live and its impl was created (`used`);
- no two handles hold the same non-null impl.

The lemma `HeldUpdate` says how `Held` changes when one handle is
reassigned. `NextLifeInv` has one step per action: `Construct`, `Destroy`,
`MoveConstruct`, `MoveAssign` and `GateDown`. TLC checked `LifeInv` on
`client_registry` first.

**Assumptions.** `ServiceClientLifeAssumption` states that:
- `Impls` is finite;
- handles and impls are distinct;
- the null pointer `NoImpl` is not an impl, since `CreateInstance` returns
  `make_shared`'s non-null pointer.

### `ServiceCallProofs`

**`CallResultCorrect`** proves `CallSpec => []CallResultMatchesTasks` for any
servers, discovery changes and order in which the async tasks finish. The
property speaks only of the state at return. `CollectInv` describes the
collection loop:
- every future got so far belongs to a finished task, so its outcome can no
  longer change;
- the flag is the "and" of those outcomes;
- the response vector holds their reports in snapshot order;
- the loop returns only past the last future.

`FinishTask` preserves it: a running task lies at or after the next future,
because every earlier one is finished. `LaunchType` shows that the snapshot
from `GetClientInstances` is a sequence of servers with one running task per
entry. Its length is the cardinality of the finite set of known ids, which is
why `ServiceCallAssumption` requires `Servers` to be finite.

**Only model-checked.** These stay with TLC:
- the liveness property `BufferedSampleTaken`. Its proof needs fairness and `ENABLED` reasoning, which the installed TLAPS
  backends cannot do;
- the violation runs, whose point is a counterexample.

## 5. Not modelled, and the plan

- **Not modelled in `CDataReader`.** These only copy or format data that no
  property reads:
  - `SetAttribute`/`ClearAttribute`, which are also unlocked (a hazard);
  - `ApplyLayerParameter`;
  - `GetRegistrationSample`;
  - `Dump`;
  - `GetFrequency`.
- **`CServiceClient`.** These only forward to `CClientInstance` or
  `CServiceClientImpl` (outside this file) and change no state here:
  - `CallWithCallbackAsync`;
  - `IsConnected`;
  - `GetServiceName`.

  Calls on a moved-from handle (`GetClientInstances` dereferences its
  implementation too) are not actions of `ServiceCall`. The client's
  implementation and the gate are modelled only as a registry.
- **`CLogProvider`.** The following are not modelled:
  - `GetLogLevel`, which only reads;
  - a torn read of a filter word written by the unlocked setters;
  - the leak of a file when `Start` runs twice without `Stop`.
- **Monitoring, public headers, tests.** These are declarations and test
  drivers with no state machine of their own.
- **Plan.**
  - P4 ("connected once between disconnected or start"), which needs a
    history of events per publisher.
  - A violation run for the second `Start` racing `Stop`, when the run
    budget allows one. For now it is a hazard, and a hypothesis of
    `LogFileOpenOnSingleStart`.
- **Out of reach.** These are listed as hazards without a property:
  - data races on `m_id_set` and `m_attr`, which are undefined behaviour;
  - deadlocks from user callbacks that re-enter the reader;
  - 64-bit clock overflow.

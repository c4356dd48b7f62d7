# Verification of softnix-log-agent

TLA+ specifications of the agent's own protocols, the TLC configurations that
check them on small instances, and TLAPS proofs of what matters most for every
instance.  Everything is translated from the Rust source; `PROJECT.json` maps
each definition to the lines it stands for, lists the hazards the properties
are aimed at, and lists the places where a comment or document of the
repository says something else than the code does.

## 1. The system

The agent collects log events (files, syslog, Windows event log), transforms
them and delivers each to one or more destinations through a persistent queue
per destination.

    inputs --EventSender--> run_pipeline --try_send--> run_router (one per output)
      |  \                   (transform,                    | push
      |   cursors             enrich, route)                v
      |   in StateManager                              DiskQueue  (segment files)
      v                                                     | peek_batch / ack
    state.json                                              v
                                                       OutputWorker --> Sink

| component (source) | state it keeps | operations | what is hard | what makes it correct |
|---|---|---|---|---|
| Persistent queue (`buffer.rs`, `fsutil.rs`) | `Inner`: segment files, write position, cursor, peek position, `count`, `bytes`; `cursor.json` | `open`, `push`, `push_blocking`, `peek_batch`, `ack`, `reset_peek`, `wait_data`, `is_full`, `oldest_age_secs` | two tasks under one mutex; a cursor written outside it; evictions under a batch in flight; buffered writes that fail late; crash between any two effects | accepted events are delivered, evicted or visibly lost; in order; nothing confirmed comes back; counters agree with the files; the cap holds |
| Output worker (`outputs/worker.rs`) | backoff, the batch in flight | wait, peek, send, ack or reset, final flush | retry after partial delivery, cancellation in every wait | at-least-once, in order |
| Engine (`engine.rs`) | tasks, cancellation token, channels, byte budget | `start`, `stop`, `run_pipeline`, `route_event`, `run_router` | shutdown order, drain with blocking sends, partial start, failover on a health flag | every accepted event reaches a queue or a counter; stop ends; the budget bounds the channel |
| File input (`inputs/file.rs`) | `tracked`: identity, offset, size, mtime, first-line hash of each path | discovery, tailing | rotation, truncation and deletion between any two system calls; restart; cancellation in the middle of a batch | every complete line is read, once unless the agent restarts |
| State manager (`state.rs`) | cursors, known inputs, checkpoints, dirty flag; `state.json` | `set_cursor`, `set_checkpoint`, `prune`, `flush` | concurrent setters and flush, failing writes, throttled touch against retention | what was set is eventually saved; live cursors are not pruned |
| Syslog input (`inputs/syslog.rs`) | connection permits, one task per connection | accept, handshake, read, time out, receive datagrams | permits over every exit path; timeouts against a slow pipeline | the cap holds, permits come back, whole messages are not abandoned |
| Event log input (`inputs/eventlog.rs`, Windows) | bookmark, checkpoint, handles | subscribe, drain, checkpoint, retry | checkpoint against hand-over, resubscription, early returns | a resume token skips only what was sent while the pipeline ended; no replay, no gap after the first record, no leak |
| Lifecycle (`main.rs`, `web.rs`) | engine, configuration file and its backup, control channel | boot, save, reload, rollback, shutdown | failing start after a stop, backup of another generation, two writers of one file | the agent runs a configuration it can start with, or exits; its file validates; requests are answered |
| Self-update (`update/`, `main.rs`) | live, staged and retained binaries, watermark | fetch, verify, preflight, swap, restart, health check, roll back, prune | death of the command between two steps, failed restart, two downloads | what is live was verified; a proven build stays at hand; replays are refused, fixes are not |
| Configuration (`config/`, `tls.rs`) | - | `validate`; what `Engine::build` needs | two descriptions of one language | what validates can be started, but for six named reasons |
| Pipeline stages and formats (`event.rs`, `pipeline/`, `outputs/format.rs`) | an event | parse, transform, enrich, test, format | two ways to read a field; escaping against parsing | conditions have one answer; a message arrives as it was sent |
| Environment expansion, service glue, metrics, log buffer | - | text substitution, calls, counters, a ring | - | - |

## 2. Plan

The delivery path came first because every promise of the documentation (at
least once, crash safe, one destination never stalls another) rests on it.

1. `DiskQueueInner`, `DiskQueue` with router, worker and process, and the
   abstract channel `Delivery` that they implement: done.  Every safety property
   that the runs check, and the refinement, is proved in `DiskQueue_proofs`.
2. `StateFile`, `State`, `FileInput`: done, with the proofs of every safety
   property in `State_proofs` and `FileInput_proofs`.
3. `EventLog`, `Syslog`, `Lifecycle`, `Update`, `Pipeline`: done, with the proofs
   of every safety property in `Inputs_proofs` (the first two),
   `Lifecycle_proofs`, `Update_proofs` and `Pipeline_proofs`.
4. `Event`, `Config`, `Stages`: done; operators and one run.  `ValidatedStarts`
   and `SameAnswer` are proved in `Stages_proofs`; `ArrivesWhole` is checked.
5. Open: power loss as a second kind of crash.

Which module rests on which: `DiskQueue` extends `DiskQueueInner` and
instantiates `Delivery` with a refinement mapping, `State` and `FileInput` have one
of `StateFile`; `Stages` extends `Config`, which extends
`Event`.  Components that meet are abstract to each other:
`Pipeline` has a queue as a bounded sequence, which is what `DiskQueue` shows
of the files; `FileInput`, `EventLog` and `Syslog` have the pipeline as a
channel that is open, and at some time after a cancellation closed.

## 3. The queue: `DiskQueueInner.tla`, `DiskQueue.tla`

`DiskQueueInner` holds `struct Inner` and the segment files as one record and
gives the effect of each function of `buffer.rs` on it.  `DiskQueue` has one
action per operation, outcome or failure:

| actions | code |
|---|---|
| `Arrive`, `Push`, `PushWriteFails`, `PushOpenFails`, `PushDropNewest`, `PushDropOldest` (one turn of the eviction loop, the mutex staying held), `PushDropOldestFails`, `PushCancelled` | `run_router`, `push_blocking`, `push`, `roll_segment`, `reconcile_write_segment`, `drop_oldest_segment` |
| `WaitData`, `PeekBatch`, `SendOk`, `SendFails`, `ResetPeek`, `Ack`, `AckUnlink` (one segment at a time), `AckUnlock`, `SaveCursor`, `SaveCursorFails`, `FinalPeek` | `OutputWorker::run`, `wait_data`, `peek_batch`, `ack`, `reset_peek`, `write_atomic` |
| `OldestAge` | `oldest_age_secs`, called by `/api/buffer` |
| `Cancel`, `Stop`, `Crash`, `Open` | `Engine::stop`, the end of the process, `DiskQueue::open` |

`stored`, `refused`, `evicted`, `lost`, `sent` and `confirmed` record what
became of each event; no action reads them.

Abstractions.
* A record is its event's number, its segment and the offset at which it ends.
  Torn records are not kept: every reader takes one for the end of the file,
  and `open` and `reconcile_write_segment` truncate it.
* `flushed` is how much of the write segment has left the `BufWriter`.  A push
  may leave the buffer as it is, write out what it held, or write everything,
  which covers records shorter and longer than the 8 KiB buffer.  A flush that
  fails has written a prefix of the buffer's records.
* A failed send has delivered a prefix of the batch.
* The byte budget of `peek_batch` is a nondeterministic end of the batch after
  at least one record.
* The bytes of a queue, `TotalLen`, are the number of byte positions in its
  files (`FileBytes`), which is the sum of their lengths.
* Waiting times are not modelled: `wait_data` and `push_blocking` poll, so a
  lost notification only delays them.

Not modelled: corrupt or undecodable records, `unlink`, `set_len` or rescans
that fail, power loss (the file system keeps what was written), a queue
directory used by two engines at once, and events longer than the whole queue
(`SizeAssumption`; under `drop_oldest` push would not end).

### Runs

| run | instance | shows |
|---|---|---|
| `queue_block` | block, 4 events of 1 or 2 units, segments of 2, cap 5, one crash or stop, working storage; deadlock checked | `DuplicateWindow`, `EveryStoredEventLeaves`, `EveryPushReturns`; with segments small against the cap the queue cannot wedge |
| `queue_faults` | all policies, 4 events, cap 4, one crash or stop, one failing operation of any kind | `TypeOK`, `NoSilentLoss`, `CountExact`, `Lockstep`, `CapRespected`, `SavedCursorAdvances`, `Delivers` |

The bounds.  Sizes are in units of the shortest record.  `queue_block` has
segments of two units and records of one or two: a record can fill a segment,
share it or overflow it, and a batch of two spans a segment boundary.
`queue_faults` has segments of three units, records of one or three and a cap
of four: evictions take one or two turns and hit the segment in flight, the
acked one and, after two short records and a long one, the write segment
itself.  One fault and one restart suffice for every mutant listed and meet in
one behaviour; all kinds of fault are enabled.
`queue_faults` does not check deadlock: a roll that fails lets a segment grow
beyond its size, after which a block queue can wedge (section 12).
`MaxEvents`, `MaxRestarts` and `MaxFaults` are the only bounds.

Without faults a block queue cannot wedge if, with `L` the longest record,
`SegBytes + 2 * L <= MaxBytes + 1`: what an idle queue holds is one unfinished
segment, to which the next record can be added.  `validate.rs` accepts any
segment size up to the cap.

### The promise: `Delivery.tla`

`Delivery` is the documentation's "at-least-once" as a specification: four
sets of events (`pending`, `delivered`, `confirmed`, `discarded`), events that
are accepted in the order of their numbers, delivered none before an older one
that is still pending, settled, confirmed, and returned by a restart if they
were delivered and not confirmed.  It knows no file, cursor or batch, and has no
source lines of its own.  `Delivers` says that `DiskQueue` implements it under
the mapping

| `Delivery` | `DiskQueue` |
|---|---|
| `pending` | the events a reader at the cursor gets, `Ids(Unread(q, q.cursor))` |
| `delivered`, `confirmed` | `sent`, `confirmed` |
| `discarded` | `evicted \cup lost` |

so `Push` is `Accept`, `Push` with a failing roll, `PushWriteFails`,
`PushDropOldest` and the end of the process are `Discard`, `SendOk` and
`SendFails` are `Deliver`, `Ack` is `Settle`, `SaveCursor` is `Confirm`, `Open`
is `Return`, and the rest stutters.  A retry after a failed send delivers again
what is still pending, and so stutters as far as it delivers nothing new.
What follows from the promise (`Ordered`, `Final`, `NeverForgotten`) is proved
from `Delivery` alone.

`DuplicateWindow` is checked, and proved, where cursor saves do not fail: each
failed save adds its batch to what a restart sends again.

### Fairness

`FairSpec` assumes weak fairness of the router's and the worker's own steps
(tasks of the runtime whose waits all end after 250 or 500 ms), of `Stop`
(eight seconds per task), of `Open` (the service manager restarts the
process), and strong fairness of `SendOk`: a destination that is retried for
ever accepts a batch some time.  Nothing is assumed of the arrival of events,
of crashes or of faults.

## 4. The state manager: `StateFile.tla`, `State.tla`

`StateFile` gives the effect of each method on `struct StateFile`; `State` has
one action per setter (each holds the mutex throughout) and three for `flush`:
`FlushStart` clears the dirty flag without the mutex, `FlushSnapshot` prunes
and serialises under it, `FlushWrite` or `FlushFails` ends `write_atomic`.
`Open` ends the process at any point; `Tick` is the clock of `touched`.
`asked` is a ghost.  Only the engine's flush task and, after it, `stop` call
`flush`, so there is one flusher.  Not modelled: `prune()`, which nothing
calls, a corrupt `state.json`, a clock that goes back.

The run `state` has one file, one checkpoint, one input, a throttle and a
retention of two ticks within four, one failing write and one restart: a cursor
can be left alone, be touched and expire, and a setter can fall into each stage
of a flush.  The flush steps are weakly fair (the task wakes up every five
seconds); writes fail a bounded number of times.

## 5. The file input: `FileInput.tla`

| actions | code |
|---|---|
| `Start`, `Rediscover` | `FileInput::run`, `discover_once` |
| `StartTail`, `Stat`, `Fingerprint`, `Read` | `tail_paths_blocking`, `head_fingerprint`, `read_new_lines`: each system call on a path is a step |
| `SendLine`, `SetCursor`, `Abandon` | `tail_once`: the lines of a result, then its cursor; cancellation |
| `Flush`, `Cancel`, `Stop`, `Crash` | the engine |
| `Write`, `Truncate`, `Remove`, `Rename`, `Create` | the programs that own the files, at any time |

Abstractions.
* A file is its lines and its size; a line is two units, the newline in the
  second.  `FirstLine` is the first line as far as it is written.  Different lines have different
  hashes (the repository documents the other case as a residual race), and
  `mtime` tells any two contents of one size apart.
* Discovery is one step.  A rename between the stats of two paths would at
  worst give one file two entries or none, which the next poll or discovery
  meets as a rename after or before it.
* `flush` is one step, the one that serialises, and writes also what is not
  dirty: `State!InSync`, proved, makes that a stutter.  Time stands still, so no
  cursor is pruned; that is `State`'s subject.
* A poll has one chunk: chunks of 16 paths are polls of fewer paths.

Not modelled: glob errors and panics of the blocking tasks, `READ_BUDGET`,
`MAX_LINE`, coarse mtimes, copies left behind by copy-truncate, the identity on
Windows, parsing.

Properties and what they exempt.  `NoNeedlessReread`: no line is sent twice
without a restart, unless a file moves while a poll is reading, or comes back
to a path before discovery has forgotten it; the second case was found by the
model: the path's old entry, with its old offset, applies again.
`CursorHonest`: what a restart or a rename would resume at has no unread line
behind it.  `EveryLineRead`: every complete line is eventually sent, if its file
stays.  Both exempt `raced`, a file replaced between its stat and its read
(section 12 says what happens then), and `blind`, a truncation between the
discovery that skips existing content and the first fingerprint.

| run | instance | shows |
|---|---|---|
| `file_rotate` | two paths and two files, two lines, two creations, two moves, no restart | `NoNeedlessReread` |
| `file_restart` | two paths, one identity, two lines, two creations, one move, one stop or crash | `CursorHonest`, `EveryLineRead` |

The bounds.  Two lines are enough for a first line and one after it, for a
rewrite to the same size, and for one that outgrows the old offset; two moves
for a rotation over a rotated file, or there and back; one identity that is
created twice is the reuse of an inode.  The systems never stop of themselves
but the bounds end them, so deadlock is not checked.

Fairness.  `Start` and the steps of a poll are weakly fair (a task of the
runtime; the pipeline takes lines for ever; the service manager restarts the
process), discovery and the poll strongly, as `select!` picks at random among
the two tickers.  Nothing is assumed of the files, of crashes or cancellation.

## 6. The data path: `Pipeline.tla`

| actions | code |
|---|---|
| `Read`, `Acquire`, `TryAcquire`, `GoesWithout`, `Send`, `SendFails` | `EventSender::send` (waits for permits first come first served, then for room) and `blocking_send` (polls, and goes without when cancelled) |
| `Take`, `Skip`, `Route`, `Shed`, `StartDrain`, `Drained`, `Return` | `run_pipeline`, `route_event`: one router at a time, with `when`, failover and shedding; the drain |
| `Store`, `Evict`, `Refuse`, `PushFails` | `run_router`, `push_blocking` |
| `Deliver`, `DeliveryFails` | `OutputWorker::run`: the queue is emptied, or the health flag falls |
| `Cancel` | `Engine::stop` |

`PushFails` is `DiskQueue::push` with an error.  Under `drop_oldest` it may have
evicted the oldest first, whose number is lost with the error.  Then either the
write failed (`WriteFails`), and the last stored records that were still in the
writer's buffer are lost with it, `destroyed`, which nobody counts; or the roll
after the append failed (`RollFails`), and the event is in the queue although
the router counts it as dropped (`overcounted`).  What was evicted first is
`destroyed` in either case.

`fate`, `accepted`, `early`, `gone` and `overcounted` record what became of each
event; but for the order in which an input reads (`accepted`), no action reads
them.  A router's channel includes the event that the router has in hand.  The
transformer is a set of events it cuts, a condition a set of events it accepts.  A configuration without outputs, of which `validate` only
warns, is one of the model's (`Order` may be empty): its events are taken and
discarded.

The run `pipeline` has one input of each kind, three events, of which one takes the
whole budget of two, one failing push, a blocking destination, and a second
that evicts in two setups and, in the other, refuses, stands by for the first
and accepts not every event.  In one of the former the queues hold two events,
so that a failing push finds two that are stored, and can destroy both: one
that was evicted for it, and one that was in the writer's buffer.  In the other
two setups they hold one, so that the blocking destination's queue and router
are full while the pipeline has an event for it.  Every channel and queue is
full in some state.  Nothing is assumed of a destination: its worker may sit in
a send for ever, as one does whose peer stops reading.  The pipeline, the
senders and the routers are weakly fair: tasks and threads that run when what
they wait for is there.

`BudgetConserved` speaks of the running engine: a blocking sender that went
without a permit makes the semaphore grow, and only after the cancellation.
`Accounted` says that every accepted event is, for each destination, in one
place or has one fate, and what `events_dropped` stands for: each event that
was shed, evicted, refused, cut or in hand when a push failed, once, of which
as many as are `overcounted` were not lost.  What is destroyed and not counted takes a failed
push.  It also says that a stop loses nothing that was accepted before it; what
is accepted between the drain's last `try_recv` and the drop of the receiver is
lost without a counter (`gone`).

## 7. The syslog input: `Syslog.tla`

`Accept` has the three outcomes of an arrival (refused address, no permit, a
task); a task goes through `Shaken`, `HandshakeFails` or `HandshakeTimesOut`,
then `ReadFrame` and `Sent`, until `ReadEof`, `IdleTimesOut`, a frame the codec
refuses, a closed pipeline or `SeesCancel`.  `Receive` and `NextLine` are
`run_udp`.  Peers connect, write, fall silent or close as they like.  A timeout
is an action that is enabled when the peer has been silent: the code's clock
runs only while the task waits for a frame, which is what `NothingAbandoned`
is about.

The run `syslog` has two peers, of which one is an IPv4 host reached through
IPv6, one slot, and scripts with empty and refused lines.  Weak fairness of the
runtime (tasks that can move, and timers) and of a peer that does not hang.

## 8. The event log input: `EventLog.tla`

One thread per channel: `Subscribe` or `SubscribeFails(stage)`, `Wait`,
`EvtNext`, then for each record `Render` (which advances the bookmark) and
`Send`, `Checkpoint`, `ResetSignal`, and after an error or a cancellation
`Close` and the backoff's `Sleep`.  `Log` is whoever logs; `Flush` is the state
manager's; `PipelineEnds` has two steps, the drain and the drop of the
receiver.  A bookmark is the number of a record; 0 is one that was never
updated, which Windows takes for the start of the log.

`first` is how long the log was at the very first attempt to subscribe: if
existing records are not to be read, those are left out on purpose
(`Excluded`).  `missed` are later records that a subscription to future events
only left behind it, `refused` those that were sent when `run_pipeline` took no
more.  The channel accepts events until the receiver is dropped, also after
the last `try_recv`, so that the rest of a batch in hand can be sent to nobody,
and be bookmarked, record by record; the first send that is refused ends the
attempt, and a cancelled loop fetches no other batch.  `CheckpointHonest`
therefore allows one batch per exit, and nothing else.

Not modelled: rendering a record into an event, the publishers' metadata, more
than one channel (channels share nothing but the state manager), and the
clearing of a log.

The run `eventlog` has batches of two, three records, two failing calls and one
stop or crash.  `MaxDelay` is reached by the second failure.  `Attempt` is
weakly fair: a thread of its own whose waits are bounded by `WAIT_MS` and the
backoff.  `EveryRecordHanded` exempts what is `refused` or `missed`, and says
that nothing is missed any more once `state.json` has a checkpoint.  The two
exemptions are real, and contradict the documents that section 12 quotes;
`eventlog_skip` (two records, no fault, one stop) shows the first.

## 9. Lifecycle and update: `Lifecycle.tla`, `Update.tla`

`Lifecycle` has the control loop (`Receive`, `Hangup`, `Terminate`), a reload
step by step (`Load`, `StopEngine`, `StartNew`, `Started`, or `StartFails`,
`RestoreOpened`, `Restored`, `RestartedOld`, or the exit), a rollback
(`RolledBack`, `RollbackRefused`), and the web handlers, each of which opens,
fills and closes the backup and the file in steps of its own.  A file that is
open for writing holds `Torn`; the process may die at any step.  `tasks` are
whose tasks run: those of the engine, of an engine half built, and `slow`,
listeners that outlived the eight seconds of `Engine::stop`.  Until `SlowEnds`
they hold their port, so that a configuration that binds one does not start
(`Starts`), no more than when another program has it (`PortTaken`).  Other tasks that
outlive a stop are left out, as no start depends on them; what two workers on
one queue directory do is not modelled.  `changes`, `fresh` and `damaged` are
ghosts that name what the properties exempt: more than one save since the configuration was loaded, and
a file that was edited by hand or had a writer that died, failed or was not
alone.  `FileUsable` says that the file parses and validates: whether the engine
can start with it is known only when it tries, which `RunsOrExits` and
`RestoresRunning` are about.

The run `lifecycle` has four configurations (one that binds a port, one that
binds none, one that does not start, one that does not parse), two clients, two
requests, a control channel of one, one failure and one exit.  Fairness: the
loop and the handlers run when they can; `Receive` is strongly fair because
`select!` chooses at random, so signals do not starve a message.

`Update` has one upgrade command at a time, on Linux with the steps of
`apply_from_local`, `stage_and_swap`, `wait_for_healthy`, `rollback`,
`Watermark::record` and `prune_old_versions`, and on Windows `apply_msi`.  Binaries are
inodes, since the live file and the retained one can be two names of one.
`ServiceStarted` is the service manager.  A release is a record of what the
checks look at.  `proven`, `interrupted` and `floor`, the watermark when the
latest command began, are ghosts.

The run `update` has eight releases (`MCUpdate`): the installed, a good, a bad,
an unsteady second issue of the bad one's version, an expired, a forged, a
damaged and an unfit one; three files staged, one failing call, one death.  Two
of three polls must succeed, in a row.  `Command` is weakly fair: every wait of
an upgrade is bounded.

`LiveVerified` exempts the build that was installed by hand, before there was a
signature to check.  `NoReplay` speaks of both platforms: what goes live is a
build that was put aside, or one whose serial is above all that were recorded
when the command began.  On Windows the watermark is recorded before the
installer runs, so that `floor` and not the watermark is what the new build is
compared with.  `NotLockedOut`, `WayBack` and `BadBuildReplaced` are about Linux
with the web interface enabled: without it there is no health check, and on
Windows the installer keeps no build aside.

## 10. From line to line: `Event.tla`, `Config.tla`, `Stages.tla`

`Event` has fields and conditions, `Config` has validation and what
`Engine::build` requires, and `Stages` takes one configuration through
`Validate` and `Build` and one line through a parser, the transforms, the
enrichment, an output's condition and its format into the parser of another
agent.  A string is a sequence of atoms: characters the code looks for, and
words it never looks into, one of which is as long as the older format's tag
can hardly be.  Arrays and objects, the timestamp formats one by one, and
numbers beyond one digit are left out, but for a facility.

A file named by a TLS section is what it holds: nothing, no PEM, a root that
rustls refuses, a key that is not the certificate's, or what it should.  An
address is an IPv4 or an IPv6 one, as the listener's constructor takes only the
first.  Two listeners collide if they use one transport and one port, on one
address or with all addresses on either side, as on Linux; a port that another
program has, and a directory that cannot be made, are the machine's and not the
configuration's.

A listener splits what it receives at newlines, trims each line and skips the
empty ones (`Heard`).  Messages longer than the listener takes are not modelled,
nor is an output's octet-counted framing, which the agent's own listener, a
reader of lines, does not know.

The run `stages` enumerates (`MCStages`) a configuration with one of everything,
the same with one thing wrong or unusual at a time (TLS files of no use, on
either side; listeners that collide, and that nearly do; an output's name that
is no file's), five chains of transforms in four formats, and lines in every
syntax with brackets, quotes, backslashes, byte order marks, spaces around a
message, a newline, a long application name, a facility of 24 and names of core
fields as custom fields.  It is a run over inputs: each behaviour is one
configuration and one line, and deadlock is not checked.

`ValidatedStarts` lists in `Unbuildable` what validates and does not start,
`ArrivesWhole` in `Plain` and `Received` what does not arrive as it was sent;
section 12 has both lists.

## 11. Proofs

Each module `X_proofs` proves its theorems of `X!Spec`, without fairness, for
every value of the constants that meets the named assumptions of `X`
(`Inputs_proofs`: of `EventLog!Spec` and `Syslog!Spec`).  An
inductive invariant (`IInv` unless another name is given) was first checked by TLC as an
invariant of the component's run, then proved: one lemma for the initial
states, one for each action or group of alike actions, and one that puts them
together.  The theorems follow from it.

### The queue

For all policies, sizes and bounds:

* `TypeCorrect`: `Spec => []TypeOK`.  `TypeOK` is inductive (`StepType`).  It
  excludes negative counters, and says that the write segment always exists.
* `NothingSilentlyLost`: `Spec => []NoSilentLoss`.  `NoSilentLoss` speaks of
  positions a restart can resume at and is not inductive.  `IInv` adds to the
  type invariant
  - `Files`: the write segment is the newest, every record lies in an existing
    segment, cursor and peek position lie in existing segments and not beyond
    what has been flushed, and the cursor is not beyond the peek position;
  - `CursorFileBehind`: `cursor.json`, and the cursor about to be written to
    it, are not beyond the cursor in memory;
  - `BatchCovers`: every record between cursor and peek position is in the
    worker's batch, and a delivered batch has been sent;
  - `Accounted(q.cursor)`: the property itself for the cursor in memory.

  `Keeps(i, j, R)` says that a function of `DiskQueueInner` turned queue `i`
  into `j` and took no record from a reader but those in `R`; there is one
  such lemma per function and one step lemma per action.  The last step,
  `IInvNoSilentLoss`, is that a restart never resumes beyond the cursor: the
  saved cursor is behind it, and if its segment is gone, `open` takes the
  next surviving segment, which is not beyond the cursor's.
* `CursorFileAdvances`: `Spec => SavedCursorAdvances`, from the same `IInv`.
* `QueueDelivers`: `Spec => Delivers`, the refinement.
  The invariant `DInv` adds to `IInv`
  - `RecOrder`: records lie in the files in the order of their events' numbers,
    and no event has two - without which a record could go and its event stay;
  - `ArrivedInOrder`: what the queue has seen is older than the event the
    router holds, so that what is accepted is new;
  - `BatchAhead`: the batch is pending or discarded, and older than every
    record beyond the peek position, so that a delivery leaves out nothing older;
  - `PassedSent`: every record in front of the cursor was sent, and
    `ConfirmedBehind`: no confirmed record is behind `cursor.json`'s position,
    so that a restart returns what was sent and not confirmed.

  `Follows(i, j)` says that `j` has some of `i`'s records and reads them from the
  same place on; there is one such lemma per function that takes records away,
  one lemma per action of `Delivery` that says what makes a step one
  (`AcceptStep` ...), and one lemma per action of `DiskQueue`.
* `OneBatchResent`: `Spec => []DuplicateWindow` if `"cursor" \notin Faults`, that
  is, if no save of `cursor.json` fails; without that the property is false, and
  README.md's "last un-acked batch" too (each failed save adds a batch).  `WInv`
  adds to `DInv` that a reader at `cursor.json` and one at the cursor get the
  same records except between an ack and its save (`SameReader`), and that what
  such a reader gets of the events that were sent is a batch's worth and older
  than the rest (`Window`): the cursor's ack can only be one batch ahead of its
  save, however many evictions and partial deliveries fall in between.
* `CountersInLockstep`, `SizeCapped`, `EventsCounted`: `Lockstep`, `CapRespected`
  and `CountExact`.  `CInv` is their conjunction with `DInv` and one more fact,
  which `CountExact` needs: without `drop_oldest` every event of the batch is
  still in the files in front of the peek position, so `ack`, which subtracts
  the length of the batch, subtracts what the cursor passes.  The step lemmas
  account for every file that is created, grows, is truncated or unlinked.
* `DeliveredInOrder` and `NothingForgotten`: the queue satisfies `Ordered`,
  `Final` and `NeverForgotten` of `Delivery`, by way of `QueueDelivers`.  `PInv`,
  which is proved of the promise alone, adds that what is confirmed was sent, so
  that nothing that comes back had been confirmed.

### The state manager

For any files, inputs, throttle and retention:

* `TypeCorrect`: `Spec => []TypeOK`, inductive.
* `SavedOrDirty`: `Spec => []InSync`.  A flush under way is why `InSync` is not
  inductive; `Unsaved` adds that, if nothing has been marked since the flag was
  cleared, the bytes serialised are the state in memory.
* `PolledFilesKept`: `Spec => []PolledFileKept`, from `TouchedWhenAsked`: a
  cursor was touched less than a minute before the last call for it, and a
  cursor that is gone was last asked for too long ago.

### The file input

For any paths, files and numbers of lines, creations, moves and restarts:
`TypeCorrect`, `CursorsHonest` and `NoLineTwice`.  A file is recognised by its
inode and the fingerprint of its first line, and both can be those of another
file.  The argument: a fingerprint is only ever taken of a line that has been
begun (`Begun`), and what is written in the place of a file's lines is new
(`Files`, `Kept`); so a fingerprint that agrees with a complete first line says
that the file has only grown since.

- `HonestInv`, for `CursorHonest`, says this of every offset that is kept: a cursor
  in memory or in `state.json` whose fingerprint agrees is behind lines that were
  sent or skipped (`CursorsSound`), one in a poll's results behind those and the
  lines of the results up to its own (`ResultsSound`), an entry of the tailer
  behind those and all lines in hand (`EntriesSound`); and between stat and read
  the file at the path is the one that was looked at (`Held`), except for `raced`.
- `FreshInv`, for `NoNeedlessReread`, is the other direction: what was sent or is in
  hand lies in front of the offset of whoever would read the file next, and its
  fingerprint agrees (`LiveAhead`, `LatestAhead`); a path has one result in a
  poll, and a line is in hand once.

The proofs ask for one assumption more than the instances show: `None` is not a
fingerprint, a number, a cursor or an entry.

### The event log input

For any batch size, backoff and number of records, failures, stops and crashes:
`TypeCorrect`, `CheckpointsHonest`, `NothingResent`, `HandlesAreClosed`, and the
action property `NoGap`.  The invariant adds to the types
- `Handles`: which handles are open at each place, and that the record handles
  are those of the batch in hand, less the one that was rendered;
- `Returned`: the batch is the upper end of what the subscription has returned;
- `Behind`: everything up to the subscription's position, the bookmark, and
  both checkpoints was handed over, could not be rendered, was left out or
  missed by where a subscription started, was refused, or is the batch - the
  bookmark being ahead by the record in hand;
- `Cost`: what exits have cost is a batch each, and, once cancelled, a batch
  more with what is still in hand, because no other is fetched and because the
  pipeline does not end before the cancellation;
- `Fresh`, while the process lives and every bookmark could be rendered: what
  was handed over lies behind the bookmark, or behind the checkpoint as long as
  the attempt has none.  `ResentOnlyAfterCrash` alone says nothing of what the
  next record is.

### The syslog input

For any connections, peers, scripts and limits; the module instantiates `Syslog`
with names of its own for the token and the count of failures, which the event
log input has too.

* `MessagesRead`: `Syslog!Spec => Syslog!NothingAbandoned`.  `Served` says that a
  peer's messages are on the wire only once its task reads, so that an end before
  that (no permit, a sender that is not allowed, a failed handshake) abandons
  none, and that the pipeline closes only after the cancellation; every other end
  is a case of the step.
* `SlotsAccounted`: the type invariant and `Slots`, that free permits and open
  connections add up to `max_connections` on every way out of a task.
  `Waiting`, that a connection waits in the backlog once, is what makes accepting
  it open one more.  It asks for a finite set of connections.

### Validation and conditions

* `ValidatedBuilds`: `Spec => []ValidatedStarts`, for every configuration.  There is
  one lemma for each part of `Engine::build` - queues, workers, routers,
  transformer, listeners, file inputs - which compares what the constructor needs
  with what `validate` has looked at, and names what is left: a file that is there
  (`require_file`) and that rustls does not take is a useless one (`RootsLoad`,
  `PairsLoad`), and a listener that finds another in its way is one of two that
  collide.  `SInv` adds that what is being built has passed validation.
* `PathsAgree`: `Spec => []SameAnswer`, for any lines, transforms and conditions.
  The two paths differ in the fields that are read in place, so `EInv` says that
  every event between the stages is `WellFormed`: these fields hold a string or
  nothing.  There is one lemma per parser and per transform.  The
  pairs of a line are taken by a fold, for which the library's induction theorems
  cannot be used; for one fixed predicate a minimal counterexample does
  (`LeastNatural`): before the first pair that leaves an ill-formed event there
  would be a well-formed one, and taking one pair keeps it so.

Both rest on `ConfigsAssumption` (modes and formats are those of the enums, a
server's TLS section has a certificate and a key, and the hostname to fill in is
a string, as the schema has them), `PathsAgree` also on
`LinesAssumption` (what a line is parsed into are sequences of pairs) and
`ConditionsAssumption` (the conditions that are compared have an operator with two
paths; numbers are compared on one path only).

### The process and its configuration file

For any configurations, clients and numbers of requests, failures and exits:
`TypeCorrect`, `AgentRunsOrExits`, `FileStaysUsable`, and the action property
`ReloadRestores`.  `LoopShape` ties the place of the control loop to the tasks
that exist and to what the handlers see; `Queued` that nobody waits twice in the
control channel; `Files` that, as long as nothing was damaged, one writer at a time
has the file or the backup open.  `ReloadRestores` needs `Changes`: of the
configuration a reload would go back to, no change leaves it in the file, and
one change leaves it in the backup or on its way there (`Kept`), counted from the
load that the engine runs with, and separately from the load under way.

### The update

For any set of releases and any number of failing calls and deaths:
`TypeCorrect`, `OnlyVerifiedLive`, `HealthyBuildAtHand`, `NewerStaysInstallable`,
and the action property `ReplaysRefused`.  `Position` says which release each
step has staged, linked or swapped in; `Distinct` that the staged file is nobody
else's inode, so that writing it changes no binary that is live or retained;
`Verified` and `Proven` what was checked and what has proved healthy, for the
live, the running and every retained build.  `Recorded` is what `ReplaysRefused`
needs, on both platforms: until it is recorded, a release in hand is newer than
the watermark, which has not fallen since the command began; and between the
record and the installer, on Windows, it is newer than `floor`.  The proof asks for one assumption
that the instance had hidden: `None` is neither a release nor a file.

### The data path

For any inputs, outputs, conditions, sizes and capacities, with no output at all
as well: `TypeCorrect`, `BudgetHolds` and `EveryEventAccounted`.  Neither property
is inductive.
- `Inputs`: an event that an input holds is its own and was not accepted yet, and
  whoever sends before the cancellation has paid.  So admitting it adds its size to what is
  inside, and a send that fails takes exactly that away (`BytesAdd`).
- `Budgeted` is `BudgetConserved` with what was dropped with the channel still in
  the gauge, as it is in the code.
- `Places`: the channel, the pipeline's hands and each router have an event
  without repetition, and for one destination in one of them.  Without it a
  router could pop an event that is pending elsewhere.
- `Fated` and `Counts` are `Accounted` but for its last two conjuncts; `Settled`
  is the lemma that what leaves its last place gets its fate there, and is
  counted if that is a loss.
- `Faulted`, kept beside `IInv`: each failing push leaves at most one event in
  the queue that it counts as dropped, and without one nothing is destroyed.
  `Counts` has to add such an event although it has no fate of a loss, now or
  later.
- `Ending`: the channel is dropped only when it holds nothing that was accepted
  before the cancellation.

`EveryEventAccounted` is what the code keeps to, not what its comment says
(section 12).

### Only model-checked

* The liveness properties (`EveryStoredEventLeaves`, `EveryPushReturns`,
  `EventuallySaved`, `EveryLineRead`, `OthersKeepFlowing`, `StopEnds`,
  `EveryConnectionEnds`, `EveryRecordHanded`, `EveryRequestAnswered`,
  `BadBuildReplaced`): fairness and `ENABLED` are out of the prover's reach.
* `ArrivesWhole` of `Stages`, the only safety property that is not proved: what
  the writer's and the reader's recursive functions and folds compute of every
  string is an induction over data with a predicate that changes with the string,
  for which the library's theorems take an operator as a parameter; and
  priorities go through `ToString`, which only TLC evaluates.

## 12. Where the code and its documents differ

Shown by a run:

* `inputs/eventlog.rs:6-7` promises at-least-once delivery that resumes after a
  restart.  The bookmark is advanced before the record is handed over; if the
  pipeline ends in between, the checkpoint saved on the way out is beyond a
  record that nobody took (`eventlog_skip`).  As the channel accepts records
  between the drain's last `try_recv` and the drop of the receiver, the rest of
  the batch in hand, up to 64 records, can go the same way.  `CheckpointHonest`
  shows that it is never more than one batch per stop, and nothing besides.

Met while modelling; the models take these steps and their properties exempt
or include them as said:

* `count` is "events between cursor and end of queue" (`buffer.rs:65`), but an
  eviction under `drop_oldest` that overlaps the batch in flight is subtracted
  twice.  `CountExact` speaks of the other policies.
* `is_full` is there so that a blocked queue is visible (`buffer.rs:430`), but
  is false when everything stored has been acked and the write segment fills
  the queue, in which state every push waits for ever.
* `docs/CONFIGURATION.md:182` says that an input collects only what arrives after
  its start when it runs for the first time, and lines 198-199 that it resumes
  after a restart.  An input that is stopped before a first record has given it
  a bookmark has no checkpoint: it subscribes to the future again, and what was
  logged while it was down is missed (`missed`).
* The router's comment says that an event whose push failed "reached neither
  the queue nor any counter before" (`engine.rs:527-528`).  When only the roll
  after the append failed, it is in the queue, is counted there, and is
  delivered; `events_dropped` counts it all the same (`overcounted`).
* A push that fails is one event in `events_dropped`.  The write error can take
  earlier records of the writer's buffer with it, which were counted as stored,
  and under `drop_oldest` the number of what was evicted is lost with the error:
  `Accounted` has these as `destroyed`, and `DiskQueue` as `lost` and `evicted`.
* `docs/CONFIGURATION.md:411-412` says that UDP events that are too large are
  counted in `events_dropped`; the sink only logs them (`outputs/syslog.rs:132`),
  and they are acked with their batch.
* `README.md:80` promises that a crash never loses data silently; records
  acknowledged by `push` may still be in the process's write buffer.
  `NoSilentLoss` counts those as `lost`.
* `docs/ARCHITECTURE.md:51` says that partially written lines are never
  emitted.  An input that first runs while a line is half written starts in
  the middle of it and emits the rest as a line.
* `README.md:296` limits the loss of a rotated file's tail to files that leave
  the patterns.  A rename between the stat and the read of one poll moves the
  old file's cursor by what was read of the new one, and lines of the old file
  are passed over although its new name matches (`raced`).
* `validate` does not see everything that building the engine needs.  Six kinds
  of configuration validate and do not start (`Unbuildable`): an output's name
  that is no file's; a pattern that does not compile beside a parser mode that
  does not use it; a syslog listener's IPv6 address; two listeners on one port;
  and, at a listener or at an output, certificate, key or root files that are
  there and that rustls does not take.
* What one agent sends in a syslog format, another does not always read back
  (`Plain`, `Received`).  The spaces around a message are lost, and in RFC 5424
  its byte order mark.  RFC 5424 structured data is written with `[` unescaped
  and read by counting brackets, so that a custom field with an opening bracket,
  in its name or its value, makes the reader take the message for structured
  data.  A facility above 23, which the writer allows, is a priority that no
  reader takes; an RFC 3164 tag of more than 48 bytes stays in the message; a
  newline ends one; and headers are written with the blanks and colons they hold.
* An upgrade that died with an unproven build live, tried again, deletes the
  retained file and retains the unproven build in its place (`interrupted`);
  two retained files, which a death before the pruning leaves, make
  `--rollback` refuse (`apply.rs:432`).

## 13. Not modelled

Power loss; corrupt records and a corrupt `state.json`; a queue directory used
by two engines at once; sockets below a frame or a batch (a datagram too large
to be sent is skipped and acked, `outputs/syslog.rs:132`); YAML, environment
expansion and the schema's defaults; authentication and the read-only pages of
the web interface; service managers; signatures, archives and TLS as such;
metrics other than those a property needs.

# A TLA+ model of disponent

Disponent dispatches coding agents into environments (a local tmux session, a
local first-party terminal holder, an exe.dev VM, a modal sandbox), watches their
terminals, and keeps a typed ledger of sessions, events and messages, mirrored
by default into a SQLite file. This directory holds TLA+ modules for the parts
of it where order, failure and restart matter, TLC configurations that check
them on small instances, and TLAPS proofs of the main safety results.

Paths below are relative to `src/crates/`: `core` is `disponent-core/src`,
`hold` is `disponent-hold/src`, `cli` is `disponent-cli/src`, `node` is
`disponent-node/src`.

## 1. Inventory

### Session state machine (`core/status.rs`)
*State:* one word per session row. *Operations:* the table of legal edges, asked
before every move. *Correct when:* no row leaves a terminal state, and no row
takes an edge the table does not have.

### Engine (`core/engine.rs`)
*State:* `Ledger` behind one mutex: sessions, dispatches, environments, events,
messages. *Operations:* `open_with` (restore from the mirror and re-watch),
`dispatch` with the thread `provision` it spawns, `cancel`, `reap`,
`reconcile`, `resume`, `input`, `refresh`, reads. *Interactions:* calls a
backend and an agent adapter, with the lock held in `cancel`, `reap` and the
second half of `reconcile`, and without it in the provision thread and the
survey; spawns observers in a pool; writes the mirror after each change.
*Hard:* what happens between two lock sections, errors half-way, a process
death between an effect on the world and the row that records it.
*Correct when:* the row follows the state machine whatever the interleaving,
archiving means that the teardown returned, and nothing running is forgotten.

### Terminal watchers and collector (`core/engine/watch.rs`, `core/observe.rs`, `core/detectors.rs`)
*State:* a pool of observers, a queue of observations, two detectors per scraped
session. *Operations:* `watch_session` picks the tier (an exact holder stream,
or polling `capture`), each poll yields observations, the collector folds them
into the ledger every 250 ms. *Hard:* the exit travels through a stream, a pool
and a queue, and meets a row that may have moved; a dropped connection looks
like the end of the stream. *Correct when:* only a real exit completes or fails
a session, and it eventually does; a printed line is told once; a quiet span is
reported once.

### Messaging and the event log (`core/engine/messaging.rs`, `core/engine.rs`)
*State:* messages and events in memory, each event numbered within its session.
*Operations:* `send`, `worker_send`, `ack`, `worker_ack`, `messages`, `events`
with its filters and cursor, the driver plan. *Hard:* several engine processes (a
supervisor's and the worker-role MCP servers) share one mirror file; `send` has
two lock sections; numbering must survive a restart. *Correct when:* timelines
only grow, a message and its breadcrumb come together, an ack keeps its first
stamp, and a worker touches only its own inbox.

### Telemetry receiver (`core/otel.rs`)
*State:* one HTTP thread. *Operations:* an export is parsed, mapped, folded into
the sessions its workers are stamped with, answered. *Hard:* the process dies in
the middle and the exporter retries. *Correct when:* every record of an answered
export that has a name and a worker is stored.

### Mirror and catalog (`core/sink.rs`, `core/catalog.rs`)
*State:* SQLite tables of sessions, dispatches, environments, events, messages,
and the catalog. *Operations:* upserts, one transaction per plan step; `restore`;
seeding at each open. *Hard:* writes fail after memory has moved. *Correct
when:* what a restart reads is what was served, and the catalog is there once.

### Backends (`core/backend.rs`, `core/local.rs`, `core/modal.rs`) and agent adapter (`core/agent.rs`)
*State:* none of their own; VMs, sandboxes, tmux sessions, holders, work dirs and
worktrees of the operator's repositories. *Operations:* `start`, `compute` and its
verbs, `reap` with the delivery verdict, `survey`; `stop`, `monitor`.
*Hard:* `start` fails at any of several stages; a launcher is chosen anew in each
process; worktrees of several sessions share one repository; VM names are cut
off; a survey may err and say nothing. *Correct when:* an agent runs only on a
prepared place, a handle reaches the terminal it was made for, a reap destroys
its own session's place only, and credits the work it removes.

### Terminal holder (`hold/server.rs`, `ring.rs`, `screen.rs`, `pty.rs`)
*State:* `Inner` behind one mutex: ring, vt100 screen, clients, writer lock,
reaped status, published exit. *Threads:* reader, watcher, acceptor, heartbeat,
and a handler and a writer thread per client. *Hard:* attach against a chunk in
flight, exit against undrained output, a peer that vanishes at any moment, a
false end of file before the child starts. *Correct when:* every client sees a
byte-exact stream that ends in the exit, one client at most drives the pty, and
repaint geometry is the pty's.

### Protocol, client and attach (`hold/protocol.rs`, `hold/client.rs`)
*State:* a raw terminal to give back, a latch set by SIGWINCH, three threads.
*Operations:* framing, `attach`, the one-shot verbs. *Hard:* bytes cut anywhere
by a dying holder; an end by exit, error, closed stdout or lost connection.
*Correct when:* frames round trip and torn ones are noticed, the terminal comes
back, a sent key arrives or is refused, the pty ends with the window's size.

### CLI and MCP server (`cli/`)
A thin JSON-RPC surface with two roles. The role and its bound session matter to
messaging; `main.rs` matters to the holder, as it decides when the process returns.

### Language bindings (`node`, `disponent-python`, `disponent-ruby`)
*State:* a cursor and a buffer per event stream. *Operations:* `poll`, the driver
plan put together page by page, `wait`, conversions between words and enums.
*Hard:* several threads poll one stream; the log grows under the paging.
*Correct when:* a feed has each event once and in order and catches up, and a plan
is whole and ends.

### Schema and generated code
Constant tables, the source of generated wrappers. Nothing here has behaviour
of its own.

## 2. Modules

| module | role |
|---|---|
| `SessionStatus` | the state machine's table |
| `SessionLifecycle` | abstract specification: what a consumer may rely on for each row |
| `Engine` | dispatch, provisioning, cancel, reap, reconcile, watchers, mirror, crash and restart |
| `EnvContract` | abstract specification: what `EnvProvider` and `Compute` promise about one environment |
| `Worktrees` | a repository shared by worktrees: branches, remotes, dirt, the delivery signal |
| `Workers` | what the backends share: stages of START, the place, the terminal, the handle |
| `LocalBackend`, `ExeDevBackend`, `ModalBackend` | each backend: START stage by stage, launch, verbs, reap, survey |
| `Backends` | the three composed, with cancel, reap, restarts, survey and adoption |
| `Holder` | the holder process and its clients |
| `Frames` | the wire protocol, byte by byte |
| `Attach` | an interactive attacher and the one-shot verbs, over cut bytes |
| `Messaging` | timelines, messages and the mirror, over several processes |
| `Catalog` | the seeded tables, their keys, the environments' stamps |
| `Telemetry` | the receiver, over `Messaging` |
| `Streams` | the bindings' event feed, driver plan and wait |
| `Watching` | the scraped tier of one session: captures, deltas, detectors |
| `Selection` | `Keep(s, T)`: the members of `T` in the sequence `s`, by a recursive function that can be proved about |
| `MC...` | names, small sets and symmetry for TLC |
| `...Proofs` | theorems: `EngineProofs`, `BackendsProofs`, `HolderProofs`, `AttachProofs` (with the wire's), `MessagingProofs` (with telemetry's), `StreamsProofs`, `WatchingProofs`, and `SelectionProofs`, on which the last three rest |

How they compose: `Engine` extends `SessionStatus` and instantiates
`SessionLifecycle` with `board <- row`. `Backends` extends the three backends,
each of which extends `Workers`, which extends `Worktrees`; it instantiates
`EnvContract` with a phase computed from stage, place, terminal and row.
`Telemetry` extends `Messaging`, which extends `Catalog`. `Attach` extends
`Frames`, and takes the holder as module `Holder` shows it to be. `Messaging`,
`Streams` and `Watching` filter with `Selection`'s `Keep`.

Definitions whose name begins with `Mut` are deliberately wrong variants of the
definition they stand before: dropped guards, early or missing updates. Each is
paired with a property that must notice it; none is part of a specification.

### Engine
`row` is `Ledger.sessions` (state, whether `env_handle` is set, whether
`reaped_at` is set); `saved` the sessions table; `prov` the program counter of
each `provision` thread; `env` and `proc` the world outside (does the VM or
work dir exist, and what became of the worker's process); `obs` and `exitItem`
the observer pool and its queue; `survey` the snapshot each running `reconcile`
holds. One lock section is one action. `ProvBegin`, then `ProvRun`,
`ProvAbandon` or `ProvFail` are the two lock sections of `provision`;
`ProvCreate` and `ProvLaunch` are the unlocked stretch in which anything may
happen; `ProvWatch` is its last, again unlocked, act. `Survey` and `Reconcile`
are the two halves of `reconcile`. `CrashRestart` kills every thread and opens
the engine again on `saved`; it may strike when a cancel or a reap is half done
(`HalfDone`). A reap that errs has stopped the agent, or even destroyed the
environment (`CutShort`), and the row stays as it was. A worker that the engine
stopped is `killed`, not `failed`: its holder tells an exit all the same
(`Ended`), and `StateOfExit` is what that is folded to.

`Foreign` are workers an earlier disponent left behind: they have an
environment but no row, and reconcile may adopt them. `Exe` and `Holder` say
where a session runs; that decides what `reap` destroys (a VM takes its
processes with it, a work dir does not), what a survey sees, and which tier
watches. `Faults` lists what may go wrong, and a fault that is not listed never
happens; `"remove"` is the local `remove_dir_all(..).ok()` that fails and returns ok.

### Backends
Here the roles are reversed: the engine's calls are one step each, but for `reap`, and what they
do to the world is taken apart. `stage` says how far START and the launch got,
so that any stage may fail or be cut off by a restart; `place` what START has put
there so far (clone and setup, brief, holder binary); `term` the terminal, which
may be a shell, the agent, dead, or the socket file of a killed holder; `handle`
the fields of `env_handle` that later verbs read; `flag` the launcher this process
selects. `Worktrees` keeps heads, upstream refs, registered worktrees and dirty
trees, with commits as the sessions that made them.

`reap` holds the ledger's lock over several calls to the world, in which agents go on:
`Assess` reads the delivery verdict, `Remove` stops the agent and has the backend
destroy the place, `Archive` writes the row. `RemoveFails` is a teardown that errs,
perhaps after it took effect; the verdict is dropped with it. Locally git and rm fail
without an error: `slips` counts that, `FailedSignals` are the verdicts it may give, and
`dangling` the registrations whose directory went all the same. `Vanish` is a VM or a
sandbox that goes on its own. `Restart` may come back with the other launcher and,
without a mirror, an empty board; a survey then adopts (`Adopt`), condemns (`Lose`) or
destroys what was archived (`TearDown`). `SameVm` is the truncation of VM names at 60 bytes, for the
repositories in `LongNames`.

### Holder
Output is numbered chunks. A client's queue and what it has received are
sequences of frames: a chunk, a repaint showing the first n chunks, or the exit.
Reader, watcher, handlers and writers move one lock section at a time; `Reply`
is the handshake write after the lock is dropped; `ResizePty`/`ResizeScreen` are
the two halves of a resize. `Quit` is `main` returning: the holder joins its four
service threads but no client's.

### Frames and Attach
`Frames` has the codec as it is in `protocol.rs`: kind byte, four length bytes,
payload, the exit's status as four bytes with wraparound, and the reader with its
three answers (a frame, a clean end, an error). `Attach` sends these bytes through
`down[c]`; a holder that stops leaves any prefix of the next frame. `Register` (grant and
replay, under the lock) and `Reply` are the two halves of the handshake; a client that
is killed in between (`GiveUp`) makes the reply fail, and the lock it was granted stays.
`at[h]` walks a human's client through handshake, raw mode, handler installation, first size
and restore jiggle, the loop, and its return; `latch` and `window` are SIGWINCH's flag and
the window itself, and the resize thread takes the flag, looks at the window and sends what
it saw in three steps (`TakeLatch`, `LookSize`, `SendSize`). `Act`, `Capture` and
`Stream` are the one-shot verbs and the observers' stream.

### Messaging, Catalog, Telemetry
Each process has its own `rows`, `events` and `messages`, read from `disk` when
it opens. `Resolve` and `Mint` are the two lock sections of `send`; `WorkerSend`
and `Ack` are the worker's and everybody's operations; `Dispatch`, `End`, `Refresh`
and `Observe` stand for the engine's other operations that append or stamp.
`Mirror` upserts by primary key: (session, idx) for events, id for messages. A
failed write leaves the tables written before it stored; in which order the plan
library writes events and messages is not known here, so either may come first.
A kill between two transactions of one plan stores what a write failing there
stores, and counts as a failed write. Opening seeds the catalog table by table,
and may fail after any. `Mails` and `Inbox` are a log's breadcrumbs and the messages, as
session and id, in their order. `Request`, one `Ingest` per record, and `Respond` are the receiver; the
steps of `Messaging`, the process's death included, come in between.

### Streams
`log`, `sess` and `order` are the engine, as readers see it. A poll is the
binding's `EventStream::poll`, a step per lock it takes: `Take` from the buffer or
`ReadCursor`, `Fetch` a page, `Advance` the cursor, `Extend` the buffer; two
threads interleave at each. A plan is fetched by offset from a document that the
engine recomputes for every page.

### Watching
`screen` is the terminal; `Captured` is `capture-pane` as `run_argv` returns it, trimmed as one
text: blank lines above and below go (`Shown`), and so does the indentation of the first line and
of no other (`Trimmed`); `TerminalDelta` is `terminal_delta`; `IdleObserve` and
`DeadObserve` are the detectors' `observe`, as functions from a detector's state
and one poll to its next state and whether it fires. `Poll` is the closure that
`watch_session` gives the pool. `log`, `fresh` and `redrawn` are there for the
properties only: what this watcher polled, and what happened to the terminal
since its last poll. `Rewatch` is an engine that restarts: it emits what is on the
terminal once more, and its detectors start over.

## 3. What the runs check

| run | result | question |
|---|---|---|
| `EngineFaults` | holds | Do archiving of VMs, durability, honest exits and the state machine survive every fault and two crashes? |
| `EngineLive` | holds | Without faults, does the engine implement `SessionLifecycle`, account for every environment, and make progress? |
| `EngineStaleSurvey` | refuted | Is every `lost` worker really gone? |
| `BackendsFaults` | holds | Whatever fails, vanishes or is cut off: prepared places, reachable terminals, no dangling worktree while git works, no lost commit, an honest delivery verdict, the environment contract? |
| `HolderStreams` | holds | Two clients coming and going: one writer, byte-exact streams, exit last, matching geometry? |
| `HolderLive` | holds | Is the exit published, and do clients hear it? |
| `HolderLockLeak` | refuted | Does the writer lock free when its holder disconnects? |
| `Attach` | holds | Over bytes cut anywhere, with clients killed in the handshake and two window changes: terminal restored, real exits, keys that arrive or are refused, the lock back, the window's size? |
| `MessagingRestarts` | holds | One process at a time, with its telemetry, crashes and a failed write: what survives a restart? |
| `Streams` | holds | Does a feed with several pollers give every event once and return each, is a plan whole, does it end once the ledger rests? |
| `StreamsSnapshot` | refuted | Can a binding read a session that ended? |
| `WatchingPolls` | holds | Is each line after the overlap emitted once, each quiet span reported once, and a dead stream only when nothing was ever shown? |

Ten more configurations can be run by hand; each refutes what section 4 says:
`EngineAbandoned`, `EngineHalfProvisioned` and `EngineDirLeft` (with `MCEngine`),
`MessagingTwoProcesses`, `MessagingPartialSend` and `MessagingDropped` (`MCMessaging`),
`BackendsClaims` (`MCBackends`), `WatchingClaims` (`MCWatching`), `AttachPaste` and
`AttachCode` (`MCAttach`). The two `...Claims` list several properties, which TLC
refutes one at a time: keep one and remove the others.

### Bounds, and why they are enough
*Engine.* Two sessions, because sessions meet only in `reconcile` and in the
mirror's multi-row writes, both of which take two; one is an exe.dev VM and one a
holder, the two worlds that differ most. In `EngineFaults` the holder
session is foreign, so adoption happens; in `EngineLive` it is dispatched. One
reconcile caller: it holds only a snapshot, and a stale snapshot meets every
other action. `MaxCrash` 2 allows a crash, a second provisioning or adoption,
and a crash on top; `MaxSinkFails` 1 allows mirror and board to differ by one
write, after which every later step runs with the difference. The holder session is
local, so that a removal may fail unheard and a survey meet its worker again.

*Backends.* Two sessions, which is what a shared repository and a cut-off VM name
need. `Workloads` has two sessions on one backend at a time, since backends share
nothing but the engine: two VMs, two sandboxes, and locally two worktrees on a branch
each or reset to the same one; a fetched worktree and a local clone go with a request
that START refuses. Both work on one repository. `BackendsFaults` has `LongNames = {}`:
with a name that cuts the uid off, `KeepsContract` is refuted, in `BackendsClaims`. exe.dev and
local select the same launcher, as the two flags do not meet. `MaxMishaps` 1 is one restart or
one slip of git or rm in a behaviour, besides any number of errors that are reported and of places
that vanish: one restart is enough for a handle of one launcher in a process of the other, and for
adoption; a slip matters to the reap it happens in and to the next START on that branch. A commit is named by
the session that made it, so each makes one. Sessions are symmetric and the run
has no liveness property.

*Holder.* Two clients contend for the lock and overlap in every phase. A ring of
one chunk and two chunks of output in `HolderStreams` make eviction, a restore of
a wrapped ring, and a chunk in flight during an attach all happen; `HolderLive`
takes three chunks, a ring of two and one client, since liveness concerns each
client alone. Two geometries are what a mismatch needs. `Client` is symmetric in
`HolderStreams`, which checks no temporal property.

*Attach.* One human and one verb, as a lock needs two contenders and each verb is
checked alone. Window sizes 2 and 4 around the pty's 3, with 4 the largest, so
that the jiggle's saturation happens; a payload limit of 16, which a paste
exceeds; one chunk of output and two acts of the human (a key or a resize each), so that
two resizes may fall anywhere around the latch, the look and the send. Next to a verb there is one
act (`MayAct`, `MayDial`), as a verb meets the human at the lock and not at the window.
The exits are a code and, through `kill`, a signal. A dead holder cuts a stream at a frame's boundary or inside the next
frame; `TornFrameIsBad` says that all cuts inside are alike.

*Messaging.* A supervisor `m` and a worker-role server `w` bound to session `s`;
two sessions, so that fan-out, anchors of one session twice and foreign inboxes
occur; four events (`MaxBorn`, which also bounds probe stamps) leave room for a
dispatch, a fan-out of two and one more after a restart. One batch of telemetry
has a foreign resource, a worker nobody knows, two agents, and a record that nothing maps. `MaxOpen` is 1 where
the properties hold, and 2 in `MessagingTwoProcesses`: two servers at once is
exactly what refutes `AppendOnly`, and would refute `Rehydrates` for the same
reason. `Unknown` is empty except in `MessagingPartialSend`, which sends to an
unknown uid: that is what refutes `Rehydrates`. These two restrictions are the
preconditions under which `MessagingRestarts` holds, not conveniences.

*Streams.* One stream of all kinds with one poller and one of two kinds with two,
each behaviour following one reader, as readers change nothing that others see.
An event page of 2 and a log of 3, a plan page of 4, so that both are passed once
and a page boundary falls inside a session's statements.

*Watching.* Three rows, a line, the same line indented, and a blank one: repeated lines give
several overlaps between two captures, trimming makes the two lines equal at the top of the
screen and nowhere else, and scrolling and blank gaps happen. Two lines at most between polls,
so a poll may miss an intermediate
screen; four polls with thresholds of one and two seconds let a quiet
span be reported, end, and be followed by another that is reported.

Runs that check deadlock and pass never stop. It is not checked for `Holder` and
`Attach` (their processes end), `Streams` (its log is bounded) and `Backends`
(every session ends, restarts are bounded).

### Fairness
*Engine* (`FairSpec`): weak fairness of each provision thread, of each session's
poller and of the collector, because they are threads the engine started: the
pollers run on an interval and the collector sleeps 250 ms between turns. None
is assumed of users (dispatch, cancel, reap, reconcile), of the agent's end, or
of crashes. A provision thread's
fairness takes for granted that the commands it runs return: `run_argv` has no
timeout (`core/backend.rs:782`). *Holder*: weak fairness of watcher, reader, and each client's
handler and writer threads while the process is up. None for the child, the
peers or `main`; that is why `ClientsHearExit` excuses a `main` that returned (section 4).
*Attach*: weak fairness of the holder's handlers, of the attach client's threads, and
of a verb that has its grant; nobody must dial, type or resize, and the child
must neither print nor end. A handler's fairness takes for granted that the pty accepts what is
written to it (a child that never reads blocks the handler, `hold/server.rs:549`) and that
descriptors do not run out (a `try_clone` that fails, line 510, keeps the lock as a failed reply does). *Streams*: weak fairness of each polling thread, of a
plan's paging and of `wait`'s loop, which run in loops of the caller; none of the
engine, so that "catches up" is claimed of what is in the log.

### Properties, in words
- `ReapedEnvDestroyed`: an archived exe.dev session with a known worker has no
  VM, through failed teardowns, crashes and stale threads. Of a local work dir nothing is
  claimed, as `reap` passes over a removal that fails (section 4).
- `Durable`: while every write succeeded, mirror and board are equal between
  operations.
- `ExitIsReal`: `completed` only for the process's own exit, and `failed` after
  running only for that or for a kill; never for a dropped stream or a vanished holder. A kill
  brings a row to `failed` in one way: the teardown of a reap fails after its stop, the row is
  still running, and the observer's exit, by the signal, is folded into it
  (`core/engine.rs:1126-1133`, `core/engine/watch.rs:84-96`).
- `LifecycleBetweenRestarts` / `ImplementsLifecycle`: every row moves as
  `SessionLifecycle` says. With failed writes a restart may take the board back,
  so the first excludes restart steps; without, restarts are covered too.
- `EveryWorkerAccounted`: without faults or crash, an environment always has
  a row with its handle, a provision thread, or is foreign.
- `ProvisioningSettles`, `ExitObserved`, `NoZombieWatcher`: progress.
  `NoZombieWatcher` leaves out rows marked `lost`: `reap` does not stop the
  process of a terminal row, so a live worker condemned by a stale survey keeps
  its terminal and its watcher.
- `AgentOnPreparedPlace`: no agent on exe.dev or locally without clone, setup,
  brief and holder binary. Modal is left out: its START ignores the exit codes
  of brief and setup (`core/modal.rs:373-389`).
- `LocalAlwaysReachable`: the launcher in the handle, not the one selected now,
  decides how a local terminal is reached.
- `NoDanglingWorktree`, `CommitsSurvive`, `UnsharedWorkCredited`: as long as git and rm
  work, reap deregisters what it removes; only another START with `-B` drops a commit; work
  on no remote and no other branch that reap finds when it reads the verdict is credited,
  unless git fails. What an agent adds between that and its end is not (section 4).
- `KeepsContract`: each step of a backend moves one session's environment as
  `EnvContract` says, and touches no other's, through calls that fail after they took effect,
  their retries, and VMs that vanish. It needs names that no two workers share.
- `OneWriter`, `ByteExact`, `ExitAfterOutput`, `ScreenMatchesPty`,
  `ExitPublished`, `ClientsHearExit`: the holder's promises.
- `RawWrites`: a terminal is raw only while its client runs as the writer. A
  client killed by a signal leaves it raw, and nothing is claimed of that.
  `EndIsReal`: an exit code reported over cut bytes is the child's. (`attach` also exits with
  1 for an error of its own, which is no code of a child, and 0 proves nothing, see section 4.)
  `VerbsTakeEffect`: what is reported sent arrived, a kill ends the child. `LockComesBack`: a
  momentary writer that got its reply gives the lock back. `WindowTracked`: the last resize wins.
- `DeltaIsExact`, `IdleOncePerSpan`, `DeadMeansNothingShown`: what
  the scraped tier tells about a terminal. The first says that an end of the old capture and what
  is emitted are the new capture, line by line (order and repetitions included), and that a
  terminal that only scrolled repeats nothing, if its top line has no indentation to lose. It does
  not say that the overlap found is what was really kept (section 4). The last two state when a detector
  reports in terms of the polls alone, without its latches.
- `Rehydrates`, `MailMatchesMessages`, `AppendOnly`, `AckOnce`, `OwnInboxOnly`,
  `AcceptedIsStored`: messaging's and telemetry's. The first two and `AppendOnly` say
  nothing once a write has failed; `AckOnce` and `OwnInboxOnly` hold all the
  same; `AcceptedIsStored` is of records that have a name, counted in the export as it was sent, and
  leaves out failed mirror writes, which the sink's caller ignores (`core/engine.rs:315`). Delivery is at least once: a retry after a crash in the middle repeats records.
- `ExactFeed`, `FeedCatchesUp`: to one thread a feed gives each event it has a word for
  once and in order; several threads may see one twice, but the cursor passes none
  that none of them has; and each single event of the log that it has a word for is returned.
  `PlanIsWhole`, `PlanEnds`: a plan has all rows that were there when it began, in an order that
  can be applied when it fits a page, and its paging ends once the ledger stops growing. (The loop of
  `node/core_impl.rs:382-391` ends with the first page that is not full; a ledger that gains a full page per
  page read keeps it going.)

## 4. Where code and docs disagree

With a run that refutes the sentence:

1. **A live worker can be marked lost** (`EngineStaleSurvey`). The survey at
   `core/engine.rs:1205-1207` predates the lock; a worker that came up in between is condemned at 1246.
2. **The writer lock leaks** (`HolderLockLeak`) when its client is gone before the
   handshake reply: `hold/server.rs:507` returns past the detach block, against
   the comment at line 21.
3. **A session that ended cannot be read through a binding** (`StreamsSnapshot`): the engine
   folds an exit with the reason `exit`, which is not in the bindings'
   vocabulary (`node/core_impl.rs:57`), so that `wait` errs, against `node/lib.rs:85-86`.

With a configuration to run by hand:

4. **A worker abandoned mid-provision keeps running on the local backend**
   (`EngineAbandoned`). The comment at `core/engine.rs:627-628` says it is torn
   down; line 679 calls only `backend.reap`, which locally removes the work dir.
5. **A half-provisioned environment is never reaped** (`EngineHalfProvisioned`).
   `notes/design.md:236` says it stays "until reaped"; the error arm at
   `core/engine.rs:731` records no handle, so `reap` has nothing to destroy.
6. **Two servers on one mirror overwrite each other's events** (`MessagingTwoProcesses`):
   `idx` is counted in each process's memory (`core/engine.rs:559`), against "Append-only" at line 66.
7. **A send to a list with an unknown uid** leaves the messages before it in
   memory and never stores them (`MessagingPartialSend`, `core/engine/messaging.rs:160`).
8. **Pushed work is called empty** (`BackendsClaims`, `CommittedIsDelivered`). Once a session's commits are
   on a remote, `core/local.rs:563` no longer counts them, against "commits past the
   base are a change" at 540-542.
9. **A human at the writer lock keeps a cancelled local worker alive**
   (`BackendsClaims`, `CancelledIsStopped`). `cancel` skips the kill when the interrupt is refused
   (`core/engine.rs:1074-1077`), against 1123-1124.
10. **A long paste never arrives** (`AttachPaste`): the client sends one frame
    (`hold/client.rs:134-139`), the holder drops the connection over a payload
    beyond the limit (`hold/protocol.rs:403-408`), and the send reports success,
    against `core/local.rs:756-759`.
11. **`attach` may exit 0 although the child failed** (`AttachCode`): the holder's main
    returns with the Exit frame still queued, and the end of the stream is taken
    for a clean end (`hold/client.rs:428`), against `cli/main.rs:83-84`.
12. **A work dir that cannot be removed is archived all the same** (`EngineDirLeft`): locally
    `remove_dir_all(..).ok()` (`core/local.rs:533`) and a dir outside the root (518) let `reap`
    return ok, so there is nothing to retry, against `core/engine.rs:1121-1123`.
13. **Work done while a session is reaped is lost uncredited** (`BackendsClaims`,
    `RemovedWorkCredited`): the verdict is read at `core/engine.rs:1116-1119`, the agent stopped at 1127 and
    the dir removed after, while 1137-1139 has "shipped" for a work dir that changed.
14. **A worktree may dangle after a reap** (`BackendsClaims`, `ReapDeregisters`): a failing
    `git worktree remove` is ignored, `prune` runs while the dir is there, and then it is
    removed (`core/local.rs:525-533`), against 519-522.
15. **Two VM names may collide** (`BackendsClaims`, `KeepsContract`): `truncate(60)` takes the
    uid off after a long repository name, and a reap, a retry or a teardown of one session then destroys
    the other's VM, against "never collides" at `core/backend.rs:807-809`.
16. **Records without a name are dropped** (`MessagingDropped`): `core/otel.rs:158-160` skips
    them, against "nothing observed is dropped" at 10-11.
17. **Scrolling defeats the overlap** (`WatchingClaims`): once an indented line is the first of a
    capture, trimming makes it another line and the pane is emitted again (`ScrollingKeepsOverlap`), against
    `core/observe.rs:33-36`; and a printed line that repeats what is above it is taken for the
    old one and not emitted (`PrintedIsEmitted`), against lines 1-3.

Without a configuration: `cli/main.rs:274` returns as soon as the exit is
published, with no client thread joined, so an attached client may never get the
Exit frame; `notes/owning-the-terminal.md:144` has the holder "emit an Exit
frame, linger until reaped". `ClientsHearExit` fails in `HolderLive` when its last
disjunct, `process # "up"`, is removed. And `Streams` has `PlanInOrder`, which a plan
of more than one page does not keep: a row added between two pages shifts the ones after it.

Seen while reading, outside what the modules state: modal's `tunnels()` failing
after a create leaks the sandbox, and a failing `get_tags` hides one from the survey;
an adopted handle lacks `worktreeRepo`, so its reap leaves the worktree
registered; a fetch of a branch that is ahead of its origin lets the verdict be "shipped"
with nothing shipped; the launcher selection hides the other launcher's
sessions from the survey; two servers at once may stamp a message again, as each asks its own
memory whether it is acked (`core/engine/messaging.rs:223`); local reap of a finished session
leaves its terminal running; telemetry after a reap is appended although
`core/engine.rs:311` says it is dropped; an upgraded catalog leaves removed
offerings in the mirror, since a seed never deletes.

## 5. What is proved

All theorems hold for every value of the constants that satisfies the named
assumptions of their modules (`EngineAssumption`, `HolderAssumption`,
`AttachAssumption`, `FramesAssumption`, `MessagingAssumption`, `TelemetryAssumption`,
`StreamsAssumption`, `WatchingAssumption`, `WorktreesAssumption`,
`WorkersAssumption`, `BackendsAssumption`): where sessions run, what the sets have in
common, that sets of sessions are finite where they are counted, and what the
bounds are. `AttachAssumption` has exit codes from -1 to 255, every status that `wait` can give and
the -1 of one that could not be had (`hold/server.rs:405-409`), and signals from 1 to 127, all that a
wait status can name. Every invariant that a run checks is stated by a theorem, and of the action
properties and refinements `DeltaIsExact`, `AppendOnly`, `AckOnce`,
`CommitsSurvive`, `UnsharedWorkCredited`, `KeepsContract`, `ImplementsLifecycle` and
`LifecycleBetweenRestarts`.

`SelectionProofs`
- The library's induction theorems take a predicate as a parameter, which the
  provers cannot instantiate. `SetInduction` and `SeqInduction` say the same of a set,
  and come from the least-element property of a well-founded relation. With them
  `Keep` is shown to exist, to be unique, and to go element by element
  (`KeepConcat`), so that a filter over a log that grows is the old filter and
  what the new elements add.

`EngineProofs`
- `TypeCorrect`: `TypeOK` is inductive as it stands; the lemmas type the mirror,
  the teardown and the rows once, then one lemma per group of actions.
- `ReapedEnvIsDestroyed`, of exe.dev's VMs: `ReapedEnvDestroyed` alone is not inductive. A thread
  could create an environment for an archived row, and a crash could restore a
  row that breaks it. `SafeInv` adds: a thread still in flight works for a row
  without a handle; the mirror never knows a handle that the board does not; the
  mirror's rows obey the same invariant; archived rows are terminal.
- `BoardIsDurable`: a write that succeeds covers every row its operation moved.
- `LifecycleHoldsBetweenRestarts`: each action's effect on each row is a
  `RowStep`. The thread's second lock section needs `SafeInv` (its row has no
  handle yet), and so does archiving.
- `EngineImplementsLifecycle`: with `MaxSinkFails = 0`, a restart leaves the
  board unchanged by `BoardIsDurable`, so every step is a step or a stutter of
  `SessionLifecycle`.
- `ExitsAreReal`: the exit travels through the pool and the queue, and a restart
  takes the mirror's row. `ExitInv` follows it: what is queued is the
  worker's real end or a kill of the engine's, which tells a failure; only a row with a handle is watched, and the mirror's rows
  are as true as the board's. One frame lemma states what an action must respect.
- `WorkersAreAccounted`, for `Faults = {}`: `AccountInv` ties each place of the
  provision thread to what its row may be and to whether the environment is there.

`HolderProofs`
- `AtMostOneWriter` and `ScreenFollowsPty`, both from `LockInv`: the lock names
  every connection that may drive the pty, and a half-applied resize belongs to
  such a connection and carries the pty's geometry.
- `ExitComesLast`, from `OutputInv`: a reader past the end of file has pushed all
  that was written, and nobody can write any more; only then is the watcher's status taken.
- `StreamsAreByteExact`, from `StreamInv`: the ring is the tail of what was pushed; received
  and queued frames together form a chain in which each continues the one before; a
  live client's chain reaches the last push. Lemmas say what appending to a chain,
  and a restore of either kind, preserve.

`AttachProofs`
- `FrameRoundTrip`, `ExitRoundTrip`: what is encoded is decoded, for every kind,
  payload and 32-bit status. `TornFrameIsBad`: a proper, non-empty prefix of a frame is never
  read as a frame or as a clean end.
- `RawTerminalsWrite`: whoever was granted the lock, and is still listed (waiting for its reply, or
  served), has it; nobody is listed twice; a raw terminal belongs to a client between entering and leaving raw mode, and
  only a writer enters.
- `EndsAreReal` is where the wire meets the clients. `EndIsReal` does not say what is still
  in a socket, so `EndInv` does: data frames, then nothing, or the exit that was
  published, or, once the holder is down, a torn frame. The three frame theorems
  say what a reader can make of that. It needs that a chunk of output is a byte
  and an exit frame fits the payload limit (`AttachAssumption`). The exit status 1 that
  `attach` gives to an error of its own is not an `Exit` and not in it.

`MessagingProofs`, of `TelemetrySpec`, so that the receiver's steps come in between. A lemma
sorts the steps by what they do to memory and mirror (`Moves`: open, close, refresh, one logged
event, posted mails, an ack); the lemmas about `Upsert` say when it appends and when it replaces one row.
- `MessagingTypes`: types, whatever fails and however many processes are open.
- `OwnInbox`: likewise without restriction. The stamp outlives its process in the mirror and
  in other memories, so `OwnInv` says it of all of them.
- `FirstAckStays`, for `MaxOpen = 1`, failed writes included: `AckInv` has ids unique and behind
  the counter, and the open process's memory agree with every stored stamp.
- `Rehydration`, `Breadcrumbs`, `TimelineGrows`, for `MaxOpen = 1` and `Unknown = {}`: as long as no
  write failed, the mirror is the memory (`SyncInv`), the idx of stored events are below their session's
  count, so that the next one is free, and mails and messages correspond (`MailInv`).
- `AnsweredIsStored`, under the same assumptions, of records that have a name: `StoredInv` balances what is owed and being taken
  against what is stored and left; what is left concerns sessions whose row is stored already.

The two assumptions are not conveniences of the proofs: `MessagingTwoProcesses` refutes
`AppendOnly` with two processes open, and `MessagingPartialSend` `Rehydrates` with an unknown uid.

`StreamsProofs`
- `FeedIsExact`, from `FeedInv`: what is given out, and what is buffered or on its way in a
  thread's call, is what the log has up to the cursor; a lone poller's call started at the cursor; and
  the cursor passes nothing that no thread has.
- `PlansAreWhole`, from `PlanInv`: while it is paged, a plan has every row of its beginning
  among the first as many statements as it has items. A row never leaves the statements and
  moves only towards their end, so a page may repeat one and skips none.

`WatchingProofs`
- `IdleReportedOnce`: the detector's state is determined by the polls (when the
  last span began, whether it was long enough), a poll belongs to one span, and poll times only grow.
- `DeadStreamReported`: likewise; the latch `seen` is that some poll showed something, and until
  then there is nothing to compare a capture with.
- `DeltasAreExact`. That nothing is lost follows from what an overlap is. That nothing comes twice
  needs `DeltaInv`: unless it was redrawn, the screen is the end of what it
  showed at the last poll joined with what was printed since. If the capture's first line lost
  nothing by the trimming, the two captures do overlap where the terminal says they do, the
  longest overlap is no shorter, and what comes after it was printed since.

`BackendsProofs`, from one invariant, `BackendsInv`: per session what each stage has put in place
(`NotYet`, `Prepared`, `AgentPrepared`), that a local handle names the launcher that holds
the terminal (`HandleTrue`), what reap deregisters if nothing slipped (`Deregistered`).
- `AgentsStartPrepared`, `LocalStaysReachable`, and `NoWorktreeDangles`, the last as long as git and
  rm work (`slips = 0` is part of the property).
- `BackendsKeepContract`, the refinement of `EnvContract`, for `LongNames = {}`: each step is a step of
  one session (`StepOf`), moves its phase as allowed, and leaves the others' alone. Errors after the
  effect, retries and vanished places are in it. `ReapInv` adds that what is being reaped has been
  launched, so that only what was asked for is destroyed.
- `CommitsStay` and `SoleCopiesAreCredited`, from a second invariant, `GitInv`: a ref or a
  clone with a session's name exists only once its worktree stage is done, and a worktree has either the
  asked ref or that name checked out. So a clone never hides a ref, a step adds commits unless
  it is `worktree add -B`, and whoever has git is local, where `Assess` asks for
  the verdict. The credit is for what is there at that step, and only if git answers.

`LongNames = {}` is no convenience either: `BackendsClaims` refutes `KeepsContract` with a long name.

Only model-checked: liveness (`ProvisioningSettles`, `ExitObserved`, `NoZombieWatcher`,
`ExitPublished`, `ClientsHearExit`, `VerbsTakeEffect`, `LockComesBack`, `WindowTracked`,
`FeedCatchesUp`, `PlanEnds`), which needs fairness and `ENABLED`; and what section 4 refutes.

## 6. Abstractions and what is not modelled

- In `Engine` a survey is one step, although the code asks one backend after the other; a
  backend's survey that errs is taken as empty only where the code does so
  (`tmux ls`), other errors abort the call and change nothing.
- `resume`, `input`, `refresh` and the reads change no session row.
- `Engine` and `Backends` share no state: the first treats START as two steps
  that may fail and a reap as one, the second the engine's calls as one step each, but for
  reap, whose calls it takes apart. `EnvContract` is
  where they meet: it is what `Engine`'s `env` and `proc` assume of a backend.
- The SQL of an upsert comes from a library outside the repository. It is taken to
  keep the rowid of a row it updates, so that a table's order is that of first
  insertion.
- Heartbeats and the vt100 screen's contents are left out (a repaint is "the first n chunks");
  so is a capture that times out in the middle of a frame. A peer that stops reading
  while staying connected grows its queue without bound (`hold/server.rs:468`).
- A captured pane that fails ends its observer (`core/engine/watch.rs:61`): the
  session runs on unobserved until a restart. Nothing in the repository promises
  otherwise, so there is a hazard and no property.
- Telemetry with a body that is refused leaves no trace; a worker-role server without
  a bound session only reads.
- Delivery artifacts, dry runs and pushes with force are left out of `Worktrees`.
- Not modelled: `workspace_link`, `latest_per_topic`, the `sessions` filter, `prompt`,
  modal's Volume and tunnel URL, JSON-RPC framing and argument parsing, generated
  forwarding, the schema, shell scripts beyond what they leave behind. The three
  bindings share their logic line by line; `Streams` is the node one's.

## 7. Plan

What is left, in order of what it would add:

1. *Reading.* `latest_per_topic` against per-inbox latest, over `Selection`.
2. *Safety parts of the liveness properties*: that a verb that reported success has been
   taken or its client is still served, and that a plan's page only moves forward.

Order so far: the engine first, since every consumer sees its board; then the
holder, whose exit the engine trusts; then messaging, which shares the mirror;
the scraped tier, which only reports; then what these rest on or feed: the
backends, the wire and the attach client, telemetry, and the bindings.

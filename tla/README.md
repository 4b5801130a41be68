# Riffra: models, checks and proofs

Riffra is a music workstation. A **Host** process (Rust, `src/crates/riffra-runtime`)
owns the open Project and its canonical Session; clients (the desktop application, the
command line) send it commands over a local connection; an **audio sidecar** (C++,
`src/native/audio-engine`) plays and records what the Host projects into it. This directory
models the parts where threads, processes and files meet:

- the *runtime reconciliation*: which graph the sidecar prepares, commits and discards, and
  when a Play that had to wait for its graph may start;
- the *audio supervision*: one sidecar process at a time, replaced when it ends, restored
  before it is heard;
- the *native timeline engine*: graphs, commands and recording sinks handed between control
  and audio thread without a lock;
- the *canonical Session and its files*: edits, undo and redo, saves cut short by a crash;
- the *ways into the Session that begin in the sidecar*: what a user changes in a plugin's
  editor, and a recorded take.

They are checked with TLC on small instances; the central safety properties of the coordinator,
the reconciler, the supervisor, the engine, the recording controller and the storage are proved
with TLAPS.

Contents

1. [The system and its parts](#the-system-and-its-parts)
2. [The modules](#the-modules)
3. [What the runs check](#what-the-runs-check)
4. [What is proved](#what-is-proved)
5. [What disagrees](#what-disagrees)
6. [Not modelled](#not-modelled)
7. [What could come next](#what-could-come-next)

## The system and its parts

| part | state it keeps | operations | talks to |
|---|---|---|---|
| projection machine (`runtime/projection_machine.rs`) | canonical intent, active graph, one job, one queued request, waiters, environment (generation, revision), last error | `step(Input)`: submit, promote, prepared, committed, deadline, generation, audio environment, mark failed, stop | nobody: it is a value, returned effects are executed by its owner |
| projection coordinator (`runtime/projection_coordinator.rs`) | the machine under a mutex, one worker thread, a condition variable | `submit`, waits of 50 ms with a deadline, `worker_loop`, status queries, drop | the sidecar (prepare, commit, discard, wait for idle), the status hook |
| projection callers (`session/commit.rs`, `storage.rs`, `session/devices.rs`, `host/project.rs`, `host/audio.rs`) | the canonical Session and its key (sequence, revision), the writer lock | commit and project an edit; try a device change and commit it only once it plays; open a Project; resynchronise; change the audio device | coordinator, Session store |
| reconciler and transport (`runtime.rs`, `runtime/transport.rs`, `runtime/transport_executor.rs`) | the Play intent, the execution lease, the kept transport failure | Play, Stop, Pause, Seek, audio transition, status; the status hook | coordinator, native transport |
| canonical state and history (`riffra-core/src/app.rs`, `application/history.rs`) | Session, undo and redo stacks, sequence, prepared candidates | commit, undo, redo, restore a generation, prepare and commit a candidate | storage |
| Session and Project storage (`riffra-host`) | per Project an active file and its generations; a workspace file that names the open Project | save, load with recovery, create, open, activate, discard | file system |
| plugin persistence (`host/persistence.rs`) | changes reported by the sidecar and not yet in the Session | collect, flush after 24 ms of silence, lend to a Project switch, last flush | sidecar events, the Project's writer |
| recording (`recording/`) | manifests of takes, the completion slot, the pending take | start, stop, finalise, merge into the Session | sidecar, storage, Session commits |
| sidecar supervision (`audio/`) | the process in its slot and its generation, readiness and termination marks, pending requests, the restart gate and the command gate, restart outcomes | start, restart, request with retries, reader thread, recovery thread, shutdown | sidecar process, the restart handler of the Host |
| startup transaction (`startup.rs`) and device recovery (`host/audio.rs`) | the startup state, the generation being restored | safe status, restoration, unmute, completion, retry; device transition with restart | supervision, coordinator |
| native timeline engine (`timeline/`, `concurrency/`) | control-side registry of graphs, command queue, retire queue, racks, the published frame | prepare, commit, discard, set a parameter, transport, device start and stop, `beginBlock`, visit the active graph | audio callback |
| native recording (`app/RecordingController`) | the recording session, its capture sink, the stop in progress | start, request and complete a stop, finalise, device loss | timeline engine |
| control protocol, jobs, score, library, assets, analysis, plugin catalogue, desktop UI, CLI | connections, jobs, files and views | request and response, conversion, I/O | Host |

**How they interact.** A command takes the writer lock, commits a Session, saves it and submits
its projection to the coordinator. `submit` runs the machine under its mutex, wakes the worker
and publishes the status if it changed: the *status hook* runs on the submitting thread
after the mutex is released. The worker takes the job, calls the sidecar *without* the
mutex, first observes the sidecar's generation and then reports the result to the machine,
which may by then intend something else. A caller that wants the outcome waits for its
operation, polling the generation. A Play that finds the projection not ready arms an
intent; the hook that sees the projection active takes the transport lease and plays.
Every native call is a request of the command bus: it waits until the current generation is
ready, looks at the generation again under the command gate, writes to the process in the
slot and sleeps until the process's reader thread brings the answer. The reader that sees
the end of its process fails what is pending and starts a recovery thread; that thread, or
one of a device command, takes the restart gate, replaces the process of the generation it
knows, restores the user's controls, and the recovery thread calls the restart handler,
which projects the graph and unmutes.

In the sidecar a lifecycle task prepares a graph and commits it to a registry; the audio
thread learns of it from a command in a lock-free queue, uses it from then on, and hands the
one it replaced to a retire queue, from which the control side destroys it. The owner of the
realtime state is the audio thread while a device runs and the control side otherwise. The
sidecar's events (plugin states, recording outcomes) go the other way: the Host's event
reader puts them in a channel, from which the persistence worker commits them, or in the
completion slot, where the finalization worker of a take waits for them.

**What is hard about it.**

- *Results of a slow actor.* Between taking a job and reporting it, the target may change,
  be undone, fail, be replaced by a proposal, or the sidecar may be another process.
- *Shared fates.* A submission of a graph that is already running or queued is answered with
  an earlier operation, and so inherits its result and its deadline.
- *Two notions of identity.* Graphs are compared by content, readiness by key; a proposal
  carries the key its commit would have.
- *Proposals.* A device change plays before it is canonical, so that every way of losing must
  put back the canonical graph.
- *Deadlines and abandoned calls.* The Host gives up on a native call that still completes
  later, behind the next one.
- *Hooks on foreign threads.* The hook that starts or releases a Play runs on whatever thread
  caused the change, later than the change, and needs a lease another thread may hold.
- *Numbered processes.* Whoever acts on a sidecar read its generation earlier; the process may
  have ended, been replaced, or be in replacement by somebody else, at every line.
- *Two gates and a flag.* Restart, requests and shutdown exclude each other by the restart gate,
  the command gate and looks at `shutting_down` between them.
- *Plain pointers across threads.* The audio thread uses graphs, racks and sinks by pointer;
  that they are still there follows from the order of a queue and from nothing else.
- *Bounded queues.* The command queue refuses, the retire queue must never be full.
- *Half-done steps.* A save is four file operations; opening a Project promotes its graph before
  the workspace file is written.
- *Late authors.* A plugin's state and a finished take arrive after the Session has gone on, or
  after another Project was opened, and must neither be lost nor undo what was done since.
- *One slot for many outcomes.* The completion slot names a take only sometimes, and keeps what
  nobody took.

The correctness of each part, in a sentence: the machine never mixes up requests and their
results; the coordinator answers everyone who waits; what is called active is what plays;
nothing unaccepted stays playing; playback starts only for a Play that is still wanted, and
a Play, and a Stop, is answered; there is one sidecar at a time and none after shutdown; a
command reaches the process it was meant for; what ends is replaced, and restored before it
is heard; the audio thread uses nothing that was destroyed and nothing replaced is lost; a
loaded Project is the one last confirmed or being saved; undo and redo move along one line
of edits; a closing editor's state is kept; only whole takes enter the Session, and entering
it they undo no edit outside their own clip.

## The modules

| module | models | correspondence |
|---|---|---|
| `ProjectionMachine` | `Machine` | the Rust struct is the record `Machine`; each `Input` is an operator from machine to machine, each `Effect` that matters an operator of its own (`PreparedEffect`, `CommittedEffect`) |
| `ProjectionCoordinator` | the coordinator's threads, its callers and the sidecar as they see it | variables: `machine` (behind the mutex), `worker` (the thread's position in `worker_loop`), `native` (generation, prepared and committed graph, a call the Host gave up on), `call` (per caller thread), `core` and `writer` (canonical key and graph, the writer lock), `late` (operations whose deadline has passed) |
| `Reconciler` | `RuntimeReconciler`, `TransportController`, `TransportExecutor`; EXTENDS `ProjectionCoordinator` | adds the intent, the lease, native transport, the hook each thread is in, and the threads that serve transport commands |
| `SidecarSupervisor` | `AudioSupervisor` (`sidecar_process.rs`, `command_bus.rs`, `lifecycle.rs`, `recovery.rs`), the startup transaction, device recovery and shutdown | the fields of `SidecarProcess` are variables of the same meaning; `sidecar` and `reader` are the processes and their reader threads, by generation; `thread` is where the startup thread, each device thread and each recovery thread is, with the generation it acts for; `request` is its entry of `pending` |
| `GraphLifecycle` | what the engine promises about graphs: active in commit order, destroyed only once replaced, each committed one gets its turn | abstract specification |
| `TimelineEngine` | `TimelineEngine`, `ControlGraphRegistry`, `RealtimeCommandQueue`, `RetireQueue`, the control sequences of `PluginRack`, the device start and stop handlers, the audio callback, `visitActiveGraph`; implements `GraphLifecycle` | a variable per structure (`owner`, `commands`, `realtime`, `frame`, `registry`, `retired`, `sinks`, `racks`), one for the lifecycle task, the device, the position in the callback, and each reader |
| `NativeRecording` | `RecordingController` on its three threads; EXTENDS `TimelineEngine` | `controlSink`, the controller's fields, the holder of its lock, where each thread is, what became of each session |
| `EditHistory` | what undo and redo promise: one line of edits and a place on it | abstract specification |
| `SessionStorage` | `AppCore`, `History`, `SessionStore`, `ProjectStore`, start and crash of the Host; implements `EditHistory` | the files are `directories`, `current`, `generations`, `workspace`; the memory is `project`, `session`, `sequence`, `undo`, `redo`, `prepared`; `save` is the place of the writer's holder between file operations |
| `PluginPersistence` | the persistence worker, the Project switch and the shutdown that take it over, the editor and its racks in the sidecar | Host (`project`, `open`, `target`, `writer`, `switch`, `lifecycle`), worker (`channel`, `request`, `reply`, `pending`, `worker`, `batch`, `failed`), sidecar (`graph`, `editor`, `wire`) |
| `RecordingFinalization` | start and stop requests of clients, the finalization worker, the edits and undos it meets, the event reader, the sidecar's processing, the shutdown | `manifest` (per take), `rows`, `session` (passes, recording sessions, slot clips, the rest) and `history`, `client`, `worker`, `pending`, `slot`, `host`, `native`, `wire` |
| `ProjectionCoordinatorProofs`, `ProjectionCallerProofs`, `ReconcilerProofs`, `SidecarSupervisorProofs`, `NativeEngineProofs`, `SessionStorageProofs`, `PluginPersistenceProofs`, `RecordingFinalizationProofs` | lemmas, inductive invariants, theorems | see [What is proved](#what-is-proved) |
| `MCProjectionCoordinator`, `MCReconciler`, `MCRecordingFinalization` | instances for TLC | the set of keys and the symmetry; where edits meet a recording; the other modules need no instance |

`PROJECT.json` names for every definition the lines it stands for. The modules share no state
across the process boundary: the sidecar of `ProjectionCoordinator` is what the Host sees of
`TimelineEngine`, the recording controller of `RecordingFinalization` what it sees of
`NativeRecording`, and the Session of `PluginPersistence` and `RecordingFinalization` is what
`SessionStorage` keeps.

**Granularity.** One critical section is one action. `worker_loop` is cut where the mutex is
released or the sidecar is called: take the work, prepare, wait for idle, observe the
generation, report, commit, report, discard. A caller is cut at its submission, each poll,
the collection of its result, its own deadline, and its commit. Effects of the machine that
only wake threads (`WorkRequested`, `notify`) are implicit in the guards of those threads.
`SidecarSupervisor` is cut at the places where another thread can come between: a request is
begun, becomes ready, is written under the command gate, is carried out, is answered; a
restart takes its gate, replaces the process, has its end confirmed, spawns, stores,
restores. The recovery thread of a generation has the generation's number as its name; while
a thread is between `Replace` and `Store` it is the holder of the command gate. In
`TimelineEngine` each command drained, the frame published and the block rendered are steps
of their own, as is each step of a lifecycle task; a thread that looks at the owner and then
acts does so under `ownerMutex`, in one step, except a device stop, which holds it while it
drains. `SessionStorage` has one action per file operation, and the process may end between
any two; a copy may be cut in the middle, a rename not. `PluginPersistence` and
`RecordingFinalization` are cut at each lock, channel and native request; the latter also
between the reading and the writing of a manifest, by whichever process does it.

### Abstractions

*Coordinator and reconciler.* A Session is identified with the graph it projects to, and
graphs are equal exactly when `same_projected_graph` holds. Time is a set of operations whose
deadline has passed; the model lets any waiting operation join it at any time when `Expiry` is
set. An error keeps its variant and loses its text. Millisecond stamps are left out; the one
place they are visible, a native result that changes nothing but the stamp of the status
and still runs the hook, is `Republish`. Opening a Project chooses a graph of another
element of `Projects`, a partition of the graphs, or opens the same Project again. The three
critical sections of `advance_audio_environment` are one action. The sidecar is external to
these modules and modelled from how the Host uses it: it may build the graph, refuse while busy
(retryable), fail, or go on building after the Host's timeout (`Abandonment`); a restart is a
new generation that holds no graph.

*Supervisor.* Of a command only what the properties tell apart remains: it mutes, unmutes,
projects the graph, or does neither. `apply_and_wait` is one command here; what it is in detail
is `ProjectionCoordinator`. The three retries of a request and of the startup are a choice
between another try and giving up. A ready event checks the generation and marks it in one
step. A command the Host no longer waits for is carried out when it times out or not at all.
The user's own mute and MIDI listening are restored by one request that changes nothing
modelled. `faulted` is a history variable: whether anything but an unexpected end of the
sidecar went wrong (a spawn, a confirmation, a timeout, a rejection). That the reader of an
earlier process is still at work when the next one becomes ready also counts, since its handler
then fails requests of the new one.

*Timeline engine and native recording.* A graph is its serial, and a device's rack is named by
the graph that loaded it and shared by those that reuse it. Positions, meters, MIDI and gain
are left out; a count-in lasts any number of blocks. A rack is neither bypassed nor automated.
The reclaimed graphs of one `reclaim` leave together, so that the retire queue is a set with a
capacity. In `NativeRecording` a session is its sink.

*Storage.* The content of a Session is a value; what an edit does to it is any other value. A
generation is named by its millisecond and every save has one of its own. `promised` and
`displaced` are history variables: what a load may give now, and what it gave before the last
replacement.

*Plugin persistence.* Parameter values and opaque states are versions, numbered in the order
the user made them; parameters of one device share one key. `owed` is a history variable: the
final states neither kept nor discarded. So is the Project in a rack (`by`), whose user gave it
what it plays: racks are shared by the ids of track and device, not by Project. A device is alone in
its effect chain: the code shares or rebuilds the chain of a track as a whole
(`TimelineSnapshotBuilder.cpp:453`). The audio device does not restart, which would rebuild them all.

*Recording.* A take is a number standing for its directory and its pass; the terminal states
recoverable and failed are one. One track is armed, so a recording session has one slot and one clip
in it. Of a clip the model tells two things apart: what the next take in it keeps (gain, pan, fades,
loop, mute, position, name), as the set of edits made to it, and what comes with the take, as the
take it plays. The merge replaces whole clips and whole recording sessions, as the code does. `sound`
is a history variable: the takes the sidecar completed. So are the fields `edit`, `of` and `seen` of
the entries of `history`: which edit a change was, of which clip, and what a finalization had seen of
the clip it replaced.

### Mutants

Definitions introduced by a comment "Mutant:" are faulty variants of the definition they
precede, one per checked property. With the variant in place of the definition the run that
checks the property must fail; this shows that the property says something about the code.

## What the runs check

| run | properties | bounds that matter |
|---|---|---|
| `CoordinatorCommits` | `WorkerOwnsJob`, `ActiveIsLive`, `ProposalIsOwned`, `WaitersHaveWork`, `CanonicalAdvances`, `SuccessIsActive`, `CommitPublishesJob` | two threads that begin up to three submissions of edits, device proposals, resynchronisations and an audio device change, one restart, refused and failed native calls: enough for a job, a queued request and a submission that joins either or replaces the queue; a proposal meets an edit, a resynchronisation read earlier, or another proposal. No deadlines and no abandoned calls (see below) |
| `CoordinatorLiveness` | `EveryWaitEnds`, `WorkDrains` | two threads with edits and Project switches, one restart, deadlines and abandoned calls |
| `ReconcilerPlay` | `LeaseIsHeld`, `PlaybackIsRequested` | two players with two commands against an edit or a switch between two Projects, deadlines, a restart |
| `ReconcilerAnswers` | `PlayIsAnswered` | one player with two commands: Play against Stop, an edit, a device change and abandoned calls; no restart, as what projects again after one (the restart handler) is in `SidecarSupervisor` |
| `StopBlocked` | `StopIsServed`, violated | see "What disagrees" |
| `SupervisorRestarts` | `OneSidecar`, `NoSidecarAfterShutdown`, `CommandsReachTheirGeneration`, `CrashesAreRepaired`, `StartupIsRestored` | startup, one device recovery, one crash with its recovery, shutdown: two generations and three threads, so that two restarts compete for the same generation |
| `SupervisorCrashes` | `RecoveryUnmutesRestored`, `CrashIsReplaced` | two crashes in a row, so that the recovery of one can meet the next |
| `TimelineGraphs` | `ActiveIsOwned`, `NoGraphIsLost`, `ParameterFindsItsRack`, `ParameterAnswerIsTrue`, `CommandsAreApplied`, `ReadersAreAnswered`, `ImplementsGraphLifecycle` | retire queue and command queue of two, four graphs: both get full; one device start and stop, so that ownership goes over and back; one reader |
| `NativeRecording` | `SinkIsAlive`, `SinkIsAccountedFor`, `StopsEnd`, `SinkOutlivesRecording` | two sinks (a recording after a recording), a command queue of two that refuses a start, one device that comes and goes, so that a device loss competes with a stop |
| `SessionStorage` | `SavesSurvive`, `StartsWhereItStopped`, `PreparedOnLatest`, `ImplementsEditHistory` | two Projects, two contents, a history of two and one kept generation (both overflow), four saves, five sequence numbers, one file damaged from outside, any number of crashes |
| `PluginPersistence` | `FinalsAreKept`, `SwitchKeepsEdits`, `RequestsEnd` | two Projects that use the same device id, two plugins, two changes by the user, one editor, one switch, one exit of the sidecar, shutdown |
| `RecordingFinalization` | `TakesAreWhole`, `EditsSurvive`, `WaitIsServed` | one client, two takes (the second may meet what the first left behind, and go into the same clip), and either two changes of the Session (edits, removals of a clip, activations of a take, undos: so an edit is undone, or two changes meet one merge) or one fault (an exit of the sidecar, a lost answer, a failed file operation or thread start); device loss and shutdown besides |

**Bounds.** `Graph` has two members: the races of the coordinator are about "the same graph
again" and "another graph", and an undo needs only those two. `MaxSequence` bounds the canonical
states, `MaxOperation` the submissions that callers *begin* with (whatever has begun, such as
the repair of a proposal or the restore of a Project, is never cut short by it),
`MaxGeneration` the sidecar processes (in `SidecarSupervisor` the last one does not crash),
`MaxRevision` the audio device changes, `MaxTransport` the Play, Stop and device-change
commands, `MaxCommand` the device recoveries, `MaxSerial` the graphs, `MaxStarts` the starts of
the device, `MaxCommands` the commands after which callers of the engine ask no more (stops
and device changes still queue theirs). `Purpose` chooses which callers take part, `Expiry`
whether deadlines pass, `Abandonment` whether native calls outlive their timeout. Callers,
players, graphs and Projects are symmetric; symmetry is used only in safety runs.
The action constraint `WhereEditsMatter` lets the Session change only while a worker is about to read
it or to merge into it. An edit commutes with every other step, except a start, which may go on with
a recording that is there, and the closing of the Host, which ends editing; what it does to those is
the same at the two moments that remain. It also has no fault in a behaviour with such a change, which
keeps the run small. The theorems about recordings have no such constraint.
`CHECK_DEADLOCK FALSE` stands where the system ends, by its bounds or by the shutdown of the
coordinator or the Host; `TimelineGraphs` and `NativeRecording`, where the audio callback goes
on for ever, are checked for deadlock.

**Why `CoordinatorCommits` has neither deadlines nor abandoned calls.** With a deadline a failure
that is on record may be cleared while the proposal it excused still plays, and an abandoned
commit completes when nothing counts on it any more; `ProposalIsOwned` and `ActiveIsLive` then
fail, as they fail with Project switches ("What disagrees"). Deadlines are in
`CoordinatorLiveness` and `ReconcilerPlay`, abandoned calls in `CoordinatorLiveness` and
`ReconcilerAnswers`.
`CommitPublishesJob` and `WorkerOwnsJob` hold with both and are proved for both.

**What the properties say.**

- `WorkerOwnsJob`: the operation the worker brings back is the machine's job, in the same phase.
- `ActiveIsLive`: unless a commit is on its way back, what the machine calls active is what
  the sidecar plays. Superseded commits also install their graph; this is why.
- `ProposalIsOwned`: with no work left, a proposal that plays without being canonical has a
  caller still deciding about it or repairing it, unless a failure is on record.
- `CanonicalAdvances`, `SuccessIsActive`: submissions out of order do not turn the intent
  back; whoever is told success has the graph it submitted active in that very step, also
  when it was attached to the operation of somebody else.
- `WaitersHaveWork`: an unanswered waiter has something that will answer it.
- `CommitPublishesJob`: a native commit publishes the job's graph, although discards may fail
  and abandoned preparations complete late.
- `PlaybackIsRequested`: playback begins only for a Play since which no Stop, Pause or device
  change has been accepted.
- `LeaseIsHeld`: the lease belongs to exactly the thread inside a transport operation.
- `EveryWaitEnds`, `WorkDrains`, `PlayIsAnswered`: liveness.
- `OneSidecar`, `NoSidecarAfterShutdown`: a living process is the one in the slot or the one the
  holder of the command gate is about to put there; none lives once `force_shutdown` returned.
- `CommandsReachTheirGeneration`: what is written goes to the process whose readiness was awaited.
- `CrashesAreRepaired`: when nothing but unexpected ends goes wrong, a Host whose startup completed
  comes to rest only with a sidecar that holds the graph and is heard. Whether it is the startup,
  a recovery or a device command that replaced the process, somebody restored it.
- `StartupIsRestored`: startup completes only while no sidecar runs without the graph.
- `RecoveryUnmutesRestored`: the restart handler never unmutes a sidecar without the graph. It
  holds because the restart gate is held until the handler returns.
- `CrashIsReplaced`: liveness.
- `ActiveIsOwned`, `ParameterFindsItsRack`: the graph the audio thread uses, and the rack a queued
  parameter points to, have not been destroyed. Both are plain pointers; the second is safe only
  because a parameter stands in the queue behind the publication of its rack's graph.
- `NoGraphIsLost`: a replaced graph finds room in the retire queue.
- `ParameterAnswerIsTrue`: a parameter reported as applied was applied, although the block that
  drains a command and the block that applies it are told apart only by sequence numbers.
- `CommandsAreApplied`, `ReadersAreAnswered`: an accepted command shows in the frame, through
  any hand-over of the ownership; a reader does not look for ever for a graph that is gone.
- `ImplementsGraphLifecycle`: with `committed` the registry's latest graph, `active` the realtime
  graph and `freed` what is in the registry no more, every behaviour is one of `GraphLifecycle`,
  its fairness included.
- `SinkIsAlive`, `SinkIsAccountedFor`, `SinkOutlivesRecording`: the audio thread never holds or is
  about to take the sink of a session that is gone; a sink whose stop timed out can be found by
  the next stop; a sink is not taken away from a recording that runs.
- `StopsEnd`: a stop ends, done or failed, and leaves the controller open for the next one.
- `SavesSurvive`: wherever a save has come to when the process dies, a load gives the Session last
  confirmed or one whose save was begun since; if the active file is damaged besides, the one it
  displaced.
- `StartsWhereItStopped`: the workspace file names the Project that is open, and one that exists.
- `PreparedOnLatest`: a prepared candidate replaces the very Session it was made from.
- `ImplementsEditHistory`: edits, undo, redo, restored generations and failed saves are moves on the one line
  of edits of `EditHistory`.
- `FinalsAreKept`: a closing editor's state that reached the Host is held by the worker until the
  Session keeps it or has no place for it.
- `SwitchKeepsEdits`: when the runtime is given another Project, the Session that is left has what its
  user gave last to each plugin the runtime plays, in an editor still open or long closed. The rack
  may come from the graph of another Project that uses the same ids; what counts is whose user
  changed it.
- `RequestsEnd`: neither a switch nor a shutdown waits for the worker while it waits for the writer.
- `TakesAreWhole`: a take is in the Session only when the sidecar completed it and its files are
  registered; a Session names no pass it does not hold, and the clip in a slot plays the slot's take.
- `EditsSurvive`: a take is merged into a Session that was edited, undone, or lost a clip since its
  worker read it. Outside the clip the take goes into, exactly the edits made and not undone are in
  the Session after it. That clip becomes what the finalization saw of it: the only edits missing are
  those it did not see, and the only ones back are those it saw. The merge mutant that takes over
  unchanged items of the candidate as well breaks this with one edit of another clip. That the take's
  own clip loses edits is in "What disagrees".
- `WaitIsServed`: a worker beside an empty slot stops waiting, if the outcome of its take or the
  exit of the sidecar is on its way and nobody else's is.

Each module also has a type invariant. It is proved where the module has proofs; elsewhere
it states the intended values of the variables.

**Fairness.** `WaitFairness` assumes that waiting callers are scheduled and deadlines pass:
`wait_for_operation` waits at most 50 ms at a time and looks at the clock. It assumes nothing
of the worker, which may be inside the sidecar for ever. `WorkFairness`, a hypothesis of
`WorkDrains` alone, assumes that the worker runs and that the sidecar does not answer
"retryable" for ever: the code waits for the sidecar to be idle before it tries again, so a
preparation attempted again and again is one day accepted or refused for good (strong
fairness). `Fairness` in `Reconciler` adds that hooks return and that a thread that wants the
lease or the writer lock gets it if it is free again and again. Rust's mutexes promise no
order, so this is an assumption about the scheduler, and the weakest under which a Play can
be said to be served. `Fairness` in `SidecarSupervisor` assumes that readers and the threads
that restart are scheduled, which includes that a request of theirs that can go on does; weak
fairness, as the gates are held for bounded times. It assumes nothing of the startup thread.
`TimelineEngine` assumes that a device that was started keeps calling back until it is stopped,
that a stop that began finishes, and that a reader's thread runs. `NativeRecording` adds that the
threads of the controller run on; its waits for a sink have deadlines, its wait for a command
does not, which is what `StopsEnd` is about. `PluginPersistence` assumes that the worker, a
switch and a shutdown run on: their waits for the sidecar have deadlines, and the worker looks
at its commands and its stop flag at least every 24 ms. `RecordingFinalization` assumes the worker
and the event reader run, and that processing ends: a watchdog ends the sidecar after 45 seconds
without progress. `SessionStorage` states safety only and no fairness.

## What is proved

For every value of the constants, under the assumptions named in the modules.

**Coordinator** (keys have natural sequence and revision, `None` is no value of the types it
completes, callers are not numbers or the like, no graph belongs to two Projects, as a graph carries the
id of its Project, and no graph is the word that stands for an abandoned commit):

| theorem | states |
|---|---|
| `Invariance` | `Spec => []IInv`, the inductive invariant |
| `TypeCorrect` | `Spec => []TypeOK` |
| `WorkerOwnership` | `Spec => []WorkerOwnsJob` |
| `CommitPublication` | `Spec => CommitPublishesJob` |
| `ActiveIsPlayed` | `Spec /\ [](native.abandoned # "commit") => []ActiveIsLive` |
| `ActiveIsPlayedInTime` | `~Abandonment /\ Spec => []ActiveIsLive`, the case of the run |
| `OrderInvariance` | `Spec => []OrderInv` (`ProjectionCallerProofs`) |
| `CanonicalOrder` | `Spec => CanonicalAdvances` (`ProjectionCallerProofs`) |
| `WaitersAreServed` | `Spec => []WaitersHaveWork` (`ProjectionCallerProofs`) |
| `AnswersAreOwed` | `Spec => []AnswerInv` (`ProjectionCallerProofs`) |
| `SuccessIsTrue` | `Spec => SuccessIsActive` (`ProjectionCallerProofs`) |
| `ProposalsAreOwned` | `~Expiry /\ "switch" \notin Purpose /\ Spec => []ProposalIsOwned` (`ProjectionCallerProofs`) |

`WorkerOwnsJob` is not inductive by itself. What it lacks: while the worker is idle, or
discards, the machine has no claim on it, but there may already be a job waiting in phase
"preparing", which must be a *fresh* one. `CommitPublishesJob` lacks more: a commit publishes
whatever is *prepared*, so the invariant has to say that the graph prepared in the sidecar,
while the worker is between a successful preparation and its commit, is the worker's graph,
and that what is carried, and what waiters wait for, was issued. The invariant is

    IInv == TypeOK /\ WorkerOwnsJob /\ WorkerCarries /\ WaitsForIssued /\ PreparedIsWorkers

The proof has one step per action of `Next`; the machine's operators enter through lemmas that
say of each input what it does to type and job, so that the big definitions are expanded once.

`ActiveIsLive` is about two machines that learn of each other late. `LiveInv` says that the environment
a graph was committed in is never ahead of the sidecar (`GenerationsPast`), that a commit which came
back with success is the graph the sidecar plays (`CommitPlays`), and that what the machine calls
active plays whenever no such result is on its way. A commit the Host gave up on may still take
effect, after which the machine calls the previous graph active: hence the hypothesis. It says what
happens, not what may not happen: preparations may be abandoned as often as they like, and
`ActiveIsPlayedInTime` discharges it where no call outlives its timeout.

`CanonicalAdvances` needs what no single step shows. A submission is compared with the machine's
canonical intent, a promotion is not: `PromoteCandidate` makes whatever candidate is active
canonical. `OrderInv` says why that is no step back: the thread that switches the Project has held
the writer lock since it chose the key, which is therefore still the next one (`SwitchIsNext`), and
the machine is ahead of the canonical state by no more than this promotion (`NotAhead`). That the
lock is free, or held by a caller, is told apart by `CallerAssumption`.

`WaitersHaveWork` needs `ExpiringIsLate` (whoever reports a deadline has passed it: the report may
drop the queued request of that one caller) and that a stopped machine queues nothing. The rest are
lemmas about the machine: each operator that drops, replaces or finishes a request answers those who
wait for it, also those that were made aliases of its operation. In between, while an operator has
replaced a request and not yet answered, `ServedBut` names the waiters that are still open.

`SuccessIsActive` follows from `AnswerInv`: an operation means one graph as long as anybody waits for
it, be it in the job, in the queue or as an alias of either (`Issued`, `AsksFor`). The lemmas say of
each operator of the machine that it moves requests and waiters without changing what they mean and
tells only the waiters of operations it finished of success (`Moves`); that the graph is active in
that step is what the two operators that finish with success do, a commit and a submission of what
is active already.

`ProposalIsOwned` is the invariant with the longest way from the property to what is inductive. It
speaks of the end, when no work is left; `OwnedInv` has to follow a proposal from its submission. A
proposal at work is one of the operations some caller waits for, and its waiter has no answer yet
(`Pending`), so that the step which makes it play or drops it is also the step that lets the caller
decide. While a canonical job runs that was overtaken by another canonical state, the request that
replaces it is queued, or no proposal plays (`Guided`): otherwise the end of that job would leave the
earlier proposal playing. A proposal played in an environment that has passed is not active, and the
job of such an environment cannot make it so (`Tasks`). Finally somebody who is *about to* submit
what is canonical counts as an owner only if the machine will take the submission, which is why
`Owner` compares its key with the canonical intent: a rejected submission repairs nothing, but then a
newer canonical state has been submitted since it was read, and that submission did. The two hypotheses
are those under which the statement is true. A deadline may clear the failure that excused a
proposal, and a caller that loses to a switch goes home without a repair ("What disagrees").
Abandoned calls, refused calls, restarts and shutdowns are all allowed.

**Reconciler** (the same assumptions, and `None` is neither a hook, nor an intent, nor a thread;
any number of players and callers):

| theorem | states |
|---|---|
| `LeaseInvariance` | `ReconcilerSpec => [](LeaseInv /\ KeysKnown)`, the inductive invariant |
| `LeaseOwnership` | `ReconcilerSpec => []LeaseIsHeld` |
| `PlaybackIsWanted` | `ReconcilerSpec => PlaybackIsRequested` |

Who holds the lease follows from where the threads are, once the hooks that wait for it are told
from those that hold it, and a player inside an operation is not at the same time inside one of
the hook it runs (`OneOperation`). `PlaybackIsRequested` rests on the lease: readiness is looked
at in one critical section and the native Play called later, and what makes this safe is that only
the holder may change the intent in between (`PlaysForIntent`). `KeysKnown` is there because an
intent is built from a key a caller carries, and must be one to be told from `None`.

**Supervisor** (any device threads and any bounds; `Startup`, the device threads, the numbers and
`None` are different things, and there is at least one generation):

| theorem | states |
|---|---|
| `InvHolds` | `SupervisorSpec => []SupervisorInv`, the inductive invariant |
| `TypeCorrect` | `SupervisorSpec => []SupervisorTypeOK` |
| `AtMostOneSidecar` | `SupervisorSpec => []OneSidecar` |
| `ShutdownIsFinal` | `SupervisorSpec => []NoSidecarAfterShutdown` |
| `CommandsAreNotMisdelivered` | `SupervisorSpec => []CommandsReachTheirGeneration` |
| `RestorationHolds` | `SupervisorSpec => []RestoreInv` |
| `RecoveryIsWhole` | `SupervisorSpec => []RecoveryUnmutesRestored` |
| `StartupIsWhole` | `SupervisorSpec => StartupIsRestored` |
| `RepairHolds` | `SupervisorSpec => []RepairInv` |
| `RestIsRepaired` | `SupervisorSpec => []CrashesAreRepaired` |

`OneSidecar` by itself does not survive a restart: `Replace` kills what is in the slot, so a
process that somebody else is about to store must be excluded. `SupervisorInv` adds that a
thread between `Replace` and `Store` holds the command gate and the slot is empty while it does
(`GateHeld`); that the slot holds the current generation (`SlotIsCurrent`), so that the look
under the command gate names the process that is written to; that a generation is spawned once
and its recovery begins after its reader is gone (`SpawnedOnce`); and that after shutdown the
slot is empty and nobody is about to store (`ShutDown`). Most steps move one thread outside the
critical points and are covered by one lemma (`CalmStep`); crash, end of output, replacement,
the steps of the gate's holder and shutdown have a proof of their own.

`RestoreInv` is about time: what a thread was told of a sidecar must still be true when it unmutes it.
Who restarts holds the restart gate to the end of the handler (`RestartHeld`), so between the answer
to its graph and its unmute nobody retires the generation; a request that was sent and not answered
went to the current process (`SentToCurrent`), since replacing a process fails what is pending; the
startup thread holds no gate, and may be overtaken, but then finds its generation gone
(`StartupRestored`).

`CrashesAreRepaired` speaks of rest, so its invariant says at every moment who will do what is still to
be done. `SeenInv`: the reader of the current process is at work as long as that lives, its end leads
to a restart unless the Host stops, and an empty slot has somebody about to fill it. `GraphOwed`,
`MuteOwed`: a living sidecar without the graph, or muted, has a thread at a point from which it will
give it the graph, or unmute it, and whose request, if it has made one, will be carried out
(`Sound`). That such a request is not lost on the way is the hard part (`FreshStays`): the handler of
an ended process fails whatever is pending, of whatever generation, and it is only because readiness
comes after the reader of the process before is done, one of the things `faulted` stands for, that it
cannot meet a request of the replacement.

**Timeline engine** (in `NativeEngineProofs`, with the next; any queue sizes, readers, sinks, requests and bounds):

| theorem | states |
|---|---|
| `Invariance` | `Spec => []IInv`, the inductive invariant |
| `TypeCorrect` | `Spec => []TypeOK` |
| `ActiveGraphIsAlive` | `Spec => []ActiveIsOwned` |
| `NoGraphLeaks` | `Spec => []NoGraphIsLost` |
| `CommandsAreOrdered` | `Spec => []CommandsInOrder`: every accepted command is applied once and in order, through any hand-over |
| `ParametersFindTheirRacks` | `Spec => []ParameterFindsItsRack` |
| `ParameterAnswersAreTrue` | `Spec => []ParameterAnswerIsTrue` |
| `EngineImplementsLifecycle` | every behaviour of `Spec` has the safety part of `GraphLifecycle` |

The invariant adds what none of them says alone: the publications in the queue are exactly the
graphs committed after the active one, in serial order (`PublicationsInLine`), so that the next
publication always replaces the active graph by its successor; a parameter stands behind the
publication of its rack's graph (`ParametersInLine`); what is retired has been replaced
(`RetiredAreReplaced`), and, as the active graph is in the registry and not retired, fewer
graphs are retired than registered. The registry refuses a commit when it is as large as the
retire queue, so the queue has room for every graph that will be replaced: this is why
`NoGraphIsLost` does not need a bound on the audio thread.

    IInv == TypeOK /\ RegistryInOrder /\ RetiredAreReplaced /\ PublicationsInLine
            /\ ParametersInLine /\ CommandsInOrder /\ RacksAnswerTruly

**Native recording** (any queue sizes, sinks and bounds; `None` is no thread):

| theorem | states |
|---|---|
| `RecordingInvariance` | `RecordingSpec => []RecordingInv`, the inductive invariant |
| `EngineHoldsBelow` | `RecordingSpec => []IInv`: the engine's invariant, with the controller's commands in its queue |
| `SinksAreAlive` | `RecordingSpec => []SinkIsAlive` |
| `SinksAreAccountedFor` | `RecordingSpec => []SinkIsAccountedFor` |
| `SinksOutliveRecordings` | `RecordingSpec => SinkOutlivesRecording` |
| `RecordingsAreOwned` | `RecordingSpec => []RecordingIsOwned` |

The controller never sees the audio thread's state, only what it has queued and what has come
back. The invariant therefore speaks of the realtime state *together with* the queue: the
controller's sink is in exactly one of three places, queued, with the audio thread, or retired
(`SinkInLine`); a clear stands in the queue only behind the last start (`ClearsInLine`); a stop
that is waited for is applied or stands behind every start (`StopInLine`). Each part survives
two moves, a command that is queued and a head that is applied, and a command applied at once
is one after the other; the lemmas about these two moves are all the handlers need. The rest says
who may act: the start and the stop worker hold the controller's lock over the steps where they
change what the other looks at.

**Storage** (any Projects, contents, limits and bounds; no Session is `Damaged` or `None`, and these
differ):

| theorem | states |
|---|---|
| `StorageInvariance` | `Spec => []StorageInv`, the inductive invariant |
| `RestartOpensSameProject` | `Spec => []StartsWhereItStopped` |
| `CandidatesReplaceTheirBase` | `Spec => PreparedOnLatest` |
| `SavesInvariance` | `Spec => []SavesInv`, what the next needs in addition |
| `LoadsGiveWhatIsPromised` | `Spec => [](damages <= 1 => SavesSurvive)` |
| `HistoryIsOneLine` | `Spec => ImplementsEditHistory`, a refinement |
| `StorageTypes` | `Spec => []StorageTypeOK` |

`StorageInv` adds to `StartsWhereItStopped` that every save is of a Project with a directory and that
only a Project the workspace file does not name can be discarded (`SaveHasDirectory`), that only an
open Project is edited (`CommitsAreOpen`), and that no candidate is newer than the sequence, and one
of the current sequence is of the current Session (`CandidatesAreOld`).
`PreparedOnLatest` rests on the sequence: it grows with every exchange of the Session and
goes on across Projects, so a candidate with the current sequence was made from the current
Session; an undo that restores equal content does not bring a sequence back.

`SavesInv` says of each Project that an active file that can be read is promised, that without one
there are no generations, and that, as long as nothing was damaged, the newest readable generation is
what the active file displaced or a copy of it (`Kept`). Whether the next step keeps that depends on
how far a save has come (`Proceeds`): the generation it makes has the last time stamp, is unreadable
until the copy is finished and equals the active file then, and after the rename it is what was
displaced. So pruning, which keeps the newest, keeps what matters, and a save cut short at any of
these points leaves what it found. That a finite set of time stamps has a greatest, which the choice
of the newest generation needs, is the lemma `HasGreatest`, from well-founded induction over the
naturals.

`SavesSurvive` is proved while at most one active file was damaged, as in the run. With a second
damage it is false, and TLC finds how (`MaxDamages = 2`, five saves): a copy of the damaged file
counts as a generation when `prune_generations` removes the older ones, and with one generation kept
none that can be read is left for the next damage.

That `SessionStorage` implements `EditHistory` needs one fact more, that the entry an undo or a redo has
taken is the content its save writes (`EntryIsSaved`), and the limit on both stacks together, which
keeps the place that entry came from free until the save is over (`RoomIsKept`). The line is compared
element by element: `Laid` writes it out as one function of the history and the Session, and an edit
(`EditExtendsLine`, with and without an entry given up), an undo or a redo (`MoveKeepsLine`) and a
Project that is opened (`InstallOpens`) are the moves of `EditHistory`; an undo that begins and a save
that fails leave the line alone (`TakenStays`, `PutBackStays`).

**Plugin persistence** (any Projects, devices, plugins and bounds; the Factory plugin is one, and
`None` is none of these, no event, and no graph or editor of the sidecar):

| theorem | states |
|---|---|
| `PersistenceInvariance` | `Spec => []PersistenceInv`, the inductive invariant |
| `FinalStatesAreKept` | `Spec => []FinalsAreKept` |
| `EditsInvariance` | `Spec => []EditsInvariant`, what the next needs in addition |
| `SwitchesKeepEdits` | `Spec => SwitchKeepsEdits` |

A final state is on its way through five places, and what takes it out of one of them must not be
mistaken about which event it removes. `IdsTell`: among all events anywhere an id names one, so that
neither an acknowledgement nor the set of changes a switch has applied can stand for a final state
that was not meant. `OwedToSwitch` follows a switch that closes the editor: from then on no final
state is on the wire, the reply it gets has all that are owed, applying them leaves none, and only
then is the other Project loaded. It needs to know who has the writer and that a stopping worker has
nothing left to collect (`Turns`), and that the worker answers one question at a time, the one the
switch has asked (`Asked`).

    PersistenceInv == Types /\ Turns /\ Asked /\ IdsTell /\ OwedToSwitch /\ EditorIsHere /\ OwedIsHeld

The proof goes through one fact of every step, that it adds at most one event to those around, with
an id of its own (`FlowStep`). What is collected and forgotten is computed along the queue; that such a
function exists, is unique, and which events its last value has (`OnlyIs`, `CollectAllIs`) is derived by
well-founded induction over the naturals, where the library's recursion theorems take an operator the
provers cannot instantiate.

`SwitchesKeepEdits` is about everything a user does in an editor, and a Session takes any state it is
given, an older one too. So the proof must follow what is still to arrive, and in which order:

    EditsInvariant == PersistenceInv /\ Line /\ FailedStay /\ Application /\ EditorShares /\ EditsInv

- `Line`: along the way from the sidecar through the worker to the switch, two events one of which is a
  final state arrive in the order they were reported in. Other reports may be replaced in the
  queue by newer ones, which then arrive early.
- `FailedStay`: a flush leaves behind only changes of devices whose commit failed, the later ones of
  such a device included.
- `Application`: what a switch has applied is forgotten once it is acknowledged, and what arrived
  meanwhile is later than what was applied.
- `EditorShares`: an editor shows the rack the graph plays, or the rack was made anew since and has
  nothing of the editor's.
- `EditsInv`: what a user has given to a rack is with the editor that is open, or the Session has it or
  a final state that covers it is owed (`Kept`); and whatever is older and could still be applied for
  that device (`Stale`) is followed by such a final state.

A switch closes the editor first, is handed what is owed, applies it and only then loads
(`OwedToSwitch`), so at that moment nothing is with an editor, nothing owed is left, and `EditsInv` says
the Session has it. TLC checked the invariant with one switch and one exit, and with two switches and
two editors, before it was proved; the theorem is for any number of each. The proof showed that
the property had been stated of the wrong racks: with two switches between Projects with the same ids
a graph plays what the *other* Project's user gave, which no switch can bring back. Racks now
carry whose it is, and what was left over became `CandidateIsCanonical` ("What disagrees").

**Recording** (any clients, takes, edits and faults; `None` is no number, no recording session and no
clip):

| theorem | states |
|---|---|
| `FinalizationInvariance` | `Spec => []RecordingInv`, the inductive invariant |
| `FinalizationTypes` | `Spec => []RecordingTypeOK` |
| `CommittedTakesAreWhole` | `Spec => []TakesAreWhole` |
| `MergesKeepEdits` | `Spec => []EditsSurvive` |

An undo goes back to a Session that must be whole as well, so `TakesAreWhole` is stated of every entry
of the history, and `EditsSurvive` of every prefix of it (`EditsAreKept`): each entry accounts for the
edits made before it (`Accounts`). The edits a worker's base has of the take's clip go into the entry
of its commit (`seen`), so that the proof needs nothing of how old the base is: items the candidate
did not change stay as they are in the current Session (`MergesOnly`), and the one it changed has the
edits that were seen. That a take about to be committed is complete was decided elsewhere, when the sidecar
finished it; `OutcomesAreTrue` follows this along the way the outcome travels, from the sidecar's outbox
over the wire and the slot, where another take's failure may stand instead, to the worker, and
`WorkersAreEntitled` through the worker's steps.

**Only model-checked:** all liveness (fairness and ENABLED are beyond the prover), with it the
fairness half of `ImplementsGraphLifecycle`, `RequestsEnd` of the plugin persistence and
`WaitIsServed` of the recording; and what the storage keeps when more than one file is damaged,
where `SavesSurvive` does not hold. Every safety invariant and every action property of the passing
runs is proved, `ProposalIsOwned`, `ActiveIsLive` and `SavesSurvive` under the hypotheses named above.

## What disagrees

Where the code does not do what the repository says of it, the statement is kept in its module as
a definition. One of them is a run that ends in a violation:

- **`StopBlocked`** (`Reconciler!StopIsServed`; `runtime.rs:290`). A Play that fails at once marks the
  projection failed while it holds the lease; the hook of that change runs on the same thread
  and waits for the lease. Stop is never served (`docs/audio-engine.md:65`).

The others TLC violates as well, in the configuration named; they are not among the runs:

- `ProjectionCoordinator!CanonicalAccountedFor` (`projection_machine.rs:580`; edits with deadlines). Edit
  to B while A plays, edit to C, undo to B while the commit of C is inside the sidecar. The undo
  withdraws what is queued because B is active; C's commit then returns superseded and installs C.
  The accepted state B neither plays nor is prepared, queued or failed. `docs/audio-engine.md:50`
  gives priority to the later request.
- `ProjectionCoordinator!ProposalIsOwned` with a Project switch (`session/adapter/devices.rs:88`). A device
  proposal loses to the switch; it is not repaired, and may have become active after it.
- `SidecarSupervisor!StartupUnmutesRestored` (`audio/command_bus.rs:73`). The sidecar ends between the
  startup's last look at the generation and its unmute; the request waits for the replacement and
  unmutes it before it holds the graph. `startup.rs:3`: "a generation change never exposes partially
  restored audio". The startup notices afterwards and begins again (`StartupIsRestored` holds).
- `TimelineEngine!DevicesAreRebuilt` (`TimelineEngine.cpp:163`). A graph whose preparation began before
  the device restarted clears, when it is committed, the mark the restart has set, so the next one
  reuses devices of the old environment. `ControlGraphRegistry.h:48`: "Set when the audio device
  restarts; prepared device instances must then be rebuilt".
- `NativeRecording!RefusedStartLeavesNothing` (`RecordingController.cpp:64`). A start whose start command
  and whose clearing of the sink are both refused keeps its session as the recording. The test
  `RecordingStartQueueFullLeavesNoSessionOrSinkAndCanRetry` (`TimelineRecordingTest.cpp:175`) states the
  opposite of the case it can reach.
- `SessionStorage!FailedSaveKeepsFile` (`riffra-host/src/storage.rs:212`). Pruning happens after the
  replacement; when it fails the save is reported failed and the new file stays. `storage.rs:169`:
  "Returns an I/O or validation error without replacing the active file".
- `PluginPersistence!CandidateIsCanonical` (`TimelineSnapshotBuilder.cpp:443`; one device, one plugin, one
  change by the user, one editor, one switch). A new graph takes over the rack of a device with the same
  ids and the same specification it was built from; what a user changed in the rack's editor since is
  not part of that. A switch brings such a change into the Session that is left, not into the rack's
  specification, so a Project that holds the same device in the same state (a copy: export and import
  keep ids, `riffra-host/src/project.rs:273`) opens with it audible, although its Session has no such
  state. `docs/audio-engine.md:237` makes the canonical state the authority for plugin state.
- `PluginPersistence!LastChangeStands` (`host/persistence.rs`). A closing editor's state is committed
  without comparing revisions, so it takes back what an edit in the Host did to that device since
  (`docs/audio-engine.md:237`).
- `RecordingFinalization!FailureIsSettled` (`recording/application.rs:798`, `repository.rs:770`). A commit
  that fails leaves the capture "completed", marked so before; `docs/ipc.md:229` has it settled first.
- `RecordingFinalization!FinalizationEnds`, `SlotIsFresh` (`audio/mod.rs:205`, `lifecycle.rs:368`). Every exit of
  the sidecar leaves a failure in the completion slot, which the next take takes for its own; a later
  exit may then be swallowed and a worker wait for ever, so that new recordings are refused and
  the shutdown waits in `jobs.rs:351`. `docs/audio-engine.md:205` promises an outcome.
- `RecordingFinalization!ClipEditsSurvive` (`riffra-core/src/application/mod.rs:258`; two takes of one
  recording session). Another take of a recording goes into the clip in its slot; the finalization
  changes that clip as it read it (`recording/application.rs:1100`), and the merge puts the whole clip,
  and the whole recording session, in the place of the current ones. A gain, fade, position or mute
  edited meanwhile is taken back, and so is the activation of another take; an undone edit
  returns.
  `riffra-core/src/application/recording/mod.rs:9` has the merge bring in "the production fields owned
  by a completed recording"; gain, fades and position are not among what a take provides
  (`recording/application.rs:1106`). The test
  `recording_merge_preserves_unrelated_session_edits` (`:1773`) edits something else.
- `RecordingFinalization!CaptureIsTrue` (`application.rs:248`). A second stop may mark as failed the capture
  of a take that is committed.

**Observed.** Seen while modelling, beyond what a definition says.

*Runtime.* When the workspace file of a Project cannot be written after the runtime promoted its
candidate (`host/project.rs:239`), the previous Project is resubmitted with its older sequence and
rejected, so the coordinator goes on intending a Project that is not open; `wait_for_native_projection`
may report Ready for a proposal whose key equals that of a competing commit
(`projection_machine.rs:794`; this is why `ReadyIsCanonical` holds among edits only); an error is
recorded only when nothing is queued, so a failure during which a proposal is queued can be
forgotten (`:617`); a canonical job that reaches its deadline ends as superseded and publishes no
failure, so a Play that waits for it stays armed (`:546`), which is why `PlayIsAnswered` is checked
without deadlines; a sidecar replaced between the readiness check and the native Play is told to
play without a graph (`runtime.rs:286`); an error of the startup's unmute ends the startup as failed
also when it was the generation that changed (`startup.rs:434`); the startup exposes the sidecar on
purpose after a restoration that failed (`:251`), which is why that unmute is a point of its own
(`expose`) and no property speaks of it; the handler of an ended process fails requests of its
replacement when it is slow (`audio/lifecycle.rs:369`); a ready event checks the generation and marks
it in two steps, without the mutex its waiters sleep under (`sidecar_process.rs:129`, `:132`), which
costs a timeout; only the last 32 restart outcomes are remembered (`recovery.rs:95`); the second look
at `shutting_down` of a restart (`lifecycle.rs:511`) keeps a process from being stored after
`cancel_waits_for_shutdown`, and the command gate alone would already have `force_shutdown` kill it.

*Native.* When the stop of the transport is applied while no block renders, captures stay open if the
sink is cleared later; a count-in cancelled on the word of an old frame discards audio already
captured (`RecordingController.cpp:107`); whether a parameter was cancelled is looked at before, not
while, it is applied.

*Storage.* Two saves in one millisecond share a generation; unreadable generations count towards the
kept ones; a clock set back reorders them; directory entries are not synced; a failed prune leaves
the file ahead of the memory; restoring a generation saves before it commits; an
`expectedSequence` from before a restart of the Host may match again.

*Plugin persistence.* A state pending when the user undoes is committed over the undo; a pending
change of a device that was removed fails for ever and with it every Project switch; a State of a
plugin that was replaced in its slot is stored for the new one; a failed closing capture makes
later closings and switches fail; a Final of another Project is retried for ever; errors of the last
flush are ignored; a switch whose preparation fails after the changes were taken leaves the
runtime's intent behind until the next projection.

*Recording.* The check for a pending finalization and the start are two steps
(`commands.rs:508`), so with two clients the failure of an exit can be overwritten by the outcome of a
later take (`WaitIsServed` therefore asks that nobody is starting); a stop during finalization, or
begun on an older status, may begin a second finalization that waits for ever; a capture left
"completing" by a crash is listed as invalid (`repository.rs:327`), and an Arrange take interrupted while
"recording" is not recovered by listing; a manifest written by the Host between the sidecar's
reading and writing loses the capture's start (`repository.rs:202`), and the take gets a recording
session of its own; when the clip of a recording session is removed, or the take that made it undone,
while another take of it is finalized, the merge brings back the recording session and the clip
without the older takes, which is invalid, and the finalization fails. With several armed tracks
the passes of the other tracks are still there, so a removed clip may return.

## Not modelled

Left out of modelled parts: a Session that cannot be projected (an unreadable asset location);
safe mode; Seek and go-to-start, which take the lease exactly as Stop does; the audio transition
around opening a Project; that the reader of the first process may run before `start` has stored it;
free-space checks, asset references and the lock of the data root; seeking, the loop, the
metronome, live input and panic in the engine; listing, renaming, archiving and promoting takes,
and takes without an Arrange manifest; several armed tracks, the removal of a track and the choice
of a take's variant; Project switches during a finalization.

Not modelled at all, and why:

- *Session domain rules, Session projection, score, library, analysis, plugin catalogue, assets and file
  formats.* Sequential functions over large records, with no state shared between threads. A model
  would restate each one, and its properties with it; the repository's unit tests cover them.
- *Desktop application, command line, audio commands and wire protocol, dispatch of single commands.*
  User interface, argument parsing, encoding; each command calls one operation of a component above.
  These and the previous group are most of the repository's lines, which is why the mapped share
  of all source is small while the concurrent core is mapped closely.
- *Native plugins, audio, device, MIDI, mixing and rendering.* Signal processing and calls into the
  operating system and third-party plugins. What outlives a block (graphs, racks, sinks) is in
  `TimelineEngine`.
- *Control protocol and endpoints, jobs and offline rendering.* Stateful and of moderate size: a
  registry file per Host, one request per connection; a job's state and its cancellation. They meet
  the modelled parts only where the shutdown joins them.

## What could come next

1. Refinements between the levels: that `RestartSidecar` of `ProjectionCoordinator` is what the
   supervisor's restarts look like from above, and its commits what `GraphLifecycle` offers.
2. Jobs and their cancellation; discovery of Hosts.

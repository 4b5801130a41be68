---------------------------- MODULE TimelineEngine ----------------------------
(***************************************************************************)
(* The native TimelineEngine (native/audio-engine/src/timeline): control   *)
(* threads send commands to the one owner of the realtime state, graphs    *)
(* are prepared, committed, published, retired and destroyed, and readers  *)
(* visit the graph the last published frame names.                         *)
(*                                                                         *)
(* The owner is the audio thread while a device runs and the control side  *)
(* otherwise; `ownerMutex` is held by a device stop for as long as it      *)
(* drains (device = "stopping"), and by every other user for one step.     *)
(* The lifecycle executor runs one task at a time: prepare, commit and     *)
(* discard on the message thread, device parameters on its worker.         *)
(*                                                                         *)
(* Abstractions: a graph is its serial; the devices (plugin racks) it uses *)
(* are named by the serial of the graph that loaded them and shared when   *)
(* the builder reuses them; positions, meters, MIDI and gain are left out; *)
(* a count-in lasts any number of blocks; a rack is neither bypassed nor   *)
(* under automation.                                                       *)
(***************************************************************************)
EXTENDS Integers, Sequences, FiniteSets

CONSTANTS Capacity,       \* ControlGraphRegistry::kRetireCapacity
          QueueCapacity,  \* kRealtimeCommandCapacity
          Reader,         \* threads that visit the active graph
          Sink,           \* capture sinks (recording sessions)
          Requests,       \* kinds of transport request the callers make
          MaxSerial,      \* bound: graphs committed
          MaxStarts,      \* bound: device starts
          MaxCommands,    \* bound: commands after which callers ask no more
          None

ASSUME CapacityAssumption == Capacity \in Nat \ {0} /\ QueueCapacity \in Nat \ {0}
ASSUME BoundAssumption == MaxSerial \in Nat /\ MaxStarts \in Nat /\ MaxCommands \in Nat
ASSUME SinkAssumption == None \notin Sink

\* `other`: seek, panic, live MIDI target and targeted MIDI, which change
\* nothing kept here.
TransportKind == {"play", "pause", "stop", "setStarting", "other"}
ASSUME RequestAssumption == Requests \subseteq TransportKind

Kind == TransportKind \union
    {"startRecording", "stopArrangeRecording", "publishGraph", "deviceStarted",
     "setRecordingSink", "clearRecordingSink", "applyDeviceParameters"}

VARIABLES
    owner,       \* TimelineEngine::owner
    commands,    \* realtimeCommands
    nextCommand, \* nextCommandSequence
    realtime,    \* RealtimeState
    frame,       \* realtimeFrame, what publishFrame wrote last
    registry,    \* ControlGraphRegistry::State
    retired,     \* retiredGraphs; reclaim takes them all, so a set
    sinks,       \* RecordingCaptureRuntime::retiredSinks, and the sinks that hold audio
    racks,       \* per devices: the control sequences of its PluginRack
    task,        \* the lifecycle task in progress
    device,      \* the audio device and the engine's start and stop handlers
    block,       \* the audio callback: "idle", "draining" or "rendering"
    readers      \* per reader: the frame's serial it is about to visit

graphVars == <<registry, retired>>
queueVars == <<commands, nextCommand>>
stateVars == <<realtime, sinks>>
vars == <<owner, commands, nextCommand, realtime, frame, registry, retired, sinks, racks, task,
          device, block, readers>>

RealtimeCommand ==
    [kind : Kind, sequence : Nat, graph : Nat, rack : Nat, sink : Sink \union {None},
     countIn : BOOLEAN]

Command(kind) ==
    [kind |-> kind, sequence |-> 0, graph |-> 0, rack |-> 0, sink |-> None, countIn |-> FALSE]

RealtimeState ==
    [graph : Nat,                       \* serial of the active graph, 0 for nullptr
     transport : {"stopped", "starting", "playing", "paused"},
     phase : {"idle", "countingIn", "recording"},
     sink : Sink \union {None},         \* RecordingCaptureRuntime::sink
     capturing : BOOLEAN,               \* an armed track's capture is open
     applied : Nat]                     \* appliedCommandSequence

RealtimeFrame ==
    [serial : Nat, transport : {"stopped", "starting", "playing", "paused"},
     phase : {"idle", "countingIn", "recording"}, applied : Nat]

FrameOf(state) ==
    [serial |-> state.graph, transport |-> state.transport, phase |-> state.phase,
     applied |-> state.applied]

\* A graph's devices, and the device start they were loaded after.
Built == [devices : Nat, starts : Nat]

TypeOK ==
    /\ owner \in {"control", "audio"}
    /\ commands \in Seq(RealtimeCommand)
    /\ nextCommand \in Nat
    /\ realtime \in RealtimeState
    /\ frame \in RealtimeFrame
    /\ registry \in [pending : Built \union {None},
                     committed : SUBSET Nat,     \* every graph not reclaimed yet
                     built : [1 .. MaxSerial -> Built],
                     nextSerial : Nat,
                     devicesNeedReprepare : BOOLEAN]
    /\ retired \subseteq Nat \ {0}
    /\ sinks \in [retired : SUBSET Sink, captured : SUBSET Sink]
    /\ racks \in [1 .. MaxSerial + 1 -> [requested : Nat, completed : Nat, cancelled : Nat]]
    /\ task \in [kind : {"none", "commit", "parameter"}, rack : Nat, sequence : Nat]
    /\ device \in [state : {"stopped", "flagged", "announced", "running", "stopping"},
                   starts : Nat]
    /\ block \in {"idle", "draining", "rendering"}
    /\ readers \in [Reader -> Nat \union {None}]

Init ==
    /\ owner = "control"
    /\ commands = <<>> /\ nextCommand = 1
    /\ realtime = [graph |-> 0, transport |-> "stopped", phase |-> "idle", sink |-> None,
                   capturing |-> FALSE, applied |-> 0]
    /\ frame = FrameOf(realtime)
    /\ registry = [pending |-> None, committed |-> {},
                   built |-> [s \in 1 .. MaxSerial |-> [devices |-> 0, starts |-> 0]],
                   nextSerial |-> 1, devicesNeedReprepare |-> FALSE]
    /\ retired = {}
    /\ sinks = [retired |-> {}, captured |-> {}]
    /\ racks = [d \in 1 .. MaxSerial + 1 |-> [requested |-> 0, completed |-> 0, cancelled |-> 0]]
    /\ task = [kind |-> "none", rack |-> 0, sequence |-> 0]
    /\ device = [state |-> "stopped", starts |-> 0]
    /\ block = "idle"
    /\ readers = [r \in Reader |-> None]

\* latestCommitted, 0 for nullptr.
LatestCommitted == registry.nextSerial - 1

-----------------------------------------------------------------------------
(* Applying one command.                                                   *)

Play(state) == [state EXCEPT !.transport = "playing"]

Pause(state) ==
    IF state.phase = "idle" /\ state.transport \in {"playing", "starting"}
    THEN [state EXCEPT !.transport = "paused"] ELSE state

\* The transport's stop leaves the captures open: the next block closes them.
Stop(state) == [state EXCEPT !.transport = "stopped", !.phase = "idle"]

StartRecordingNow(state, countIn) ==
    IF state.graph = 0 \/ state.phase # "idle" THEN state
    ELSE IF state.transport = "playing" \/ ~countIn
         THEN [state EXCEPT !.phase = "recording", !.transport = "playing", !.capturing = FALSE]
         ELSE [state EXCEPT !.phase = "countingIn", !.capturing = FALSE]

\* Mutant: a count-in outlives the stop.
StopRecordingOnly(state) ==
    IF state.phase = "recording"
    THEN [state EXCEPT !.transport = "stopped", !.phase = "idle", !.capturing = FALSE] ELSE state

\* closeRecordingCaptures returns early when no recording runs.
StopArrangeRecording(state) ==
    [state EXCEPT !.transport = "stopped", !.phase = "idle",
                  !.capturing = @ /\ state.phase = "idle"]

Applied(state, command) ==
    LET next == CASE command.kind = "play" -> Play(state)
                  [] command.kind = "pause" -> Pause(state)
                  [] command.kind = "stop" -> Stop(state)
                  [] command.kind = "setStarting" -> [state EXCEPT !.transport = "starting"]
                  [] command.kind = "startRecording" -> StartRecordingNow(state, command.countIn)
                  [] command.kind = "stopArrangeRecording" -> StopArrangeRecording(state)
                  [] command.kind = "publishGraph" -> [state EXCEPT !.graph = command.graph]
                  [] command.kind = "setRecordingSink" -> [state EXCEPT !.sink = command.sink]
                  [] command.kind = "clearRecordingSink" -> [state EXCEPT !.sink = None]
                  [] OTHER -> state
    IN [next EXCEPT !.applied = command.sequence]

\* publishGraph retires the graph it replaces; RetireQueue::retire drops it
\* when the queue is full.
Retired(state, command) ==
    IF command.kind = "publishGraph" /\ state.graph # 0 /\ Cardinality(retired) < Capacity
    THEN {state.graph} ELSE {}

\* applyDeviceParameters acts on the rack unless its graph is not the active
\* one or its caller gave up.
ReachesRack(state, command) ==
    /\ command.kind = "applyDeviceParameters"
    /\ state.graph # 0 /\ state.graph = command.graph
    /\ command.sequence > racks[command.rack].cancelled

\* A rack that no block will process completes the request at once.
AppliedToRack(state, command) ==
    IF ReachesRack(state, command)
    THEN [racks EXCEPT
            ![command.rack].requested = command.sequence,
            ![command.rack].completed =
                IF state.transport # "playing" \/ owner = "control" THEN command.sequence ELSE @]
    ELSE racks

\* RecordingCaptureRuntime::setSink retires the sink it replaces.
SinkRetired(state, command) ==
    IF command.kind \in {"setRecordingSink", "clearRecordingSink"} /\ state.sink # None
    THEN {state.sink} ELSE {}

ApplyRealtimeCommand(command) ==
    /\ realtime' = Applied(realtime, command)
    /\ sinks' = [sinks EXCEPT !.retired = @ \union SinkRetired(realtime, command)]
    /\ retired' = retired \union Retired(realtime, command)
    /\ racks' = AppliedToRack(realtime, command)

-----------------------------------------------------------------------------
(* Submitting a command: applied at once when the control side owns the    *)
(* state, queued otherwise.  It waits for a device stop that holds the     *)
(* mutex, and is refused when the queue is full.                           *)

CanSubmit == owner = "control" \/ Len(commands) < QueueCapacity
MutexFree == device.state # "stopping"

Submit(command) ==
    LET numbered == [command EXCEPT !.sequence = nextCommand] IN
    /\ MutexFree /\ CanSubmit
    /\ nextCommand' = nextCommand + 1
    /\ \/ owner = "control" /\ ApplyRealtimeCommand(numbered)
          /\ frame' = FrameOf(realtime') /\ UNCHANGED commands
       \/ owner = "audio" /\ commands' = Append(commands, numbered)
          /\ UNCHANGED <<stateVars, retired, racks, frame>>

Refused == MutexFree /\ ~CanSubmit

\* Transport handlers; pause is refused while the frame shows a recording.
RequestTransport(kind) ==
    /\ nextCommand <= MaxCommands
    /\ kind = "pause" => frame.phase = "idle"
    /\ Submit(Command(kind))
    /\ UNCHANGED <<owner, registry, task, device, block, readers>>

-----------------------------------------------------------------------------
(* Lifecycle tasks.                                                        *)

MessageThreadIdle == task.kind # "commit"

\* loadSnapshot: builds the graph, sharing the devices of the latest one when
\* they still fit, and replaces what was prepared before.
LoadSnapshot(sameDevices) ==
    LET shares == sameDevices /\ LatestCommitted # 0 /\ ~registry.devicesNeedReprepare IN
    /\ task.kind = "none" /\ LatestCommitted < MaxSerial
    /\ registry' = [registry EXCEPT !.pending =
           IF shares THEN registry.built[LatestCommitted]
           ELSE [devices |-> registry.nextSerial, starts |-> device.starts]]
    /\ UNCHANGED <<owner, queueVars, stateVars, frame, retired, racks, task, device, block, readers>>

\* Mutant: everything older than the latest graph is destroyed.
ReclaimedOlder(graphs, done) == graphs \intersect {LatestCommitted}

\* Destroys every graph the audio thread has retired.
Reclaimed(graphs, done) == graphs \ done

ReclaimRetired ==
    /\ registry' = [registry EXCEPT !.committed = Reclaimed(@, retired)]
    /\ retired' = {}

\* commitPreparedSnapshot reclaims first, under a lock of its own.
BeginCommit ==
    /\ task.kind = "none"
    /\ ReclaimRetired
    /\ task' = [task EXCEPT !.kind = "commit"]
    /\ UNCHANGED <<owner, queueVars, stateVars, frame, racks, device, block, readers>>

\* Mutant: the registry is never full.
AlwaysRoom == TRUE

RoomInRegistry == Cardinality(registry.committed) < Capacity

\* The locked part: publishes the prepared graph and records it as committed.
CommitPreparedSnapshot ==
    /\ task.kind = "commit" /\ registry.pending # None /\ RoomInRegistry
    /\ Submit([Command("publishGraph") EXCEPT !.graph = registry.nextSerial])
    /\ registry' = [registry EXCEPT !.pending = None,
                                    !.committed = @ \union {registry.nextSerial},
                                    !.built[registry.nextSerial] = registry.pending,
                                    !.nextSerial = @ + 1,
                                    !.devicesNeedReprepare = FALSE]
    /\ task' = [task EXCEPT !.kind = "none"]
    /\ UNCHANGED <<owner, device, block, readers>>

\* Nothing is prepared, or a queue is full: the prepared graph stays.
RefuseCommit ==
    /\ task.kind = "commit"
    /\ \/ registry.pending = None \/ ~RoomInRegistry
       \/ Refused
    /\ task' = [task EXCEPT !.kind = "none"]
    /\ UNCHANGED <<owner, queueVars, stateVars, frame, graphVars, racks, device, block, readers>>

DiscardPreparedSnapshot ==
    /\ task.kind = "none"
    /\ registry' = [registry EXCEPT !.pending = None, !.committed = Reclaimed(@, retired)]
    /\ retired' = {}
    /\ UNCHANGED <<owner, queueVars, stateVars, frame, racks, task, device, block, readers>>

\* GraphReclaimTimer.
ReclaimRetiredGraphs ==
    /\ MessageThreadIdle /\ retired # {}
    /\ ReclaimRetired
    /\ UNCHANGED <<owner, queueVars, stateVars, frame, racks, task, device, block, readers>>

\* Mutant: the device is looked up in the graph that plays.
PlayingGraph == frame.serial

\* findDevice looks in the graph committed last, published or not.
ParameterGraph == LatestCommitted

\* synchronizeDeviceParameters: the command names the rack and the graph it is
\* in; the task then polls the rack until the command's sequence has completed.
SetDeviceParameter ==
    /\ task.kind = "none" /\ ParameterGraph # 0 /\ nextCommand <= MaxCommands
    /\ LET rack == registry.built[ParameterGraph].devices IN
       /\ Submit([Command("applyDeviceParameters") EXCEPT !.graph = ParameterGraph,
                                                          !.rack = rack])
       /\ task' = [kind |-> "parameter", rack |-> rack, sequence |-> nextCommand]
    /\ UNCHANGED <<owner, registry, device, block, readers>>

FinishParameter ==
    /\ task.kind = "parameter" /\ racks[task.rack].completed >= task.sequence
    /\ task' = [kind |-> "none", rack |-> 0, sequence |-> 0]
    /\ UNCHANGED <<owner, queueVars, stateVars, frame, graphVars, racks, device, block, readers>>

\* Five seconds without completion.
CancelParameter ==
    /\ task.kind = "parameter" /\ racks[task.rack].completed < task.sequence
    /\ racks' = [racks EXCEPT ![task.rack].cancelled = task.sequence]
    /\ task' = [kind |-> "none", rack |-> 0, sequence |-> 0]
    /\ UNCHANGED <<owner, queueVars, stateVars, frame, graphVars, device, block, readers>>

-----------------------------------------------------------------------------
(* The audio device.  Callbacks run only between the end of a start and    *)
(* the beginning of a stop.                                                *)

\* audioDeviceStarted, first lock.
FlagDeviceStart ==
    /\ device.state = "stopped" /\ device.starts < MaxStarts
    /\ registry' = [registry EXCEPT !.devicesNeedReprepare = TRUE]
    /\ device' = [state |-> "flagged", starts |-> device.starts + 1]
    /\ UNCHANGED <<owner, queueVars, stateVars, frame, retired, racks, task, block, readers>>

AnnounceDeviceStart ==
    /\ device.state = "flagged"
    /\ Submit(Command("deviceStarted"))
    /\ device' = [device EXCEPT !.state = "announced"]
    /\ UNCHANGED <<owner, registry, task, block, readers>>

\* setRealtimeOwner(audio).
HandToAudio ==
    /\ device.state = "announced"
    /\ owner' = "audio"
    /\ device' = [device EXCEPT !.state = "running"]
    /\ UNCHANGED <<queueVars, stateVars, frame, graphVars, racks, task, block, readers>>

\* setRealtimeOwner(control) takes the mutex and drains what is queued.
BeginDeviceStop ==
    /\ device.state = "running" /\ block = "idle"
    /\ device' = [device EXCEPT !.state = "stopping"]
    /\ UNCHANGED <<owner, queueVars, stateVars, frame, graphVars, racks, task, block, readers>>

\* Mutant: the owner changes without the frame being published.
HandWithoutFrame == UNCHANGED frame

PublishFrame == frame' = FrameOf(realtime)

\* Mutant: the commands still queued are dropped.
TakeControlAtOnce ==
    /\ device.state = "stopping"
    /\ PublishFrame
    /\ owner' = "control" /\ commands' = <<>>
    /\ device' = [device EXCEPT !.state = "stopped"]
    /\ UNCHANGED <<nextCommand, stateVars, graphVars, racks, task, block, readers>>

TakeControl ==
    /\ device.state = "stopping" /\ commands = <<>>
    /\ PublishFrame
    /\ owner' = "control"
    /\ device' = [device EXCEPT !.state = "stopped"]
    /\ UNCHANGED <<queueVars, stateVars, graphVars, racks, task, block, readers>>

-----------------------------------------------------------------------------
(* The audio callback.                                                     *)

\* beginBlock drains the queue, one command at a time.
BeginBlock ==
    /\ device.state = "running" /\ block = "idle"
    /\ block' = "draining"
    /\ UNCHANGED <<owner, queueVars, stateVars, frame, graphVars, racks, task, device, readers>>

Draining == block = "draining" \/ device.state = "stopping"

\* One command of drainRealtimeCommands, in a block or in a device stop.
DrainCommand ==
    /\ Draining /\ commands # <<>>
    /\ ApplyRealtimeCommand(Head(commands))
    /\ commands' = Tail(commands)
    /\ UNCHANGED <<owner, nextCommand, frame, registry, task, device, block, readers>>

\* advanceCountIn: a count-in that ends inside the block starts the recording.
CountInAdvanced(state) ==
    {state} \union
    (IF state.phase = "countingIn"
     THEN {[state EXCEPT !.phase = "recording", !.transport = "playing"]} ELSE {})

\* The queue is empty: the block advances the count-in and publishes the frame.
PublishBlock ==
    /\ block = "draining" /\ commands = <<>>
    /\ realtime' \in CountInAdvanced(realtime)
    /\ frame' = FrameOf(realtime')
    /\ block' = "rendering"
    /\ UNCHANGED <<owner, queueVars, graphVars, sinks, racks, task, device, readers>>

\* Mutant: a block completes whatever has been submitted.
CompletedSubmitted(rack) == nextCommand - 1

CompletedByBlock(rack) == racks[rack].requested

\* The rest of the callback: racks process, tracks capture while a recording
\* has a sink, and a capture with nothing to take is closed.
RenderBlock ==
    /\ block = "rendering"
    /\ racks' = IF realtime.graph = 0 THEN racks
                ELSE LET rack == registry.built[realtime.graph].devices IN
                     [racks EXCEPT ![rack].completed = CompletedByBlock(rack)]
    /\ LET captures == realtime.phase = "recording" /\ realtime.sink # None IN
       /\ realtime' = [realtime EXCEPT !.capturing = captures \/ (@ /\ realtime.phase = "recording")]
       /\ sinks' = [sinks EXCEPT !.captured = @ \union (IF captures THEN {realtime.sink} ELSE {})]
    /\ block' = "idle"
    /\ UNCHANGED <<owner, queueVars, frame, graphVars, task, device, readers>>

-----------------------------------------------------------------------------
(* visitActiveGraph: read the frame, then look its graph up under the      *)
(* registry's lock; a missing graph sends the reader back to the frame.    *)

\* Mutant: the lookup is retried with the frame already read.
RetrySerial(serial) == serial

NextSerial(serial) == frame.serial

ReadFrame(r) ==
    /\ readers[r] = None /\ frame.serial # 0
    /\ readers' = [readers EXCEPT ![r] = frame.serial]
    /\ UNCHANGED <<owner, queueVars, stateVars, frame, graphVars, racks, task, device, block>>

VisitGraph(r) ==
    /\ readers[r] # None
    /\ readers' = [readers EXCEPT ![r] = IF @ \in registry.committed THEN None ELSE NextSerial(@)]
    /\ UNCHANGED <<owner, queueVars, stateVars, frame, graphVars, racks, task, device, block>>

-----------------------------------------------------------------------------
Task ==
    \/ \E same \in BOOLEAN : LoadSnapshot(same)
    \/ BeginCommit \/ CommitPreparedSnapshot \/ RefuseCommit
    \/ DiscardPreparedSnapshot \/ ReclaimRetiredGraphs
    \/ SetDeviceParameter \/ FinishParameter \/ CancelParameter

Device ==
    FlagDeviceStart \/ AnnounceDeviceStart \/ HandToAudio \/ BeginDeviceStop \/ TakeControl

Audio == BeginBlock \/ DrainCommand \/ PublishBlock \/ RenderBlock

Next ==
    \/ \E kind \in Requests : RequestTransport(kind)
    \/ Task \/ Device \/ Audio
    \/ \E r \in Reader : ReadFrame(r) \/ VisitGraph(r)

\* A device that was started keeps calling back until it is stopped, a stop
\* that began finishes, and a reader's thread is scheduled.
Fairness ==
    /\ WF_vars(Audio)
    /\ WF_vars(TakeControl)
    /\ \A r \in Reader : WF_vars(VisitGraph(r))

Spec == Init /\ [][Next]_vars /\ Fairness

-----------------------------------------------------------------------------
(* Properties.                                                             *)

\* The graph the audio thread uses, in a block or between blocks, has not been
\* destroyed (RealtimeState::graph is a plain pointer).
ActiveIsOwned == realtime.graph # 0 => realtime.graph \in registry.committed

\* A replaced graph always finds room in the retire queue, so it is destroyed
\* some day: "The registry never commits more graphs than the queue holds."
NoGraphIsLost == \A s \in registry.committed : s < realtime.graph => s \in retired

\* Every accepted command is applied exactly once and in submission order,
\* through any number of hand-overs between the control side and the audio.
CommandsInOrder ==
    /\ \A i \in 1 .. Len(commands) : commands[i].sequence = realtime.applied + i
    /\ nextCommand = realtime.applied + Len(commands) + 1
    /\ owner = "control" => commands = <<>>

\* A device parameter reaches the head of the queue while its graph is active,
\* so the rack the command points to still exists.
ParameterFindsItsRack ==
    commands # <<>> /\ Head(commands).kind = "applyDeviceParameters" =>
        /\ Head(commands).graph = realtime.graph
        /\ Head(commands).rack = registry.built[realtime.graph].devices

\* A parameter reported as applied was applied.
ParameterAnswerIsTrue ==
    task.kind = "parameter" /\ racks[task.rack].completed >= task.sequence =>
        realtime.applied >= task.sequence

\* waitUntilApplied without a deadline ends: an accepted command is eventually
\* visible in the frame, whether a block or a device stop applies it (stated for
\* the last command the callers may send, behind which others can queue).
CommandsAreApplied ==
    nextCommand > MaxCommands ~> frame.applied >= MaxCommands

\* visitActiveGraph does not spin for ever on a serial that is gone.
ReadersAreAnswered == \A r \in Reader : readers[r] # None ~> readers[r] = None

\* Graphs become active in commit order, are destroyed only once replaced, and
\* every committed graph is published.
Lifecycle == INSTANCE GraphLifecycle
    WITH committed <- LatestCommitted,
         active <- realtime.graph,
         freed <- (1 .. LatestCommitted) \ registry.committed
ImplementsGraphLifecycle == Lifecycle!Spec

\* "Set when the audio device restarts; prepared device instances must then be
\* rebuilt for the new device environment" (ControlGraphRegistry.h): a graph
\* prepared after a start uses devices loaded after it.
DevicesAreRebuilt ==
    [][registry'.pending \notin {None, registry.pending} =>
           registry'.pending.starts = device.starts]_vars
===============================================================================

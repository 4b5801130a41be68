-------------------------- MODULE NativeEngineProofs --------------------------
(***************************************************************************)
(* Proofs about TimelineEngine and about NativeRecording, which extends    *)
(* it, for every queue and registry capacity, any number of graphs,        *)
(* readers, sinks and device starts.                                       *)
(*                                                                         *)
(* The engine.  Why the active graph is alive and its replaced ones are    *)
(* not lost comes down to one picture of the queue, which the invariant    *)
(* IInv draws: the publications in it are exactly the graphs committed     *)
(* after the active one, in serial order; a device parameter stands behind *)
(* the publication of its graph and before the next; what was replaced is  *)
(* in the retire queue, which is smaller than the registry because the     *)
(* active graph is not in it.  The first part follows the types, the       *)
(* second the registry, the third the queue, the fourth the racks.         *)
(*                                                                         *)
(* The recording controller keeps all of it, the audio thread never holds  *)
(* the sink of a session that is gone, a sink is never lost, and none is   *)
(* taken from a recording that runs.  The controller knows the audio       *)
(* thread only by what it has queued, so the invariant speaks of the       *)
(* realtime state together with the queue: a command does at the head of   *)
(* the queue what the state still has to become.  Each part is shown to    *)
(* survive two moves, a command that is queued and the head that is        *)
(* applied; a command applied at once is one after the other.              *)
(***************************************************************************)
EXTENDS NativeRecording, FiniteSetTheorems, TLAPS

\* What the i-th queued command is.
Publishes(i) == commands[i].kind = "publishGraph"
Parameterises(i) == commands[i].kind = "applyDeviceParameters"

\* Serials are given in order, every graph not destroyed yet has one, the
\* registry has room for them, and the devices of a graph are those of a serial.
RegistryInOrder ==
    /\ registry.nextSerial \in 1 .. MaxSerial + 1
    /\ registry.committed \subseteq 1 .. LatestCommitted
    /\ Cardinality(registry.committed) <= Capacity
    /\ registry.pending # None =>
           registry.nextSerial <= MaxSerial /\ registry.pending.devices \in 1 .. MaxSerial
    /\ \A s \in 1 .. LatestCommitted : registry.built[s].devices \in 1 .. MaxSerial
    /\ task.kind = "parameter" => task.rack \in 1 .. MaxSerial

\* What is in the retire queue was replaced and is not destroyed yet, and
\* whatever was replaced is there.
RetiredAreReplaced ==
    /\ retired \subseteq registry.committed
    /\ \A s \in retired : s < realtime.graph
    /\ ActiveIsOwned
    /\ NoGraphIsLost

\* The graphs committed after the active one wait in the queue, in order.
PublicationsInLine ==
    /\ realtime.graph \in 0 .. LatestCommitted
    /\ \A i \in 1 .. Len(commands) : Publishes(i) =>
           commands[i].graph \in registry.committed /\ commands[i].graph > realtime.graph
    /\ \A i, j \in 1 .. Len(commands) :
           i < j /\ Publishes(i) /\ Publishes(j) => commands[i].graph < commands[j].graph
    /\ \A s \in realtime.graph + 1 .. LatestCommitted :
           \E i \in 1 .. Len(commands) : Publishes(i) /\ commands[i].graph = s

\* A device parameter is behind the publication of its graph and before the
\* next one.
ParametersInLine ==
    \A i \in 1 .. Len(commands) : Parameterises(i) =>
        /\ commands[i].graph \in 1 .. LatestCommitted
        /\ commands[i].rack = registry.built[commands[i].graph].devices
        /\ \A j \in 1 .. i - 1 : Publishes(j) => commands[j].graph <= commands[i].graph
        /\ \/ commands[i].graph = realtime.graph
           \/ \E j \in 1 .. i - 1 : Publishes(j) /\ commands[j].graph = commands[i].graph

\* A rack has completed no more than was asked of it, by commands that were
\* applied.
RacksAnswerTruly ==
    \A d \in 1 .. MaxSerial + 1 :
        racks[d].completed <= racks[d].requested /\ racks[d].requested <= realtime.applied

\* The inductive invariant.
IInv ==
    /\ TypeOK
    /\ RegistryInOrder
    /\ RetiredAreReplaced
    /\ PublicationsInLine
    /\ ParametersInLine
    /\ CommandsInOrder
    /\ RacksAnswerTruly

-----------------------------------------------------------------------------
(* The command queue as a sequence.                                        *)

\* A command pushed to the queue goes behind the others.
LEMMA AppendedCommand ==
    ASSUME commands \in Seq(RealtimeCommand), NEW c \in RealtimeCommand,
           commands' = Append(commands, c)
    PROVE  /\ commands' \in Seq(RealtimeCommand)
           /\ Len(commands') = Len(commands) + 1
           /\ \A i \in 1 .. Len(commands) : commands'[i] = commands[i]
           /\ commands'[Len(commands) + 1] = c
  OBVIOUS

\* The head is taken and the others move up.
LEMMA TakenCommand ==
    ASSUME commands \in Seq(RealtimeCommand), commands # <<>>, commands' = Tail(commands)
    PROVE  /\ commands' \in Seq(RealtimeCommand)
           /\ Len(commands') = Len(commands) - 1
           /\ Len(commands) >= 1
           /\ \A i \in 1 .. Len(commands') : commands'[i] = commands[i + 1]
           /\ Head(commands) = commands[1]
           /\ Head(commands) \in RealtimeCommand
  OBVIOUS

\* A command as it is built has no sequence number yet.
LEMMA CommandType == ASSUME NEW kind \in Kind PROVE Command(kind) \in RealtimeCommand
  BY DEF Command, RealtimeCommand

\* The fields the callers fill in keep it one.
LEMMA CommandFields ==
    ASSUME NEW c \in RealtimeCommand, NEW n \in Nat
    PROVE  /\ [c EXCEPT !.graph = n] \in RealtimeCommand
           /\ [c EXCEPT !.graph = n].graph = n
           /\ [c EXCEPT !.graph = n].kind = c.kind
           /\ [c EXCEPT !.rack = n] \in RealtimeCommand
           /\ [c EXCEPT !.rack = n].graph = c.graph
           /\ [c EXCEPT !.rack = n].rack = n
           /\ [c EXCEPT !.rack = n].kind = c.kind
           /\ [c EXCEPT !.sequence = n] \in RealtimeCommand
           /\ [c EXCEPT !.sequence = n].sequence = n
           /\ [c EXCEPT !.sequence = n].graph = c.graph
           /\ [c EXCEPT !.sequence = n].rack = c.rack
           /\ [c EXCEPT !.sequence = n].kind = c.kind
  BY DEF RealtimeCommand

-----------------------------------------------------------------------------
(* What a command does to the realtime state.                              *)

\* Applying a command records its sequence and changes the active graph only
\* when it publishes one.
LEMMA AppliedType ==
    ASSUME NEW state \in RealtimeState, NEW command \in RealtimeCommand
    PROVE  /\ Applied(state, command) \in RealtimeState
           /\ Applied(state, command).applied = command.sequence
           /\ Applied(state, command).graph =
                  IF command.kind = "publishGraph" THEN command.graph ELSE state.graph
<1>1. /\ Play(state) \in RealtimeState /\ Play(state).graph = state.graph
      /\ Pause(state) \in RealtimeState /\ Pause(state).graph = state.graph
      /\ Stop(state) \in RealtimeState /\ Stop(state).graph = state.graph
  BY DEF RealtimeState, Play, Pause, Stop
<1>2. /\ StartRecordingNow(state, command.countIn) \in RealtimeState
      /\ StartRecordingNow(state, command.countIn).graph = state.graph
  BY DEF RealtimeState, StartRecordingNow
<1>3. /\ StopArrangeRecording(state) \in RealtimeState
      /\ StopArrangeRecording(state).graph = state.graph
  BY DEF RealtimeState, StopArrangeRecording
<1>4. command.kind \in Kind /\ command.sequence \in Nat /\ command.graph \in Nat
      /\ command.sink \in Sink \union {None}
  BY DEF RealtimeCommand
<1>5. \A s \in RealtimeState : /\ [s EXCEPT !.applied = command.sequence] \in RealtimeState
                               /\ [s EXCEPT !.applied = command.sequence].applied = command.sequence
                               /\ [s EXCEPT !.applied = command.sequence].graph = s.graph
  BY <1>4 DEF RealtimeState
<1>6. /\ [state EXCEPT !.transport = "starting"] \in RealtimeState
      /\ [state EXCEPT !.graph = command.graph] \in RealtimeState
      /\ [state EXCEPT !.sink = command.sink] \in RealtimeState
      /\ [state EXCEPT !.sink = None] \in RealtimeState
      /\ [state EXCEPT !.transport = "starting"].graph = state.graph
      /\ [state EXCEPT !.graph = command.graph].graph = command.graph
      /\ [state EXCEPT !.sink = command.sink].graph = state.graph
      /\ [state EXCEPT !.sink = None].graph = state.graph
  BY <1>4 DEF RealtimeState
<1> QED BY <1>1, <1>2, <1>3, <1>4, <1>5, <1>6 DEF Applied

\* What a rack keeps, the one part of TypeOK several lemmas need by itself.
RackType == [1 .. MaxSerial + 1 -> [requested : Nat, completed : Nat, cancelled : Nat]]

\* Applying a command keeps everything it touches to its type.
LEMMA ApplyType ==
    ASSUME TypeOK, NEW command \in RealtimeCommand, ApplyRealtimeCommand(command)
    PROVE  /\ realtime' \in RealtimeState
           /\ sinks' \in [retired : SUBSET Sink, captured : SUBSET Sink]
           /\ retired' \subseteq Nat \ {0}
           /\ racks' \in RackType
<1>1. realtime' \in RealtimeState
  BY AppliedType DEF TypeOK, ApplyRealtimeCommand
<1>2. SinkRetired(realtime, command) \subseteq Sink
  BY DEF TypeOK, SinkRetired, RealtimeState
<1>3. Retired(realtime, command) \subseteq Nat \ {0}
  BY DEF TypeOK, Retired, RealtimeState
<1>4. racks' \in RackType
  <2>1. racks \in RackType /\ command.sequence \in Nat
    BY DEF TypeOK, RackType, RealtimeCommand
  <2>2. CASE command.rack \in 1 .. MaxSerial + 1
    BY <2>1, <2>2 DEF ApplyRealtimeCommand, AppliedToRack, RackType
  <2>3. CASE command.rack \notin 1 .. MaxSerial + 1
    BY <2>1, <2>3 DEF ApplyRealtimeCommand, AppliedToRack, RackType
  <2> QED BY <2>2, <2>3
<1> QED BY <1>1, <1>2, <1>3, <1>4 DEF TypeOK, ApplyRealtimeCommand

\* The frame shows a part of the state.
LEMMA FrameType == ASSUME NEW state \in RealtimeState PROVE FrameOf(state) \in RealtimeFrame
  BY DEF FrameOf, RealtimeState, RealtimeFrame

\* A submitted command, applied or queued, keeps everything it touches to its
\* type.
LEMMA SubmitType ==
    ASSUME TypeOK, NEW command \in RealtimeCommand, Submit(command)
    PROVE  /\ commands' \in Seq(RealtimeCommand)
           /\ nextCommand' \in Nat
           /\ realtime' \in RealtimeState
           /\ frame' \in RealtimeFrame
           /\ sinks' \in [retired : SUBSET Sink, captured : SUBSET Sink]
           /\ retired' \subseteq Nat \ {0}
           /\ racks' \in RackType
<1> DEFINE numbered == [command EXCEPT !.sequence = nextCommand]
<1>1. numbered \in RealtimeCommand
  BY DEF TypeOK, RealtimeCommand
<1>2. nextCommand' \in Nat
  BY DEF TypeOK, Submit
<1>3. CASE owner = "control" /\ ApplyRealtimeCommand(numbered)
           /\ frame' = FrameOf(realtime') /\ UNCHANGED commands
  BY <1>1, <1>2, <1>3, ApplyType, FrameType DEF TypeOK
<1>4. CASE owner = "audio" /\ commands' = Append(commands, numbered)
           /\ UNCHANGED <<stateVars, retired, racks, frame>>
  BY <1>1, <1>2, <1>4, AppendedCommand DEF TypeOK, stateVars, RackType
<1> QED BY <1>3, <1>4 DEF Submit

-----------------------------------------------------------------------------
(* Type correctness.                                                       *)

\* Every step keeps the types.
LEMMA TypeStep == ASSUME IInv, [Next]_vars PROVE TypeOK'
<1> USE DEF RackType
<1>0. TypeOK /\ RegistryInOrder
  BY DEF IInv
<1>1. CASE UNCHANGED vars
  BY <1>0, <1>1 DEF TypeOK, vars
<1>2. ASSUME NEW kind \in Requests, RequestTransport(kind) PROVE TypeOK'
  <2>1. Command(kind) \in RealtimeCommand
    BY CommandType, RequestAssumption DEF Kind
  <2> QED BY <1>0, <1>2, <2>1, SubmitType DEF RequestTransport, TypeOK
<1>3. ASSUME NEW same \in BOOLEAN, LoadSnapshot(same) PROVE TypeOK'
  <2>1. registry'.pending \in Built
    <3>1. LatestCommitted # 0 => registry.built[LatestCommitted] \in Built
      <4>1. registry.built \in [1 .. MaxSerial -> Built] /\ registry.nextSerial \in 1 .. MaxSerial + 1
        BY <1>0 DEF TypeOK, RegistryInOrder
      <4>2. LatestCommitted # 0 => LatestCommitted \in 1 .. MaxSerial
        BY <4>1, BoundAssumption DEF LatestCommitted
      <4> QED BY <4>1, <4>2
    <3>2. [devices |-> registry.nextSerial, starts |-> device.starts] \in Built
      BY <1>0 DEF TypeOK, Built
    <3> QED BY <1>0, <1>3, <3>1, <3>2 DEF LoadSnapshot, TypeOK
  <2> QED BY <1>0, <1>3, <2>1 DEF LoadSnapshot, TypeOK, queueVars, stateVars
<1>4. CASE BeginCommit
  BY <1>0, <1>4 DEF BeginCommit, ReclaimRetired, Reclaimed, TypeOK, queueVars, stateVars
<1>5. CASE CommitPreparedSnapshot
  <2> DEFINE command == [Command("publishGraph") EXCEPT !.graph = registry.nextSerial]
  <2>1. command \in RealtimeCommand
    BY <1>0, CommandType, CommandFields DEF Kind, TypeOK
  <2>2. Submit(command)
    BY <1>0, <1>5 DEF CommitPreparedSnapshot
  <2>3. registry' \in [pending : Built \union {None}, committed : SUBSET Nat,
                       built : [1 .. MaxSerial -> Built], nextSerial : Nat,
                       devicesNeedReprepare : BOOLEAN]
    <3>1. registry.pending \in Built /\ registry.nextSerial \in Nat
      BY <1>0, <1>5 DEF CommitPreparedSnapshot, TypeOK
    <3>2. registry.built \in [1 .. MaxSerial -> Built]
      BY <1>0 DEF TypeOK
    <3>3. [registry.built EXCEPT ![registry.nextSerial] = registry.pending] \in [1 .. MaxSerial -> Built]
      BY <3>1, <3>2
    <3>4. registry' = [pending |-> None,
                       committed |-> registry.committed \union {registry.nextSerial},
                       built |-> [registry.built EXCEPT ![registry.nextSerial] = registry.pending],
                       nextSerial |-> registry.nextSerial + 1,
                       devicesNeedReprepare |-> FALSE]
      BY <1>0, <1>5 DEF CommitPreparedSnapshot, TypeOK
    <3>5. registry.committed \in SUBSET Nat
      BY <1>0 DEF TypeOK
    <3> QED BY <3>1, <3>3, <3>4, <3>5
  <2>4. task' \in [kind : {"none", "commit", "parameter"}, rack : Nat, sequence : Nat]
    BY <1>0, <1>5 DEF CommitPreparedSnapshot, TypeOK
  <2> HIDE DEF command
  <2> QED BY <1>0, <1>5, <2>1, <2>2, <2>3, <2>4, SubmitType DEF CommitPreparedSnapshot, TypeOK
<1>6. CASE RefuseCommit
  BY <1>0, <1>6 DEF RefuseCommit, TypeOK, queueVars, stateVars, graphVars
<1>7. CASE DiscardPreparedSnapshot
  BY <1>0, <1>7 DEF DiscardPreparedSnapshot, Reclaimed, TypeOK, queueVars, stateVars
<1>8. CASE ReclaimRetiredGraphs
  BY <1>0, <1>8 DEF ReclaimRetiredGraphs, ReclaimRetired, Reclaimed, TypeOK, queueVars, stateVars
<1>9. CASE SetDeviceParameter
  <2> DEFINE rack == registry.built[ParameterGraph].devices
             command == [Command("applyDeviceParameters") EXCEPT !.graph = ParameterGraph,
                                                                 !.rack = rack]
  <2>1. ParameterGraph \in 1 .. MaxSerial /\ ParameterGraph \in 1 .. LatestCommitted
    BY <1>0, <1>9, BoundAssumption DEF SetDeviceParameter, ParameterGraph, LatestCommitted, RegistryInOrder
  <2>2. rack \in Nat
    BY <1>0, <2>1, BoundAssumption DEF RegistryInOrder
  <2>3. command \in RealtimeCommand
    <3>0. ParameterGraph \in Nat
      BY <2>1, BoundAssumption
    <3>1. [Command("applyDeviceParameters") EXCEPT !.graph = ParameterGraph] \in RealtimeCommand
      BY <3>0, CommandType, CommandFields DEF Kind
    <3>2. [[Command("applyDeviceParameters") EXCEPT !.graph = ParameterGraph] EXCEPT !.rack = rack]
              \in RealtimeCommand
      BY <2>2, <3>1, CommandFields
    <3> QED BY <3>2
  <2>4. Submit(command) /\ task' = [kind |-> "parameter", rack |-> rack, sequence |-> nextCommand]
    BY <1>0, <1>9 DEF SetDeviceParameter
  <2>5. task' \in [kind : {"none", "commit", "parameter"}, rack : Nat, sequence : Nat]
    BY <1>0, <2>2, <2>4 DEF TypeOK
  <2> HIDE DEF command
  <2> QED BY <1>0, <1>9, <2>3, <2>4, <2>5, SubmitType DEF SetDeviceParameter, TypeOK
<1>10. CASE FinishParameter
  BY <1>0, <1>10 DEF FinishParameter, TypeOK, queueVars, stateVars, graphVars
<1>11. CASE CancelParameter
  <2>1. racks' \in RackType
    <3>1. task.rack \in 1 .. MaxSerial /\ task.sequence \in Nat /\ racks \in RackType
      BY <1>0, <1>11 DEF CancelParameter, TypeOK, RegistryInOrder
    <3>2. task.rack \in 1 .. MaxSerial + 1
      BY <3>1, BoundAssumption
    <3> QED BY <1>11, <3>1, <3>2 DEF CancelParameter
  <2>2. task' \in [kind : {"none", "commit", "parameter"}, rack : Nat, sequence : Nat]
    BY <1>0, <1>11 DEF CancelParameter
  <2> QED BY <1>0, <1>11, <2>1, <2>2 DEF CancelParameter, TypeOK, queueVars, stateVars, graphVars
<1>12. CASE FlagDeviceStart
  <2>1. device' \in [state : {"stopped", "flagged", "announced", "running", "stopping"}, starts : Nat]
    BY <1>0, <1>12 DEF FlagDeviceStart, TypeOK
  <2>2. registry' \in [pending : Built \union {None}, committed : SUBSET Nat,
                       built : [1 .. MaxSerial -> Built], nextSerial : Nat,
                       devicesNeedReprepare : BOOLEAN]
    BY <1>0, <1>12 DEF FlagDeviceStart, TypeOK
  <2> QED BY <1>0, <1>12, <2>1, <2>2 DEF FlagDeviceStart, TypeOK, queueVars, stateVars
<1>13. CASE AnnounceDeviceStart
  <2>1. Command("deviceStarted") \in RealtimeCommand
    BY CommandType DEF Kind
  <2>2. device' \in [state : {"stopped", "flagged", "announced", "running", "stopping"}, starts : Nat]
    BY <1>0, <1>13 DEF AnnounceDeviceStart, TypeOK
  <2> QED BY <1>0, <1>13, <2>1, <2>2, SubmitType DEF AnnounceDeviceStart, TypeOK
<1>14. CASE HandToAudio
  BY <1>0, <1>14 DEF HandToAudio, TypeOK, queueVars, stateVars, graphVars
<1>15. CASE BeginDeviceStop
  BY <1>0, <1>15 DEF BeginDeviceStop, TypeOK, queueVars, stateVars, graphVars
<1>16. CASE TakeControl
  BY <1>0, <1>16, FrameType DEF TakeControl, PublishFrame, TypeOK, queueVars, stateVars, graphVars
<1>17. CASE BeginBlock
  BY <1>0, <1>17 DEF BeginBlock, TypeOK, queueVars, stateVars, graphVars
<1>18. CASE DrainCommand
  BY <1>0, <1>18, TakenCommand, ApplyType DEF DrainCommand, TypeOK
<1>19. CASE PublishBlock
  <2>1. realtime' \in RealtimeState
    <3>1. realtime \in RealtimeState
      BY <1>0 DEF TypeOK
    <3>2. [realtime EXCEPT !.phase = "recording", !.transport = "playing"] \in RealtimeState
      BY <3>1 DEF RealtimeState
    <3> QED BY <1>0, <1>19, <3>1, <3>2 DEF PublishBlock, CountInAdvanced
  <2> QED BY <1>0, <1>19, <2>1, FrameType DEF PublishBlock, TypeOK, queueVars, graphVars
<1>20. CASE RenderBlock
  <2>1. realtime' \in RealtimeState /\ sinks' \in [retired : SUBSET Sink, captured : SUBSET Sink]
    BY <1>0, <1>20 DEF RenderBlock, TypeOK, RealtimeState
  <2>2. racks' \in RackType
    <3>1. \A d \in 1 .. MaxSerial + 1 :
              [racks EXCEPT ![d].completed = racks[d].requested] \in RackType
      <4>1. racks \in RackType
        BY <1>0 DEF TypeOK
      <4> QED BY <4>1
    <3>2. \A d : d \notin 1 .. MaxSerial + 1 =>
              [racks EXCEPT ![d].completed = racks[d].requested] \in RackType
      BY <1>0 DEF TypeOK
    <3> QED BY <1>0, <1>20, <3>1, <3>2 DEF RenderBlock, CompletedByBlock, TypeOK
  <2> QED BY <1>0, <1>20, <2>1, <2>2 DEF RenderBlock, TypeOK, queueVars, graphVars
<1>21. ASSUME NEW r \in Reader, ReadFrame(r) PROVE TypeOK'
  BY <1>0, <1>21 DEF ReadFrame, TypeOK, RealtimeFrame, queueVars, stateVars, graphVars
<1>22. ASSUME NEW r \in Reader, VisitGraph(r) PROVE TypeOK'
  BY <1>0, <1>22 DEF VisitGraph, NextSerial, TypeOK, RealtimeFrame, queueVars, stateVars, graphVars
<1> QED
  BY <1>1, <1>2, <1>3, <1>4, <1>5, <1>6, <1>7, <1>8, <1>9, <1>10, <1>11, <1>12, <1>13, <1>14,
     <1>15, <1>16, <1>17, <1>18, <1>19, <1>20, <1>21, <1>22 DEF Next, Task, Device, Audio
-----------------------------------------------------------------------------
(* The registry.                                                           *)

\* The registry holds finitely many graphs.
LEMMA CommittedFinite == ASSUME TypeOK, RegistryInOrder PROVE IsFiniteSet(registry.committed)
<1>1. registry.nextSerial \in Nat /\ registry.nextSerial - 1 \in Int
  BY DEF TypeOK
<1>2. IsFiniteSet(1 .. LatestCommitted)
  BY <1>1, FS_Interval DEF LatestCommitted
<1> QED BY <1>2, FS_Subset DEF RegistryInOrder

\* Destroying the retired graphs keeps the registry in order.
LEMMA RegistryReclaimed ==
    ASSUME IInv, ReclaimRetired, task' \in {task, [task EXCEPT !.kind = "commit"]}
    PROVE  RegistryInOrder'
<1>1. TypeOK /\ RegistryInOrder
  BY DEF IInv
<1>2. /\ registry'.committed = registry.committed \ retired
      /\ registry'.nextSerial = registry.nextSerial
      /\ registry'.pending = registry.pending
      /\ registry'.built = registry.built
  BY <1>1 DEF ReclaimRetired, Reclaimed, TypeOK
<1>3. Cardinality(registry'.committed) <= Cardinality(registry.committed)
  BY <1>1, <1>2, CommittedFinite, FS_Subset
<1>4. Cardinality(registry'.committed) \in Nat /\ Cardinality(registry.committed) \in Nat
  BY <1>1, <1>2, CommittedFinite, FS_Subset, FS_CardinalityType
<1>5. task'.kind = "parameter" => task' = task
  BY <1>1 DEF TypeOK
<1> QED BY <1>1, <1>2, <1>3, <1>4, <1>5, CapacityAssumption DEF RegistryInOrder, LatestCommitted

\* Every step keeps the registry in order.
LEMMA RegistryStep == ASSUME IInv, [Next]_vars PROVE RegistryInOrder'
<1>1. TypeOK /\ RegistryInOrder
  BY DEF IInv
<1>2. ASSUME registry' = registry, task'.kind = "parameter" => task' = task PROVE RegistryInOrder'
  BY <1>1, <1>2 DEF RegistryInOrder, LatestCommitted
<1>3. CASE UNCHANGED vars
  BY <1>2, <1>3 DEF vars
<1>4. ASSUME NEW kind \in Requests, RequestTransport(kind) PROVE RegistryInOrder'
  BY <1>2, <1>4 DEF RequestTransport
<1>5. ASSUME NEW same \in BOOLEAN, LoadSnapshot(same) PROVE RegistryInOrder'
  <2>1. /\ registry'.committed = registry.committed
        /\ registry'.nextSerial = registry.nextSerial
        /\ registry'.built = registry.built
        /\ task' = task
        /\ registry.nextSerial <= MaxSerial
    BY <1>1, <1>5, BoundAssumption DEF LoadSnapshot, TypeOK, LatestCommitted
  <2>2. registry'.pending.devices \in 1 .. MaxSerial
    <3>1. LatestCommitted # 0 => registry.built[LatestCommitted].devices \in 1 .. MaxSerial
      BY <1>1, BoundAssumption DEF LatestCommitted, RegistryInOrder
    <3>2. registry.nextSerial \in 1 .. MaxSerial
      BY <1>1, <2>1, BoundAssumption DEF RegistryInOrder
    <3>3. registry'.pending =
              IF same /\ LatestCommitted # 0 /\ ~registry.devicesNeedReprepare
              THEN registry.built[LatestCommitted]
              ELSE [devices |-> registry.nextSerial, starts |-> device.starts]
      BY <1>1, <1>5 DEF LoadSnapshot, TypeOK
    <3> QED BY <3>1, <3>2, <3>3
  <2> QED BY <1>1, <2>1, <2>2 DEF RegistryInOrder, LatestCommitted
<1>6. CASE BeginCommit
  BY <1>6, RegistryReclaimed DEF BeginCommit
<1>7. CASE CommitPreparedSnapshot
  <2>1. /\ registry'.committed = registry.committed \union {registry.nextSerial}
        /\ registry'.nextSerial = registry.nextSerial + 1
        /\ registry'.pending = None
        /\ registry'.built = [registry.built EXCEPT ![registry.nextSerial] = registry.pending]
        /\ task'.kind = "none"
        /\ registry.nextSerial <= MaxSerial /\ registry.pending.devices \in 1 .. MaxSerial
        /\ Cardinality(registry.committed) < Capacity
    BY <1>1, <1>7 DEF CommitPreparedSnapshot, RoomInRegistry, TypeOK, RegistryInOrder
  <2>2. Cardinality(registry'.committed) <= Capacity
    <3>1. IsFiniteSet(registry.committed)
      BY <1>1, CommittedFinite
    <3>2. Cardinality(registry.committed) \in Nat
      BY <3>1, FS_CardinalityType
    <3>3. Cardinality(registry.committed \union {registry.nextSerial}) =
              IF registry.nextSerial \in registry.committed THEN Cardinality(registry.committed)
              ELSE Cardinality(registry.committed) + 1
      BY <3>1, FS_AddElement
    <3> QED BY <2>1, <3>2, <3>3, CapacityAssumption
  <2>3. registry.built \in [1 .. MaxSerial -> Built] /\ registry.nextSerial \in 1 .. MaxSerial
    BY <1>1, <2>1, BoundAssumption DEF TypeOK, RegistryInOrder
  <2>4. \A s \in 1 .. registry.nextSerial : registry'.built[s].devices \in 1 .. MaxSerial
    BY <1>1, <2>1, <2>3, BoundAssumption DEF RegistryInOrder, LatestCommitted
  <2> QED BY <1>1, <2>1, <2>2, <2>3, <2>4, BoundAssumption DEF RegistryInOrder, LatestCommitted
<1>8. CASE RefuseCommit
  BY <1>1, <1>2, <1>8 DEF RefuseCommit, graphVars, TypeOK
<1>9. CASE DiscardPreparedSnapshot
  <2>1. /\ registry'.committed = registry.committed \ retired
        /\ registry'.nextSerial = registry.nextSerial
        /\ registry'.pending = None
        /\ registry'.built = registry.built
        /\ task' = task
    BY <1>1, <1>9 DEF DiscardPreparedSnapshot, Reclaimed, TypeOK
  <2>2. Cardinality(registry'.committed) <= Cardinality(registry.committed)
    BY <1>1, <2>1, CommittedFinite, FS_Subset
  <2>3. Cardinality(registry'.committed) \in Nat /\ Cardinality(registry.committed) \in Nat
    BY <1>1, <2>1, CommittedFinite, FS_Subset, FS_CardinalityType
  <2> QED BY <1>1, <2>1, <2>2, <2>3, CapacityAssumption DEF RegistryInOrder, LatestCommitted
<1>10. CASE ReclaimRetiredGraphs
  BY <1>10, RegistryReclaimed DEF ReclaimRetiredGraphs
<1>11. CASE SetDeviceParameter
  <2>1. registry' = registry /\ task'.rack = registry.built[LatestCommitted].devices
    BY <1>11 DEF SetDeviceParameter, ParameterGraph
  <2>2. LatestCommitted \in 1 .. LatestCommitted
    BY <1>1, <1>11, BoundAssumption DEF SetDeviceParameter, ParameterGraph, RegistryInOrder, LatestCommitted
  <2> QED BY <1>1, <2>1, <2>2 DEF RegistryInOrder, LatestCommitted
<1>12. CASE FinishParameter
  BY <1>1, <1>2, <1>12 DEF FinishParameter, graphVars
<1>13. CASE CancelParameter
  BY <1>1, <1>2, <1>13 DEF CancelParameter, graphVars
<1>14. CASE FlagDeviceStart
  <2>1. /\ registry'.committed = registry.committed
        /\ registry'.nextSerial = registry.nextSerial
        /\ registry'.pending = registry.pending
        /\ registry'.built = registry.built
        /\ task' = task
    BY <1>1, <1>14 DEF FlagDeviceStart, TypeOK
  <2> QED BY <1>1, <2>1 DEF RegistryInOrder, LatestCommitted
<1>15. CASE Device /\ ~FlagDeviceStart
  BY <1>2, <1>15 DEF Device, AnnounceDeviceStart, HandToAudio, BeginDeviceStop, TakeControl, graphVars
<1>16. CASE Audio
  BY <1>2, <1>16 DEF Audio, BeginBlock, DrainCommand, PublishBlock, RenderBlock, graphVars
<1>17. ASSUME NEW r \in Reader, ReadFrame(r) \/ VisitGraph(r) PROVE RegistryInOrder'
  BY <1>2, <1>17 DEF ReadFrame, VisitGraph, graphVars
<1> QED
  BY <1>3, <1>4, <1>5, <1>6, <1>7, <1>8, <1>9, <1>10, <1>11, <1>12, <1>13, <1>14, <1>15, <1>16,
     <1>17 DEF Next, Task, Device
-----------------------------------------------------------------------------
(* The line of commands and the graphs it publishes.                       *)

\* The parts of the invariant about the queue and the retired graphs.
LineInv == RetiredAreReplaced /\ PublicationsInLine /\ ParametersInLine /\ CommandsInOrder

\* A step that leaves the queue, the registry and the active graph keeps the line.
LEMMA LineKept ==
    ASSUME IInv,
           realtime'.graph = realtime.graph, realtime'.applied = realtime.applied,
           commands' = commands, nextCommand' = nextCommand, retired' = retired,
           registry'.committed = registry.committed,
           registry'.nextSerial = registry.nextSerial,
           registry'.built = registry.built,
           owner' = "control" => commands = <<>>
    PROVE  LineInv'
<1>1. RetiredAreReplaced'
  BY DEF IInv, RetiredAreReplaced, ActiveIsOwned, NoGraphIsLost
<1>2. PublicationsInLine'
  BY DEF IInv, PublicationsInLine, Publishes, LatestCommitted
<1>3. ParametersInLine'
  BY DEF IInv, ParametersInLine, Parameterises, Publishes, LatestCommitted
<1>4. CommandsInOrder'
  BY DEF IInv, CommandsInOrder
<1> QED BY <1>1, <1>2, <1>3, <1>4 DEF LineInv

\* Destroying what was retired touches neither the active graph nor a queued one.
LEMMA LineReclaimed ==
    ASSUME IInv, registry'.committed = registry.committed \ retired, retired' = {},
           registry'.nextSerial = registry.nextSerial, registry'.built = registry.built,
           realtime' = realtime, commands' = commands, nextCommand' = nextCommand, owner' = owner
    PROVE  LineInv'
<1>1. TypeOK /\ RetiredAreReplaced /\ PublicationsInLine
  BY DEF IInv
<1>2. \A i \in 1 .. Len(commands) : Publishes(i) => commands[i].graph \in registry'.committed
  <2> SUFFICES ASSUME NEW i \in 1 .. Len(commands), Publishes(i)
               PROVE  commands[i].graph \in registry'.committed
    OBVIOUS
  <2>1. commands[i] \in RealtimeCommand /\ realtime \in RealtimeState
    BY <1>1 DEF TypeOK
  <2>2. commands[i].graph \in Nat /\ realtime.graph \in Nat
    BY <2>1 DEF RealtimeCommand, RealtimeState
  <2>3. commands[i].graph \in registry.committed /\ commands[i].graph > realtime.graph
    BY <1>1 DEF PublicationsInLine
  <2>4. commands[i].graph \notin retired
    BY <1>1, <2>2, <2>3 DEF RetiredAreReplaced
  <2> QED BY <2>3, <2>4
<1>3. RetiredAreReplaced'
  BY <1>1 DEF RetiredAreReplaced, ActiveIsOwned, NoGraphIsLost, TypeOK, RealtimeState
<1>4. PublicationsInLine'
  BY <1>1, <1>2 DEF PublicationsInLine, Publishes, LatestCommitted
<1>5. ParametersInLine'
  BY DEF IInv, ParametersInLine, Parameterises, Publishes, LatestCommitted
<1>6. CommandsInOrder'
  BY DEF IInv, CommandsInOrder
<1> QED BY <1>3, <1>4, <1>5, <1>6 DEF LineInv

\* What a submitted command does to the line: applied at once by the control
\* side, which has nothing queued, or queued behind the others.
AppliedAtOnce(command) ==
    /\ owner = "control" /\ commands = <<>> /\ commands' = <<>>
    /\ realtime'.applied = nextCommand
    /\ realtime'.graph = IF command.kind = "publishGraph" THEN command.graph ELSE realtime.graph
    /\ retired' = retired \union Retired(realtime, command)
Queued(command) ==
    /\ owner = "audio" /\ realtime' = realtime /\ retired' = retired /\ racks' = racks
    /\ Len(commands) \in Nat
    /\ Len(commands') = Len(commands) + 1
    /\ \A i \in 1 .. Len(commands) : commands'[i] = commands[i]
    /\ commands'[Len(commands) + 1].kind = command.kind
    /\ commands'[Len(commands) + 1].graph = command.graph
    /\ commands'[Len(commands) + 1].rack = command.rack
    /\ commands'[Len(commands) + 1].sequence = nextCommand

\* A submitted command is applied at once or queued, and takes the next sequence.
LEMMA SubmitEffect ==
    ASSUME TypeOK, CommandsInOrder, NEW command \in RealtimeCommand, Submit(command)
    PROVE  nextCommand' = nextCommand + 1 /\ (AppliedAtOnce(command) \/ Queued(command))
<1> DEFINE numbered == [command EXCEPT !.sequence = nextCommand]
<1>1. numbered \in RealtimeCommand /\ numbered.sequence = nextCommand
      /\ numbered.kind = command.kind /\ numbered.graph = command.graph
      /\ numbered.rack = command.rack
  <2>1. nextCommand \in Nat
    BY DEF TypeOK
  <2> QED BY <2>1, CommandFields
<1>2. CASE owner = "control" /\ ApplyRealtimeCommand(numbered) /\ UNCHANGED commands
  <2>1. commands = <<>>
    BY <1>2 DEF CommandsInOrder
  <2>2. Retired(realtime, numbered) = Retired(realtime, command)
    BY <1>1 DEF Retired
  <2>3. /\ realtime'.applied = nextCommand
        /\ realtime'.graph = IF command.kind = "publishGraph" THEN command.graph ELSE realtime.graph
    <3>1. realtime \in RealtimeState /\ realtime' = Applied(realtime, numbered)
      BY <1>2 DEF ApplyRealtimeCommand, TypeOK
    <3> HIDE DEF numbered
    <3> QED BY <1>1, <3>1, AppliedType
  <2>4. AppliedAtOnce(command)
    BY <1>2, <2>1, <2>2, <2>3 DEF AppliedAtOnce, ApplyRealtimeCommand
  <2> QED BY <2>4 DEF Submit
<1>3. CASE owner = "audio" /\ commands' = Append(commands, numbered)
           /\ UNCHANGED <<stateVars, retired, racks, frame>>
  <2>1. /\ Len(commands') = Len(commands) + 1
        /\ \A i \in 1 .. Len(commands) : commands'[i] = commands[i]
        /\ commands'[Len(commands) + 1] = numbered
    BY <1>1, <1>3, AppendedCommand DEF TypeOK
  <2>2. Len(commands) \in Nat
    BY DEF TypeOK
  <2>3. Queued(command)
    BY <1>1, <1>3, <2>1, <2>2 DEF Queued, stateVars
  <2> QED BY <2>3 DEF Submit
<1> QED BY <1>2, <1>3 DEF Submit

\* A submitted command keeps the numbering.
LEMMA OrderSubmitted ==
    ASSUME IInv, NEW command \in RealtimeCommand, Submit(command), owner' = owner
    PROVE  CommandsInOrder'
<1>1. TypeOK /\ CommandsInOrder
  BY DEF IInv
<1>2. nextCommand \in Nat /\ realtime.applied \in Nat /\ Len(commands) \in Nat
  BY <1>1 DEF TypeOK, RealtimeState
<1>3. nextCommand' = nextCommand + 1
  BY <1>1, SubmitEffect
<1>4. CASE AppliedAtOnce(command)
  BY <1>1, <1>2, <1>3, <1>4 DEF CommandsInOrder, AppliedAtOnce
<1>5. CASE Queued(command)
  <2>1. nextCommand = realtime.applied + Len(commands) + 1
    BY <1>1 DEF CommandsInOrder
  <2>2. \A i \in 1 .. Len(commands') : commands'[i].sequence = realtime'.applied + i
    <3>1. \A i \in 1 .. Len(commands') : i \in 1 .. Len(commands) \/ i = Len(commands) + 1
      BY <1>2, <1>5 DEF Queued
    <3>2. commands'[Len(commands) + 1].sequence = realtime.applied + (Len(commands) + 1)
      BY <1>2, <1>5, <2>1 DEF Queued
    <3>3. \A i \in 1 .. Len(commands) : commands'[i].sequence = realtime.applied + i
      BY <1>1, <1>5 DEF CommandsInOrder, Queued
    <3>4. realtime' = realtime
      BY <1>5 DEF Queued
    <3> QED BY <3>1, <3>2, <3>3, <3>4
  <2> QED BY <1>2, <1>3, <1>5, <2>1, <2>2 DEF CommandsInOrder, Queued
<1> QED BY <1>1, <1>4, <1>5, SubmitEffect

\* A command that neither publishes a graph nor carries a parameter.
LEMMA LineSubmitted ==
    ASSUME IInv, NEW command \in RealtimeCommand, Submit(command),
           command.kind \notin {"publishGraph", "applyDeviceParameters"},
           registry' = registry, owner' = owner
    PROVE  LineInv'
<1>1. TypeOK /\ RetiredAreReplaced /\ PublicationsInLine /\ ParametersInLine /\ CommandsInOrder
  BY DEF IInv
<1>2. CommandsInOrder'
  BY OrderSubmitted
<1>3. CASE AppliedAtOnce(command)
  <2>1. realtime'.graph = realtime.graph /\ retired' = retired
    BY <1>3 DEF AppliedAtOnce, Retired
  <2>2. RetiredAreReplaced'
    BY <1>1, <2>1 DEF RetiredAreReplaced, ActiveIsOwned, NoGraphIsLost
  <2>3. PublicationsInLine'
    BY <1>1, <1>3, <2>1 DEF PublicationsInLine, Publishes, LatestCommitted, AppliedAtOnce
  <2>4. ParametersInLine'
    BY <1>1, <1>3, <2>1 DEF ParametersInLine, Parameterises, Publishes, LatestCommitted, AppliedAtOnce
  <2> QED BY <1>2, <2>2, <2>3, <2>4 DEF LineInv
<1>4. CASE Queued(command)
  <2>1. /\ realtime' = realtime /\ retired' = retired /\ Len(commands) \in Nat
        /\ Len(commands') = Len(commands) + 1
        /\ \A i \in 1 .. Len(commands) : commands'[i] = commands[i]
        /\ commands'[Len(commands) + 1].kind \notin {"publishGraph", "applyDeviceParameters"}
    BY <1>4 DEF Queued
  <2>2. RetiredAreReplaced'
    BY <1>1, <2>1 DEF RetiredAreReplaced, ActiveIsOwned, NoGraphIsLost
  <2>3. \A i \in 1 .. Len(commands) : i \in 1 .. Len(commands') /\ commands'[i] = commands[i]
    BY <2>1
  <2>4. \A i \in 1 .. Len(commands') :
            commands'[i].kind \in {"publishGraph", "applyDeviceParameters"} => i \in 1 .. Len(commands)
    BY <2>1
  <2>5. LatestCommitted' = LatestCommitted
    BY DEF LatestCommitted
  <2>6. PublicationsInLine'
    <3>1. PublicationsInLine
      BY <1>1
    <3> QED BY <2>1, <2>3, <2>4, <2>5, <3>1 DEF PublicationsInLine, Publishes
  <2>7. ParametersInLine'
    <3>1. ParametersInLine
      BY <1>1
    <3>2. \A i \in 1 .. Len(commands) : \A j \in 1 .. i - 1 : j \in 1 .. Len(commands)
      BY <2>1
    <3> QED BY <2>1, <2>3, <2>4, <2>5, <3>1, <3>2 DEF ParametersInLine, Parameterises, Publishes
  <2> QED BY <1>2, <2>2, <2>6, <2>7 DEF LineInv
<1> QED BY <1>1, <1>3, <1>4, SubmitEffect

\* CommitPreparedSnapshot publishes the next serial.
LEMMA LinePublished ==
    ASSUME IInv, RegistryInOrder', CommitPreparedSnapshot
    PROVE  LineInv'
<1> DEFINE command == [Command("publishGraph") EXCEPT !.graph = registry.nextSerial]
           new == registry.nextSerial
<1>1. TypeOK /\ RegistryInOrder /\ RetiredAreReplaced /\ PublicationsInLine /\ ParametersInLine
      /\ CommandsInOrder
  BY DEF IInv
<1>2. /\ command \in RealtimeCommand /\ command.kind = "publishGraph" /\ command.graph = new
      /\ Submit(command)
  <2>1. Command("publishGraph") \in RealtimeCommand /\ Command("publishGraph").kind = "publishGraph"
    BY CommandType DEF Kind, Command
  <2>2. new \in Nat
    BY <1>1 DEF TypeOK
  <2>3. Submit(command)
    BY DEF CommitPreparedSnapshot
  <2> QED BY <2>1, <2>2, <2>3, CommandFields
<1> HIDE DEF command
<1>3. /\ registry'.committed = registry.committed \union {new}
      /\ registry'.nextSerial = new + 1
      /\ \A s \in 1 .. LatestCommitted : registry'.built[s] = registry.built[s]
      /\ Cardinality(registry.committed) < Capacity
      /\ owner' = owner /\ new \in Nat /\ new >= 1
  BY <1>1, BoundAssumption DEF CommitPreparedSnapshot, RoomInRegistry, TypeOK, RegistryInOrder, LatestCommitted
<1>4. CommandsInOrder'
  BY <1>2, <1>3, OrderSubmitted
<1>5. /\ LatestCommitted = new - 1 /\ LatestCommitted' = new
      /\ realtime.graph \in 0 .. new - 1
      /\ \A s \in registry.committed : s \in 1 .. new - 1
      /\ \A s \in retired : s \in registry.committed /\ s < realtime.graph
  BY <1>1, <1>3 DEF LatestCommitted, PublicationsInLine, RegistryInOrder, RetiredAreReplaced
<1>6. CASE AppliedAtOnce(command)
  <2>1. realtime'.graph = new /\ commands = <<>> /\ commands' = <<>> /\ Len(commands) = 0
        /\ retired' = retired \union Retired(realtime, command)
    BY <1>2, <1>6 DEF AppliedAtOnce
  <2>2. realtime.graph = new - 1
    BY <1>1, <1>3, <1>5, <2>1 DEF PublicationsInLine
  <2>3. Cardinality(retired) < Capacity
    <3>1. retired \subseteq registry.committed
      BY <1>5
    <3>2. IsFiniteSet(registry.committed)
      BY <1>1, CommittedFinite
    <3>3. /\ Cardinality(retired) \in Nat /\ Cardinality(registry.committed) \in Nat
          /\ Cardinality(retired) <= Cardinality(registry.committed)
      BY <3>1, <3>2, FS_Subset, FS_CardinalityType
    <3> QED BY <1>3, <3>3, CapacityAssumption
  <2>4. retired' = retired \union (IF realtime.graph # 0 THEN {realtime.graph} ELSE {})
    BY <1>2, <2>1, <2>3 DEF Retired
  <2>5. RetiredAreReplaced'
    <3>1. \A s \in registry'.committed : s < realtime'.graph => s \in retired'
      BY <1>1, <1>3, <1>5, <2>1, <2>2, <2>4 DEF RetiredAreReplaced, NoGraphIsLost
    <3>2. \A s \in retired' : s \in registry'.committed /\ s < realtime'.graph
      BY <1>1, <1>3, <1>5, <2>1, <2>2, <2>4 DEF RetiredAreReplaced, ActiveIsOwned
    <3> QED BY <1>3, <2>1, <3>1, <3>2 DEF RetiredAreReplaced, ActiveIsOwned, NoGraphIsLost
  <2>6. PublicationsInLine'
    BY <1>5, <2>1, <1>3 DEF PublicationsInLine
  <2>7. ParametersInLine'
    BY <2>1 DEF ParametersInLine
  <2> QED BY <1>4, <2>5, <2>6, <2>7 DEF LineInv
<1>7. CASE Queued(command)
  <2> DEFINE n == Len(commands)
  <2>1. /\ realtime' = realtime /\ retired' = retired /\ n \in Nat
        /\ Len(commands') = n + 1
        /\ \A i \in 1 .. n : commands'[i] = commands[i]
        /\ commands'[n + 1].kind = "publishGraph" /\ commands'[n + 1].graph = new
    BY <1>2, <1>7 DEF Queued
  <2>2. RetiredAreReplaced'
    BY <1>1, <1>3, <1>5, <2>1 DEF RetiredAreReplaced, ActiveIsOwned, NoGraphIsLost
  <2>3. PublicationsInLine'
    <3>1. \A i \in 1 .. n + 1 : commands'[i].kind = "publishGraph" =>
              commands'[i].graph \in registry'.committed /\ commands'[i].graph > realtime'.graph
      <4>1. new \in registry'.committed /\ new > realtime'.graph
        BY <1>3, <1>5, <2>1
      <4>2. \A i \in 1 .. n : commands[i].kind = "publishGraph" =>
                commands[i].graph \in registry'.committed /\ commands[i].graph > realtime'.graph
        BY <1>1, <1>3, <2>1 DEF PublicationsInLine, Publishes
      <4>3. \A i \in 1 .. n + 1 : i \in 1 .. n \/ i = n + 1
        BY <2>1
      <4> QED BY <2>1, <4>1, <4>2, <4>3
    <3>2. \A i \in 1 .. n : commands[i].kind = "publishGraph" => commands[i].graph < new
      BY <1>1, <1>3, <1>5 DEF PublicationsInLine, Publishes
    <3>3. \A i, j \in 1 .. n + 1 :
              i < j /\ commands'[i].kind = "publishGraph" /\ commands'[j].kind = "publishGraph"
                  => commands'[i].graph < commands'[j].graph
      BY <1>1, <2>1, <3>2 DEF PublicationsInLine, Publishes
    <3>4. ASSUME NEW s \in realtime.graph + 1 .. new
          PROVE  \E i \in 1 .. n + 1 : commands'[i].kind = "publishGraph" /\ commands'[i].graph = s
      <4>1. CASE s = new
        BY <2>1, <4>1
      <4>2. CASE s # new
        <5>1. s \in realtime.graph + 1 .. LatestCommitted
          BY <1>5, <4>2, <1>3
        <5>2. PICK i \in 1 .. n : commands[i].kind = "publishGraph" /\ commands[i].graph = s
          BY <1>1, <5>1 DEF PublicationsInLine, Publishes
        <5> QED BY <2>1, <5>2
      <4> QED BY <4>1, <4>2
    <3> QED BY <1>3, <1>5, <2>1, <3>1, <3>3, <3>4 DEF PublicationsInLine, Publishes
  <2>4. ParametersInLine'
    <3>1. SUFFICES ASSUME NEW i \in 1 .. n + 1, commands'[i].kind = "applyDeviceParameters"
                   PROVE  /\ commands'[i].graph \in 1 .. new
                          /\ commands'[i].rack = registry'.built[commands'[i].graph].devices
                          /\ \A j \in 1 .. i - 1 : commands'[j].kind = "publishGraph" =>
                                 commands'[j].graph <= commands'[i].graph
                          /\ \/ commands'[i].graph = realtime'.graph
                             \/ \E j \in 1 .. i - 1 : commands'[j].kind = "publishGraph"
                                                      /\ commands'[j].graph = commands'[i].graph
      BY <1>5, <2>1 DEF ParametersInLine, Parameterises, Publishes
    <3>2. i \in 1 .. n /\ commands'[i] = commands[i] /\ Parameterises(i)
      BY <2>1, <3>1 DEF Parameterises
    <3>3. \A j \in 1 .. i - 1 : commands'[j] = commands[j]
      BY <2>1, <3>2
    <3>4. /\ commands[i].graph \in 1 .. LatestCommitted
          /\ commands[i].rack = registry.built[commands[i].graph].devices
          /\ \A j \in 1 .. i - 1 : commands[j].kind = "publishGraph" => commands[j].graph <= commands[i].graph
          /\ \/ commands[i].graph = realtime.graph
             \/ \E j \in 1 .. i - 1 : commands[j].kind = "publishGraph"
                                      /\ commands[j].graph = commands[i].graph
      BY <1>1, <3>2 DEF ParametersInLine, Publishes
    <3>5. commands'[i].graph \in 1 .. new /\ commands'[i].rack = registry'.built[commands'[i].graph].devices
      BY <1>3, <1>5, <3>2, <3>4
    <3> QED BY <2>1, <3>2, <3>3, <3>4, <3>5
  <2> QED BY <1>4, <2>2, <2>3, <2>4 DEF LineInv
<1> QED BY <1>1, <1>2, <1>6, <1>7, SubmitEffect

\* SetDeviceParameter names the graph committed last.
LEMMA LineParameter ==
    ASSUME IInv, SetDeviceParameter
    PROVE  LineInv'
<1> DEFINE rack == registry.built[LatestCommitted].devices
           command == [Command("applyDeviceParameters") EXCEPT !.graph = LatestCommitted, !.rack = rack]
<1>1. TypeOK /\ RegistryInOrder /\ RetiredAreReplaced /\ PublicationsInLine /\ ParametersInLine
      /\ CommandsInOrder
  BY DEF IInv
<1>2. LatestCommitted \in 1 .. LatestCommitted /\ LatestCommitted \in Nat /\ rack \in Nat
  BY <1>1, BoundAssumption DEF SetDeviceParameter, ParameterGraph, LatestCommitted, RegistryInOrder
<1>3. /\ command \in RealtimeCommand /\ command.kind = "applyDeviceParameters"
      /\ command.graph = LatestCommitted /\ command.rack = rack
  <2>1. /\ Command("applyDeviceParameters") \in RealtimeCommand
        /\ Command("applyDeviceParameters").kind = "applyDeviceParameters"
    BY CommandType DEF Kind, Command
  <2> DEFINE c == [Command("applyDeviceParameters") EXCEPT !.graph = LatestCommitted]
  <2>2. c \in RealtimeCommand /\ c.kind = "applyDeviceParameters" /\ c.graph = LatestCommitted
    BY <1>2, <2>1, CommandFields
  <2>3. command = [c EXCEPT !.rack = rack]
    OBVIOUS
  <2>4. /\ [c EXCEPT !.rack = rack] \in RealtimeCommand
        /\ [c EXCEPT !.rack = rack].kind = c.kind
        /\ [c EXCEPT !.rack = rack].graph = c.graph
        /\ [c EXCEPT !.rack = rack].rack = rack
    BY <1>2, <2>2, CommandFields
  <2> HIDE DEF c, command, rack
  <2> QED BY <2>2, <2>3, <2>4
<1>4. Submit(command) /\ registry' = registry /\ owner' = owner
  BY DEF SetDeviceParameter, ParameterGraph
<1> HIDE DEF command
<1>5. CommandsInOrder'
  BY <1>3, <1>4, OrderSubmitted
<1>6. CASE AppliedAtOnce(command)
  <2>1. realtime'.graph = realtime.graph /\ retired' = retired
    BY <1>3, <1>6 DEF AppliedAtOnce, Retired
  <2>2. RetiredAreReplaced'
    BY <1>1, <1>4, <2>1 DEF RetiredAreReplaced, ActiveIsOwned, NoGraphIsLost
  <2>3. PublicationsInLine'
    BY <1>1, <1>4, <1>6, <2>1 DEF PublicationsInLine, Publishes, LatestCommitted, AppliedAtOnce
  <2>4. ParametersInLine'
    BY <1>6 DEF ParametersInLine, AppliedAtOnce
  <2> QED BY <1>5, <2>2, <2>3, <2>4 DEF LineInv
<1>7. CASE Queued(command)
  <2> DEFINE n == Len(commands)
  <2>1. /\ realtime' = realtime /\ retired' = retired /\ n \in Nat
        /\ Len(commands') = n + 1
        /\ \A i \in 1 .. n : commands'[i] = commands[i]
        /\ commands'[n + 1].kind = "applyDeviceParameters"
        /\ commands'[n + 1].graph = LatestCommitted /\ commands'[n + 1].rack = rack
    BY <1>3, <1>7 DEF Queued
  <2>2. RetiredAreReplaced'
    BY <1>1, <1>4, <2>1 DEF RetiredAreReplaced, ActiveIsOwned, NoGraphIsLost
  <2>3. PublicationsInLine'
    <3>1. \A i \in 1 .. n : i \in 1 .. n + 1 /\ commands'[i] = commands[i]
      BY <2>1
    <3>2. \A i \in 1 .. n + 1 : commands'[i].kind = "publishGraph" => i \in 1 .. n
      BY <2>1
    <3>3. LatestCommitted' = LatestCommitted /\ realtime' = realtime /\ registry' = registry
          /\ Len(commands') = n + 1 /\ PublicationsInLine
      BY <1>1, <1>4, <2>1 DEF LatestCommitted
    <3> QED BY <3>1, <3>2, <3>3 DEF PublicationsInLine, Publishes
  <2>4. ParametersInLine'
    <3>1. ASSUME NEW i \in 1 .. n + 1, commands'[i].kind = "applyDeviceParameters"
          PROVE  /\ commands'[i].graph \in 1 .. LatestCommitted
                 /\ commands'[i].rack = registry.built[commands'[i].graph].devices
                 /\ \A j \in 1 .. i - 1 : commands'[j].kind = "publishGraph" =>
                        commands'[j].graph <= commands'[i].graph
                 /\ \/ commands'[i].graph = realtime.graph
                    \/ \E j \in 1 .. i - 1 : commands'[j].kind = "publishGraph"
                                             /\ commands'[j].graph = commands'[i].graph
      <4>1. CASE i \in 1 .. n
        <5>1. \A j \in 1 .. i - 1 : commands'[j] = commands[j]
          BY <2>1, <4>1
        <5>2. commands'[i] = commands[i] /\ Parameterises(i)
          BY <2>1, <3>1, <4>1 DEF Parameterises
        <5> QED BY <1>1, <4>1, <5>1, <5>2 DEF ParametersInLine, Publishes
      <4>2. CASE i = n + 1
        <5>1. \A j \in 1 .. n : commands[j].kind = "publishGraph" => commands[j].graph <= LatestCommitted
          BY <1>1, <1>2 DEF PublicationsInLine, Publishes, RegistryInOrder
        <5>2. realtime.graph # LatestCommitted => LatestCommitted \in realtime.graph + 1 .. LatestCommitted
          BY <1>1, <1>2 DEF PublicationsInLine
        <5>3. \/ LatestCommitted = realtime.graph
              \/ \E j \in 1 .. n : commands[j].kind = "publishGraph" /\ commands[j].graph = LatestCommitted
          BY <1>1, <5>2 DEF PublicationsInLine, Publishes
        <5> QED BY <1>2, <2>1, <4>2, <5>1, <5>3
      <4> QED BY <2>1, <4>1, <4>2
    <3> QED BY <1>4, <2>1, <3>1 DEF ParametersInLine, Parameterises, Publishes, LatestCommitted
  <2> QED BY <1>5, <2>2, <2>3, <2>4 DEF LineInv
<1> QED BY <1>1, <1>3, <1>4, <1>6, <1>7, SubmitEffect

\* The owner applies the command at the head of the queue.
LEMMA LineDrained ==
    ASSUME IInv, DrainCommand
    PROVE  LineInv' /\ realtime'.graph \in {realtime.graph, realtime.graph + 1}
<1> DEFINE command == Head(commands)
           n == Len(commands)
           active == realtime'.graph
<1>1. TypeOK /\ RegistryInOrder /\ RetiredAreReplaced /\ PublicationsInLine /\ ParametersInLine
      /\ CommandsInOrder
  BY DEF IInv
<1>2. /\ n \in Nat /\ n >= 1 /\ Len(commands') = n - 1
      /\ \A i \in 1 .. n - 1 : commands'[i] = commands[i + 1]
      /\ command = commands[1] /\ command \in RealtimeCommand
  BY <1>1, TakenCommand DEF DrainCommand, TypeOK
<1>3. /\ registry' = registry /\ LatestCommitted' = LatestCommitted
      /\ nextCommand' = nextCommand /\ owner' = owner
      /\ retired' = retired \union Retired(realtime, command)
      /\ realtime'.applied = command.sequence
      /\ active = IF command.kind = "publishGraph" THEN command.graph ELSE realtime.graph
  BY <1>1, <1>2, AppliedType DEF DrainCommand, ApplyRealtimeCommand, LatestCommitted, TypeOK
<1>4. CommandsInOrder'
  <2>1. realtime'.applied = realtime.applied + 1 /\ realtime.applied \in Nat
    BY <1>1, <1>2, <1>3 DEF CommandsInOrder, TypeOK, RealtimeState
  <2>2. \A i \in 1 .. n - 1 : commands[i + 1].sequence = realtime.applied + (i + 1)
    BY <1>1, <1>2 DEF CommandsInOrder
  <2>3. owner' = "control" => FALSE
    BY <1>1, <1>2, <1>3 DEF CommandsInOrder, DrainCommand
  <2>4. ASSUME NEW i \in 1 .. n - 1 PROVE commands'[i].sequence = realtime'.applied + i
    <3>1. commands'[i].sequence = realtime.applied + (i + 1) /\ i \in Int
      BY <1>2, <2>2
    <3> QED BY <2>1, <3>1
  <2>5. nextCommand' = realtime'.applied + Len(commands') + 1
    <3>1. nextCommand = realtime.applied + n + 1
      BY <1>1 DEF CommandsInOrder
    <3> HIDE DEF n
    <3> QED BY <1>2, <1>3, <2>1, <3>1
  <2> QED BY <1>2, <2>3, <2>4, <2>5 DEF CommandsInOrder
<1>5. /\ realtime.graph \in 0 .. LatestCommitted /\ LatestCommitted \in Nat
      /\ \A i \in 1 .. n : commands[i].kind = "publishGraph" =>
             commands[i].graph \in registry.committed /\ commands[i].graph > realtime.graph
      /\ \A i, j \in 1 .. n :
             i < j /\ commands[i].kind = "publishGraph" /\ commands[j].kind = "publishGraph"
                 => commands[i].graph < commands[j].graph
      /\ \A s \in realtime.graph + 1 .. LatestCommitted :
             \E i \in 1 .. n : commands[i].kind = "publishGraph" /\ commands[i].graph = s
      /\ registry.committed \subseteq 1 .. LatestCommitted
  <2>1. LatestCommitted \in Nat
    BY <1>1, BoundAssumption DEF RegistryInOrder, LatestCommitted
  <2> QED BY <1>1, <2>1 DEF PublicationsInLine, Publishes, RegistryInOrder
<1>6. \A i \in 1 .. n : commands[i].kind = "applyDeviceParameters" =>
        /\ commands[i].graph \in 1 .. LatestCommitted
        /\ commands[i].rack = registry.built[commands[i].graph].devices
        /\ \A j \in 1 .. i - 1 : commands[j].kind = "publishGraph" => commands[j].graph <= commands[i].graph
        /\ \/ commands[i].graph = realtime.graph
           \/ \E j \in 1 .. i - 1 : commands[j].kind = "publishGraph" /\ commands[j].graph = commands[i].graph
  BY <1>1 DEF ParametersInLine, Parameterises, Publishes
\* The next graph published is the one committed after the active one.
<1>7. command.kind = "publishGraph" => command.graph = realtime.graph + 1
  <2>1. SUFFICES ASSUME command.kind = "publishGraph", command.graph # realtime.graph + 1 PROVE FALSE
    OBVIOUS
  <2>2. /\ command.graph \in registry.committed /\ command.graph > realtime.graph
        /\ command.graph \in 1 .. LatestCommitted
    BY <1>2, <1>5, <2>1
  <2>3. realtime.graph + 1 \in realtime.graph + 1 .. LatestCommitted /\ realtime.graph + 1 < command.graph
    BY <1>5, <2>1, <2>2
  <2>4. PICK i \in 1 .. n : commands[i].kind = "publishGraph" /\ commands[i].graph = realtime.graph + 1
    BY <1>5, <2>3
  <2>5. i # 1 /\ 1 < i
    BY <1>2, <2>1, <2>4
  <2>6. commands[1].graph < commands[i].graph
    BY <1>2, <1>5, <2>1, <2>4, <2>5
  <2>7. command.graph < realtime.graph + 1
    BY <1>2, <2>4, <2>6
  <2>8. command.graph \in Int /\ realtime.graph \in Int
    BY <1>5, <2>2
  <2> HIDE DEF command
  <2> QED BY <2>3, <2>7, <2>8
<1>8. active \in {realtime.graph, realtime.graph + 1} /\ active \in 0 .. LatestCommitted
  <2>1. CASE command.kind = "publishGraph"
    <3>1. active = command.graph /\ command.graph \in registry.committed
      BY <1>2, <1>3, <1>5, <2>1
    <3>2. command.graph = realtime.graph + 1
      BY <1>7, <2>1
    <3>3. command.graph \in 1 .. LatestCommitted
      BY <1>5, <3>1
    <3> QED BY <1>5, <3>1, <3>2, <3>3
  <2>2. CASE command.kind # "publishGraph"
    BY <1>3, <1>5, <2>2
  <2> QED BY <2>1, <2>2
<1>9. RetiredAreReplaced'
  <2>1. CASE command.kind # "publishGraph"
    <3>1. retired' = retired /\ active = realtime.graph
      BY <1>3, <2>1 DEF Retired
    <3> QED BY <1>1, <1>3, <3>1 DEF RetiredAreReplaced, ActiveIsOwned, NoGraphIsLost
  <2>2. CASE command.kind = "publishGraph"
    <3>1. active = command.graph /\ active = realtime.graph + 1 /\ active \in registry.committed
      BY <1>2, <1>3, <1>5, <1>7, <2>2
    <3>2. Cardinality(retired) < Capacity
      <4>1. IsFiniteSet(registry.committed)
        BY <1>1, CommittedFinite
      <4>2. retired \in SUBSET registry.committed /\ active \notin retired
        BY <1>1, <1>5, <3>1 DEF RetiredAreReplaced
      <4>3. retired # registry.committed
        BY <3>1, <4>2
      <4>4. /\ Cardinality(retired) <= Cardinality(registry.committed)
            /\ Cardinality(retired) # Cardinality(registry.committed)
            /\ Cardinality(retired) \in Nat /\ Cardinality(registry.committed) \in Nat
        BY <4>1, <4>2, <4>3, FS_Subset, FS_CardinalityType
      <4>5. Cardinality(registry.committed) <= Capacity
        BY <1>1 DEF RegistryInOrder
      <4> QED BY <4>4, <4>5, CapacityAssumption
    <3>3. retired' = retired \union (IF realtime.graph # 0 THEN {realtime.graph} ELSE {})
      BY <1>3, <2>2, <3>2 DEF Retired
    <3>4. \A s \in registry.committed : s < active => s \in retired'
      BY <1>1, <1>5, <3>1, <3>3 DEF RetiredAreReplaced, NoGraphIsLost
    <3>5. \A s \in retired' : s \in registry.committed /\ s < active
      BY <1>1, <1>5, <3>1, <3>3 DEF RetiredAreReplaced, ActiveIsOwned
    <3> QED BY <1>3, <3>1, <3>4, <3>5 DEF RetiredAreReplaced, ActiveIsOwned, NoGraphIsLost
  <2> QED BY <2>1, <2>2
<1>10. PublicationsInLine'
  <2>1. ASSUME NEW i \in 1 .. n - 1, commands'[i].kind = "publishGraph"
        PROVE  commands'[i].graph \in registry.committed /\ commands'[i].graph > active
    <3>1. i + 1 \in 1 .. n /\ 1 \in 1 .. n /\ 1 < i + 1 /\ commands'[i] = commands[i + 1]
      BY <1>2
    <3>2. commands[i + 1].graph \in registry.committed /\ commands[i + 1].graph > realtime.graph
      BY <1>5, <2>1, <3>1
    <3>3. command.kind = "publishGraph" => command.graph < commands[i + 1].graph
      BY <1>2, <1>5, <2>1, <3>1
    <3> QED BY <1>3, <3>1, <3>2, <3>3
  <2>2. ASSUME NEW i \in 1 .. n - 1, NEW j \in 1 .. n - 1, i < j,
               commands'[i].kind = "publishGraph", commands'[j].kind = "publishGraph"
        PROVE  commands'[i].graph < commands'[j].graph
    <3>1. i + 1 \in 1 .. n /\ j + 1 \in 1 .. n /\ i + 1 < j + 1
          /\ commands'[i] = commands[i + 1] /\ commands'[j] = commands[j + 1]
      BY <1>2, <2>2
    <3> QED BY <1>5, <2>2, <3>1
  <2>3. ASSUME NEW s \in active + 1 .. LatestCommitted
        PROVE  \E i \in 1 .. n - 1 : commands'[i].kind = "publishGraph" /\ commands'[i].graph = s
    <3>1. s \in realtime.graph + 1 .. LatestCommitted /\ s > active
      BY <1>5, <1>8
    <3>2. PICK i \in 1 .. n : commands[i].kind = "publishGraph" /\ commands[i].graph = s
      BY <1>5, <3>1
    <3>3. i # 1
      BY <1>2, <1>3, <1>8, <3>1, <3>2
    <3>4. i - 1 \in 1 .. n - 1 /\ commands'[i - 1] = commands[i]
      BY <1>2, <3>3
    <3> QED BY <3>2, <3>4
  <2> QED BY <1>2, <1>3, <1>8, <2>1, <2>2, <2>3 DEF PublicationsInLine, Publishes
<1>11. ParametersInLine'
  <2>1. ASSUME NEW i \in 1 .. n - 1, commands'[i].kind = "applyDeviceParameters"
        PROVE  /\ commands'[i].graph \in 1 .. LatestCommitted
               /\ commands'[i].rack = registry.built[commands'[i].graph].devices
               /\ \A j \in 1 .. i - 1 : commands'[j].kind = "publishGraph" =>
                      commands'[j].graph <= commands'[i].graph
               /\ \/ commands'[i].graph = active
                  \/ \E j \in 1 .. i - 1 : commands'[j].kind = "publishGraph"
                                           /\ commands'[j].graph = commands'[i].graph
    <3>1. i + 1 \in 1 .. n /\ commands'[i] = commands[i + 1] /\ 1 \in 1 .. (i + 1) - 1
      BY <1>2
    <3>2. \A j \in 1 .. i - 1 : j + 1 \in 1 .. (i + 1) - 1 /\ commands'[j] = commands[j + 1]
      BY <1>2
    <3>3. /\ commands[i + 1].graph \in 1 .. LatestCommitted
          /\ commands[i + 1].rack = registry.built[commands[i + 1].graph].devices
          /\ \A j \in 1 .. (i + 1) - 1 : commands[j].kind = "publishGraph" =>
                 commands[j].graph <= commands[i + 1].graph
          /\ \/ commands[i + 1].graph = realtime.graph
             \/ \E j \in 1 .. (i + 1) - 1 : commands[j].kind = "publishGraph"
                                            /\ commands[j].graph = commands[i + 1].graph
      BY <1>6, <2>1, <3>1
    <3>4. CASE commands[i + 1].graph = realtime.graph
      <4>1. command.kind # "publishGraph"
        BY <1>2, <1>5, <1>7, <3>1, <3>3, <3>4
      <4> QED BY <1>3, <3>1, <3>2, <3>3, <3>4, <4>1
    <3>5. ASSUME NEW j \in 1 .. (i + 1) - 1, commands[j].kind = "publishGraph",
                 commands[j].graph = commands[i + 1].graph
          PROVE  \/ commands[i + 1].graph = active
                 \/ \E k \in 1 .. i - 1 : commands'[k].kind = "publishGraph"
                                          /\ commands'[k].graph = commands[i + 1].graph
      <4>1. CASE j = 1
        BY <1>2, <1>3, <3>5, <4>1
      <4>2. CASE j # 1
        <5>1. j - 1 \in 1 .. i - 1 /\ commands'[j - 1] = commands[j]
          BY <1>2, <4>2
        <5> QED BY <3>5, <5>1
      <4> QED BY <4>1, <4>2
    <3> QED BY <3>1, <3>2, <3>3, <3>4, <3>5
  <2> QED BY <1>2, <1>3, <2>1 DEF ParametersInLine, Parameterises, Publishes
<1> QED BY <1>4, <1>8, <1>9, <1>10, <1>11 DEF LineInv

\* Every step keeps the line.
LEMMA LineStep == ASSUME IInv, [Next]_vars, RegistryInOrder' PROVE LineInv'
<1>0. TypeOK /\ CommandsInOrder
  BY DEF IInv
<1>1. CASE UNCHANGED vars
  BY <1>1, LineKept DEF vars, IInv, CommandsInOrder
<1>2. ASSUME NEW kind \in Requests, RequestTransport(kind) PROVE LineInv'
  <2>1. /\ Command(kind) \in RealtimeCommand /\ Command(kind).kind = kind
        /\ kind \notin {"publishGraph", "applyDeviceParameters"}
    BY CommandType, RequestAssumption DEF Kind, Command, TransportKind
  <2> QED BY <1>2, <2>1, LineSubmitted DEF RequestTransport
<1>3. ASSUME NEW same \in BOOLEAN, LoadSnapshot(same) PROVE LineInv'
  <2>1. /\ registry'.committed = registry.committed /\ registry'.nextSerial = registry.nextSerial
        /\ registry'.built = registry.built
    BY <1>0, <1>3 DEF LoadSnapshot, TypeOK
  <2> QED BY <1>0, <1>3, <2>1, LineKept DEF LoadSnapshot, queueVars, stateVars, CommandsInOrder
<1>4. CASE BeginCommit \/ DiscardPreparedSnapshot \/ ReclaimRetiredGraphs
  <2>1. /\ registry'.committed = registry.committed \ retired
        /\ registry'.nextSerial = registry.nextSerial /\ registry'.built = registry.built
        /\ retired' = {}
    BY <1>0, <1>4 DEF BeginCommit, DiscardPreparedSnapshot, ReclaimRetiredGraphs, ReclaimRetired,
                      Reclaimed, TypeOK
  <2>2. realtime' = realtime /\ commands' = commands /\ nextCommand' = nextCommand /\ owner' = owner
    BY <1>4 DEF BeginCommit, DiscardPreparedSnapshot, ReclaimRetiredGraphs, queueVars, stateVars
  <2> QED BY <2>1, <2>2, LineReclaimed
<1>5. CASE CommitPreparedSnapshot
  BY <1>5, LinePublished
<1>6. CASE RefuseCommit \/ FinishParameter \/ CancelParameter \/ BeginDeviceStop
           \/ BeginBlock \/ \E r \in Reader : ReadFrame(r) \/ VisitGraph(r)
  BY <1>0, <1>6, LineKept DEF RefuseCommit, FinishParameter, CancelParameter, BeginDeviceStop,
       BeginBlock, ReadFrame, VisitGraph, queueVars, stateVars, graphVars, CommandsInOrder
<1>7. CASE SetDeviceParameter
  BY <1>7, LineParameter
<1>8. CASE FlagDeviceStart
  <2>1. /\ registry'.committed = registry.committed /\ registry'.nextSerial = registry.nextSerial
        /\ registry'.built = registry.built
    BY <1>0, <1>8 DEF FlagDeviceStart, TypeOK
  <2> QED BY <1>0, <1>8, <2>1, LineKept DEF FlagDeviceStart, queueVars, stateVars, CommandsInOrder
<1>9. CASE AnnounceDeviceStart
  <2>1. /\ Command("deviceStarted") \in RealtimeCommand
        /\ Command("deviceStarted").kind = "deviceStarted"
    BY CommandType DEF Kind, Command
  <2> QED BY <1>9, <2>1, LineSubmitted DEF AnnounceDeviceStart
<1>10. CASE HandToAudio
  <2>1. owner' = "control" => commands' = <<>>
    BY <1>10 DEF HandToAudio
  <2> QED BY <1>10, <2>1, LineKept DEF HandToAudio, queueVars, stateVars, graphVars
<1>11. CASE TakeControl
  BY <1>11, LineKept DEF TakeControl, queueVars, stateVars, graphVars
<1>12. CASE DrainCommand
  BY <1>12, LineDrained
<1>13. CASE PublishBlock
  <2> DEFINE started == [realtime EXCEPT !.phase = "recording", !.transport = "playing"]
  <2>1. started.graph = realtime.graph /\ started.applied = realtime.applied
    BY <1>0 DEF TypeOK, RealtimeState
  <2>2. realtime' = realtime \/ realtime' = started
    BY <1>13 DEF PublishBlock, CountInAdvanced
  <2> HIDE DEF started
  <2> QED BY <1>0, <1>13, <2>1, <2>2, LineKept DEF PublishBlock, queueVars, graphVars, CommandsInOrder
<1>14. CASE RenderBlock
  <2>1. realtime'.graph = realtime.graph /\ realtime'.applied = realtime.applied
    BY <1>0, <1>14 DEF RenderBlock, TypeOK, RealtimeState
  <2> QED BY <1>0, <1>14, <2>1, LineKept DEF RenderBlock, queueVars, graphVars, CommandsInOrder
<1> QED
  BY <1>1, <1>2, <1>3, <1>4, <1>5, <1>6, <1>7, <1>8, <1>9, <1>10, <1>11, <1>12, <1>13, <1>14
  DEF Next, Task, Device, Audio

-----------------------------------------------------------------------------
(* The plugin racks.                                                       *)

\* A step that leaves the racks and the last command applied alone.
LEMMA RacksKept ==
    ASSUME RacksAnswerTruly, racks' = racks, realtime'.applied = realtime.applied
    PROVE  RacksAnswerTruly'
  BY DEF RacksAnswerTruly

\* A command asks its rack for the newest sequence there is.
LEMMA RacksApplied ==
    ASSUME TypeOK, RacksAnswerTruly, NEW command \in RealtimeCommand,
           ApplyRealtimeCommand(command), command.sequence = realtime.applied + 1
    PROVE  RacksAnswerTruly'
<1>1. realtime'.applied = command.sequence /\ command.sequence \in Nat /\ realtime.applied \in Nat
      /\ racks \in RackType
  BY AppliedType DEF TypeOK, ApplyRealtimeCommand, RealtimeCommand, RealtimeState, RackType
<1>2. ASSUME NEW d \in 1 .. MaxSerial + 1
      PROVE  racks'[d].completed <= racks'[d].requested /\ racks'[d].requested <= command.sequence
  <2>1. /\ racks[d].completed <= racks[d].requested /\ racks[d].requested <= realtime.applied
        /\ racks[d].completed \in Nat /\ racks[d].requested \in Nat
    BY <1>1 DEF RacksAnswerTruly, RackType
  <2>2. \/ racks' = racks
        \/ racks' = [racks EXCEPT ![command.rack].requested = command.sequence,
                                  ![command.rack].completed = command.sequence]
        \/ racks' = [racks EXCEPT ![command.rack].requested = command.sequence,
                                  ![command.rack].completed = @]
    BY DEF ApplyRealtimeCommand, AppliedToRack
  <2>3. CASE racks' = racks
    BY <1>1, <2>1, <2>3
  <2>4. CASE racks' = [racks EXCEPT ![command.rack].requested = command.sequence,
                                    ![command.rack].completed = command.sequence]
    <3>1. racks'[d] = racks[d] \/ (racks'[d].requested = command.sequence
                                   /\ racks'[d].completed = command.sequence)
      BY <1>1, <2>4 DEF RackType
    <3> QED BY <1>1, <2>1, <3>1
  <2>5. CASE racks' = [racks EXCEPT ![command.rack].requested = command.sequence,
                                    ![command.rack].completed = @]
    <3>1. racks'[d] = racks[d] \/ (racks'[d].requested = command.sequence
                                   /\ racks'[d].completed = racks[d].completed)
      BY <1>1, <2>5 DEF RackType
    <3> QED BY <1>1, <2>1, <3>1
  <2> QED BY <2>2, <2>3, <2>4, <2>5
<1> QED BY <1>1, <1>2 DEF RacksAnswerTruly

\* A submitted command keeps the racks truthful.
LEMMA RacksSubmitted ==
    ASSUME TypeOK, CommandsInOrder, RacksAnswerTruly, NEW command \in RealtimeCommand, Submit(command)
    PROVE  RacksAnswerTruly'
<1> DEFINE numbered == [command EXCEPT !.sequence = nextCommand]
<1>1. numbered \in RealtimeCommand /\ numbered.sequence = nextCommand
  BY CommandFields DEF TypeOK
<1> HIDE DEF numbered
<1>2. CASE owner = "control" /\ ApplyRealtimeCommand(numbered)
  <2>1. nextCommand = realtime.applied + 1
    BY <1>2 DEF CommandsInOrder, TypeOK, RealtimeState
  <2> QED BY <1>1, <1>2, <2>1, RacksApplied
<1>3. CASE UNCHANGED <<stateVars, retired, racks, frame>>
  BY <1>3, RacksKept DEF stateVars
<1> QED BY <1>2, <1>3 DEF Submit, numbered

\* Every step keeps the racks truthful.
LEMMA RacksStep == ASSUME IInv, [Next]_vars PROVE RacksAnswerTruly'
<1>0. TypeOK /\ RegistryInOrder /\ PublicationsInLine /\ CommandsInOrder /\ RacksAnswerTruly
  BY DEF IInv
<1>1. CASE UNCHANGED vars
  BY <1>0, <1>1, RacksKept DEF vars
<1>2. ASSUME NEW kind \in Requests, RequestTransport(kind) PROVE RacksAnswerTruly'
  <2>1. Command(kind) \in RealtimeCommand
    BY CommandType, RequestAssumption DEF Kind
  <2> QED BY <1>0, <1>2, <2>1, RacksSubmitted DEF RequestTransport
<1>3. CASE \/ \E same \in BOOLEAN : LoadSnapshot(same)
           \/ BeginCommit \/ RefuseCommit \/ DiscardPreparedSnapshot \/ ReclaimRetiredGraphs
           \/ FinishParameter \/ FlagDeviceStart \/ HandToAudio \/ BeginDeviceStop \/ TakeControl
           \/ BeginBlock \/ \E r \in Reader : ReadFrame(r) \/ VisitGraph(r)
  <2>1. CASE \/ \E same \in BOOLEAN : LoadSnapshot(same)
             \/ BeginCommit \/ RefuseCommit \/ DiscardPreparedSnapshot \/ ReclaimRetiredGraphs
             \/ FinishParameter
    <3>1. racks' = racks /\ realtime' = realtime
      BY <2>1 DEF LoadSnapshot, BeginCommit, RefuseCommit, DiscardPreparedSnapshot,
                  ReclaimRetiredGraphs, FinishParameter, stateVars
    <3> QED BY <1>0, <3>1, RacksKept
  <2>2. CASE \/ FlagDeviceStart \/ HandToAudio \/ BeginDeviceStop \/ TakeControl
             \/ BeginBlock \/ \E r \in Reader : ReadFrame(r) \/ VisitGraph(r)
    <3>1. racks' = racks /\ realtime' = realtime
      BY <2>2 DEF FlagDeviceStart, HandToAudio, BeginDeviceStop, TakeControl, BeginBlock,
                  ReadFrame, VisitGraph, stateVars
    <3> QED BY <1>0, <3>1, RacksKept
  <2> QED BY <1>3, <2>1, <2>2
<1>4. CASE CommitPreparedSnapshot
  <2> DEFINE command == [Command("publishGraph") EXCEPT !.graph = registry.nextSerial]
  <2>1. command \in RealtimeCommand
    BY <1>0, CommandType, CommandFields DEF Kind, TypeOK
  <2>2. Submit(command)
    BY <1>4 DEF CommitPreparedSnapshot
  <2> HIDE DEF command
  <2> QED BY <1>0, <2>1, <2>2, RacksSubmitted
<1>5. CASE SetDeviceParameter
  <2> DEFINE rack == registry.built[ParameterGraph].devices
             named == [Command("applyDeviceParameters") EXCEPT !.graph = ParameterGraph]
             command == [named EXCEPT !.rack = rack]
  <2>1. ParameterGraph \in Nat /\ rack \in Nat
    BY <1>0, <1>5, BoundAssumption DEF SetDeviceParameter, ParameterGraph, LatestCommitted, RegistryInOrder
  <2>2. named \in RealtimeCommand
    BY <2>1, CommandType, CommandFields DEF Kind
  <2>3. command \in RealtimeCommand
    <3> HIDE DEF named, rack
    <3> QED BY <2>1, <2>2, CommandFields
  <2>4. Submit(command)
    BY <1>5 DEF SetDeviceParameter
  <2> HIDE DEF command
  <2> QED BY <1>0, <2>3, <2>4, RacksSubmitted
<1>6. CASE CancelParameter
  <2>1. racks' = [racks EXCEPT ![task.rack].cancelled = task.sequence] /\ realtime' = realtime
        /\ racks \in RackType
    BY <1>0, <1>6 DEF CancelParameter, stateVars, TypeOK, RackType
  <2>2. ASSUME NEW d \in 1 .. MaxSerial + 1
        PROVE  racks'[d].requested = racks[d].requested /\ racks'[d].completed = racks[d].completed
    BY <2>1 DEF RackType
  <2> QED BY <1>0, <2>1, <2>2 DEF RacksAnswerTruly
<1>7. CASE AnnounceDeviceStart
  <2>1. Command("deviceStarted") \in RealtimeCommand
    BY CommandType DEF Kind
  <2> QED BY <1>0, <1>7, <2>1, RacksSubmitted DEF AnnounceDeviceStart
<1>8. CASE DrainCommand
  <2>1. Head(commands) \in RealtimeCommand /\ Head(commands) = commands[1] /\ Len(commands) >= 1
        /\ Len(commands) \in Nat
    BY <1>0, <1>8, TakenCommand DEF DrainCommand, TypeOK
  <2>2. Head(commands).sequence = realtime.applied + 1
    BY <1>0, <2>1 DEF CommandsInOrder
  <2> QED BY <1>0, <1>8, <2>1, <2>2, RacksApplied DEF DrainCommand
<1>9. CASE PublishBlock
  <2>1. realtime'.applied = realtime.applied
    <3>1. realtime \in RealtimeState
      BY <1>0 DEF TypeOK
    <3>2. [realtime EXCEPT !.phase = "recording", !.transport = "playing"].applied = realtime.applied
      BY <3>1 DEF RealtimeState
    <3> QED BY <1>9, <3>2 DEF PublishBlock, CountInAdvanced
  <2> QED BY <1>0, <1>9, <2>1, RacksKept DEF PublishBlock
<1>10. CASE RenderBlock
  <2>1. realtime'.applied = realtime.applied
    BY <1>0, <1>10 DEF RenderBlock, TypeOK, RealtimeState
  <2> DEFINE rack == registry.built[realtime.graph].devices
  <2>2. racks' = racks \/ racks' = [racks EXCEPT ![rack].completed = racks[rack].requested]
    BY <1>10 DEF RenderBlock, CompletedByBlock
  <2>3. racks \in RackType
    BY <1>0 DEF TypeOK, RackType
  <2> HIDE DEF rack
  <2>4. CASE racks' = [racks EXCEPT ![rack].completed = racks[rack].requested]
    <3>1. ASSUME NEW d \in 1 .. MaxSerial + 1
          PROVE  racks'[d].requested = racks[d].requested
                 /\ racks'[d].completed \in {racks[d].completed, racks[d].requested}
                 /\ racks[d].requested \in Nat
      BY <2>3, <2>4 DEF RackType
    <3> QED BY <1>0, <2>1, <3>1 DEF RacksAnswerTruly
  <2> QED BY <1>0, <2>1, <2>2, <2>4, RacksKept
<1> QED
  BY <1>1, <1>2, <1>3, <1>4, <1>5, <1>6, <1>7, <1>8, <1>9, <1>10 DEF Next, Task, Device, Audio

-----------------------------------------------------------------------------
(* The theorems.                                                           *)

\* The invariant holds at the start.
LEMMA InitInv == Init => IInv
<1> SUFFICES ASSUME Init PROVE IInv
  OBVIOUS
<1>1. commands = <<>> /\ commands \in Seq(RealtimeCommand) /\ Len(commands) = 0
  BY DEF Init
<1>2. realtime \in RealtimeState /\ realtime.graph = 0 /\ realtime.applied = 0
  BY DEF Init, RealtimeState
<1>3. frame \in RealtimeFrame
  BY <1>2, FrameType DEF Init
<1>4. /\ registry.committed = {} /\ registry.pending = None /\ registry.nextSerial = 1
      /\ registry.devicesNeedReprepare = FALSE
      /\ registry.built = [s \in 1 .. MaxSerial |-> [devices |-> 0, starts |-> 0]]
  BY DEF Init
<1>5. TypeOK
  <2>1. registry \in [pending : Built \union {None}, committed : SUBSET Nat,
                      built : [1 .. MaxSerial -> Built], nextSerial : Nat,
                      devicesNeedReprepare : BOOLEAN]
    BY DEF Init, Built
  <2> QED BY <1>1, <1>2, <1>3, <2>1 DEF Init, TypeOK
<1>6. RegistryInOrder
  <2>1. Cardinality(registry.committed) = 0
    BY <1>4, FS_EmptySet
  <2>2. LatestCommitted = 0
    BY <1>4 DEF LatestCommitted
  <2> QED BY <1>4, <2>1, <2>2, CapacityAssumption, BoundAssumption DEF Init, RegistryInOrder
<1>7. RetiredAreReplaced
  BY <1>2, <1>4 DEF Init, RetiredAreReplaced, ActiveIsOwned, NoGraphIsLost
<1>8. PublicationsInLine /\ ParametersInLine
  BY <1>1, <1>2, <1>4 DEF PublicationsInLine, ParametersInLine, LatestCommitted
<1>9. CommandsInOrder
  BY <1>1, <1>2 DEF Init, CommandsInOrder
<1>10. RacksAnswerTruly
  BY <1>2 DEF Init, RacksAnswerTruly
<1> QED BY <1>5, <1>6, <1>7, <1>8, <1>9, <1>10 DEF IInv

\* Every step keeps the invariant.
LEMMA StepInv == IInv /\ [Next]_vars => IInv'
<1> SUFFICES ASSUME IInv, [Next]_vars PROVE IInv'
  OBVIOUS
<1>1. TypeOK' /\ RegistryInOrder' /\ RacksAnswerTruly'
  BY TypeStep, RegistryStep, RacksStep
<1>2. LineInv'
  BY <1>1, LineStep
<1> QED BY <1>1, <1>2 DEF IInv, LineInv

\* The inductive invariant holds in every state.
THEOREM Invariance == Spec => []IInv
<1>1. Init => IInv
  BY InitInv
<1>2. IInv /\ [Next]_vars => IInv'
  BY StepInv
<1> QED BY <1>1, <1>2, PTL DEF Spec

\* Every variable keeps to its type.
THEOREM TypeCorrect == Spec => []TypeOK
<1>1. IInv => TypeOK
  BY DEF IInv
<1> QED BY <1>1, Invariance, PTL

\* The plain pointer the audio thread holds never dangles.
THEOREM ActiveGraphIsAlive == Spec => []ActiveIsOwned
<1>1. IInv => ActiveIsOwned
  BY DEF IInv, RetiredAreReplaced
<1> QED BY <1>1, Invariance, PTL

\* RetireQueue::retire never finds its queue full: the registry's bound is enough.
THEOREM NoGraphLeaks == Spec => []NoGraphIsLost
<1>1. IInv => NoGraphIsLost
  BY DEF IInv, RetiredAreReplaced
<1> QED BY <1>1, Invariance, PTL

\* Accepted commands are applied once each, in the order they were submitted.
THEOREM CommandsAreOrdered == Spec => []CommandsInOrder
<1>1. IInv => CommandsInOrder
  BY DEF IInv
<1> QED BY <1>1, Invariance, PTL

\* A device parameter is applied to the rack it was found for, while its graph
\* is the active one.
THEOREM ParametersFindTheirRacks == Spec => []ParameterFindsItsRack
<1>1. ASSUME IInv, commands # <<>>, Head(commands).kind = "applyDeviceParameters"
      PROVE  /\ Head(commands).graph = realtime.graph
             /\ Head(commands).rack = registry.built[realtime.graph].devices
  <2>1. TypeOK /\ ParametersInLine
    BY <1>1 DEF IInv
  <2>2. Head(commands) = commands[1] /\ 1 \in 1 .. Len(commands)
    BY <1>1, <2>1 DEF TypeOK
  <2>3. /\ commands[1].rack = registry.built[commands[1].graph].devices
        /\ \/ commands[1].graph = realtime.graph
           \/ \E j \in 1 .. 1 - 1 : Publishes(j) /\ commands[j].graph = commands[1].graph
    BY <1>1, <2>1, <2>2 DEF ParametersInLine, Parameterises
  <2> QED BY <2>2, <2>3
<1>2. IInv => ParameterFindsItsRack
  BY <1>1 DEF ParameterFindsItsRack
<1> QED BY <1>2, Invariance, PTL

\* A parameter task that ends as applied waited for a command that was applied.
THEOREM ParameterAnswersAreTrue == Spec => []ParameterAnswerIsTrue
<1>1. ASSUME IInv, task.kind = "parameter", racks[task.rack].completed >= task.sequence
      PROVE  realtime.applied >= task.sequence
  <2>1. TypeOK /\ RegistryInOrder /\ RacksAnswerTruly
    BY <1>1 DEF IInv
  <2>2. task.rack \in 1 .. MaxSerial + 1
    BY <1>1, <2>1, BoundAssumption DEF RegistryInOrder
  <2>3. /\ racks[task.rack].completed <= racks[task.rack].requested
        /\ racks[task.rack].requested <= realtime.applied
    BY <2>1, <2>2 DEF RacksAnswerTruly
  <2>4. /\ racks[task.rack].completed \in Nat /\ racks[task.rack].requested \in Nat
        /\ realtime.applied \in Nat /\ task.sequence \in Nat
    BY <2>1, <2>2 DEF TypeOK, RealtimeState
  <2> QED BY <1>1, <2>3, <2>4
<1>2. IInv => ParameterAnswerIsTrue
  BY <1>1 DEF ParameterAnswerIsTrue
<1> QED BY <1>2, Invariance, PTL

-----------------------------------------------------------------------------
(* The safety half of the refinement.                                      *)

\* A step that touches neither the registry's graphs nor the active one is a
\* stutter of the lifecycle.
LEMMA LifecycleKept ==
    ASSUME registry'.committed = registry.committed, registry'.nextSerial = registry.nextSerial,
           realtime'.graph = realtime.graph
    PROVE  UNCHANGED Lifecycle!lifecycleVars
  BY DEF Lifecycle!lifecycleVars, LatestCommitted

\* Commands of no interest to the lifecycle leave the active graph alone.
LEMMA SubmitKeepsGraph ==
    ASSUME TypeOK, CommandsInOrder, NEW command \in RealtimeCommand, Submit(command),
           command.kind # "publishGraph"
    PROVE  realtime'.graph = realtime.graph
  BY SubmitEffect DEF AppliedAtOnce, Queued

\* What is reclaimed was replaced.
LEMMA LifecycleReclaimed ==
    ASSUME IInv, registry'.committed = registry.committed \ retired,
           registry'.nextSerial = registry.nextSerial, realtime' = realtime
    PROVE  [Lifecycle!Next]_(Lifecycle!lifecycleVars)
<1> DEFINE freed == (1 .. LatestCommitted) \ registry.committed
<1>1. TypeOK /\ RegistryInOrder /\ RetiredAreReplaced
  BY DEF IInv
<1>2. LatestCommitted' = LatestCommitted
  BY DEF LatestCommitted
<1>3. freed' = freed \union retired
  BY <1>1, <1>2 DEF RetiredAreReplaced, RegistryInOrder
<1>4. LatestCommitted \in Nat /\ realtime.graph \in Nat
  BY <1>1, BoundAssumption DEF LatestCommitted, RegistryInOrder, TypeOK, RealtimeState
<1>5. retired \subseteq 1 .. realtime.graph - 1
  <2>1. ASSUME NEW s \in retired PROVE s \in 1 .. realtime.graph - 1
    <3>1. s \in 1 .. LatestCommitted /\ s < realtime.graph
      BY <1>1 DEF RetiredAreReplaced, RegistryInOrder
    <3> QED BY <1>4, <3>1
  <2> QED BY <2>1
<1>6. freed' \in SUBSET (freed \union Lifecycle!Replaced) /\ freed \subseteq freed'
  BY <1>3, <1>5 DEF Lifecycle!Replaced
<1>7. freed' # freed => Lifecycle!Free
  BY <1>2, <1>6 DEF Lifecycle!Free
<1>8. freed' = freed => UNCHANGED Lifecycle!lifecycleVars
  BY <1>2 DEF Lifecycle!lifecycleVars
<1> QED BY <1>7, <1>8 DEF Lifecycle!Next

\* A commit queues its graph, or makes it the active one when it was next.
LEMMA LifecycleCommitted ==
    ASSUME IInv, CommitPreparedSnapshot
    PROVE  Lifecycle!Commit
<1> DEFINE command == [Command("publishGraph") EXCEPT !.graph = registry.nextSerial]
           last == LatestCommitted
<1>1. TypeOK /\ RegistryInOrder /\ PublicationsInLine /\ CommandsInOrder
  BY DEF IInv
<1>2. last \in Nat /\ registry.nextSerial = last + 1 /\ last' = last + 1
      /\ registry'.committed = registry.committed \union {last + 1}
      /\ registry.committed \subseteq 1 .. last
  <2>1. registry.nextSerial \in Nat /\ registry.nextSerial >= 1 /\ registry.committed \subseteq 1 .. last
    BY <1>1, BoundAssumption DEF RegistryInOrder
  <2>2. /\ registry'.nextSerial = registry.nextSerial + 1
        /\ registry'.committed = registry.committed \union {registry.nextSerial}
    BY <1>1 DEF CommitPreparedSnapshot, TypeOK
  <2>3. last \in Nat /\ registry.nextSerial = last + 1 /\ last' = last + 1
    BY <2>1, <2>2 DEF LatestCommitted
  <2> QED BY <2>1, <2>2, <2>3
<1>3. command \in RealtimeCommand /\ command.kind = "publishGraph" /\ command.graph = last + 1
  <2>1. /\ Command("publishGraph") \in RealtimeCommand
        /\ Command("publishGraph").kind = "publishGraph"
    BY CommandType DEF Kind, Command
  <2>2. registry.nextSerial \in Nat
    BY <1>1 DEF TypeOK
  <2> QED BY <1>2, <2>1, <2>2, CommandFields
<1>4. Submit(command)
  BY DEF CommitPreparedSnapshot
<1> HIDE DEF command
<1>5. AppliedAtOnce(command) => realtime'.graph = last + 1 /\ realtime.graph = last
  <2>1. SUFFICES ASSUME AppliedAtOnce(command) PROVE realtime'.graph = last + 1 /\ realtime.graph = last
    OBVIOUS
  <2>2. Len(commands) = 0
    BY <2>1 DEF AppliedAtOnce
  <2>3. realtime.graph \in 0 .. last /\ last \notin realtime.graph + 1 .. last
    BY <1>1, <1>2, <2>2 DEF PublicationsInLine
  <2> QED BY <1>2, <1>3, <2>1, <2>3 DEF AppliedAtOnce
<1>6. Queued(command) => realtime'.graph = realtime.graph
  BY DEF Queued
<1>7. realtime'.graph \in {realtime.graph} \union (IF realtime.graph = last THEN {last + 1} ELSE {})
  BY <1>1, <1>3, <1>4, <1>5, <1>6, SubmitEffect
<1>8. (1 .. last') \ registry'.committed = (1 .. last) \ registry.committed
  BY <1>2
<1> QED BY <1>2, <1>7, <1>8 DEF Lifecycle!Commit

\* Every step of the engine is a step of the lifecycle or a stutter.
LEMMA LifecycleStep == ASSUME IInv, [Next]_vars PROVE [Lifecycle!Next]_(Lifecycle!lifecycleVars)
<1>0. TypeOK /\ RegistryInOrder /\ PublicationsInLine /\ CommandsInOrder
  BY DEF IInv
<1>1. CASE UNCHANGED vars
  BY <1>1, LifecycleKept DEF vars
<1>2. ASSUME NEW kind \in Requests, RequestTransport(kind)
      PROVE  [Lifecycle!Next]_(Lifecycle!lifecycleVars)
  <2>1. Command(kind) \in RealtimeCommand /\ Command(kind).kind # "publishGraph"
    BY CommandType, RequestAssumption DEF Kind, Command, TransportKind
  <2> QED BY <1>0, <1>2, <2>1, SubmitKeepsGraph, LifecycleKept DEF RequestTransport
<1>3. ASSUME NEW same \in BOOLEAN, LoadSnapshot(same)
      PROVE  [Lifecycle!Next]_(Lifecycle!lifecycleVars)
  <2>1. registry'.committed = registry.committed /\ registry'.nextSerial = registry.nextSerial
    BY <1>0, <1>3 DEF LoadSnapshot, TypeOK
  <2> QED BY <1>3, <2>1, LifecycleKept DEF LoadSnapshot, stateVars
<1>4. CASE BeginCommit \/ DiscardPreparedSnapshot \/ ReclaimRetiredGraphs
  <2>1. /\ registry'.committed = registry.committed \ retired
        /\ registry'.nextSerial = registry.nextSerial
    BY <1>0, <1>4 DEF BeginCommit, DiscardPreparedSnapshot, ReclaimRetiredGraphs, ReclaimRetired,
                      Reclaimed, TypeOK
  <2>2. realtime' = realtime
    BY <1>4 DEF BeginCommit, DiscardPreparedSnapshot, ReclaimRetiredGraphs, stateVars
  <2> QED BY <2>1, <2>2, LifecycleReclaimed
<1>5. CASE CommitPreparedSnapshot
  BY <1>5, LifecycleCommitted DEF Lifecycle!Next
<1>6. CASE RefuseCommit \/ FinishParameter \/ CancelParameter \/ BeginDeviceStop
           \/ BeginBlock \/ \E r \in Reader : ReadFrame(r) \/ VisitGraph(r)
  BY <1>6, LifecycleKept DEF RefuseCommit, FinishParameter, CancelParameter, BeginDeviceStop,
       BeginBlock, ReadFrame, VisitGraph, stateVars, graphVars
<1>7. CASE SetDeviceParameter
  <2> DEFINE rack == registry.built[ParameterGraph].devices
             named == [Command("applyDeviceParameters") EXCEPT !.graph = ParameterGraph]
             command == [named EXCEPT !.rack = rack]
  <2>1. ParameterGraph \in Nat /\ rack \in Nat
    BY <1>0, <1>7, BoundAssumption DEF SetDeviceParameter, ParameterGraph, LatestCommitted, RegistryInOrder
  <2>2. named \in RealtimeCommand /\ named.kind = "applyDeviceParameters"
    <3>1. /\ Command("applyDeviceParameters") \in RealtimeCommand
          /\ Command("applyDeviceParameters").kind = "applyDeviceParameters"
      BY CommandType DEF Kind, Command
    <3> QED BY <2>1, <3>1, CommandFields
  <2>3. command \in RealtimeCommand /\ command.kind = "applyDeviceParameters"
    <3> HIDE DEF named, rack
    <3> QED BY <2>1, <2>2, CommandFields
  <2>4. Submit(command) /\ registry' = registry
    BY <1>7 DEF SetDeviceParameter
  <2> HIDE DEF command
  <2> QED BY <1>0, <2>3, <2>4, SubmitKeepsGraph, LifecycleKept
<1>8. CASE FlagDeviceStart
  <2>1. registry'.committed = registry.committed /\ registry'.nextSerial = registry.nextSerial
    BY <1>0, <1>8 DEF FlagDeviceStart, TypeOK
  <2> QED BY <1>8, <2>1, LifecycleKept DEF FlagDeviceStart, stateVars
<1>9. CASE AnnounceDeviceStart
  <2>1. /\ Command("deviceStarted") \in RealtimeCommand
        /\ Command("deviceStarted").kind # "publishGraph"
    BY CommandType DEF Kind, Command
  <2> QED BY <1>0, <1>9, <2>1, SubmitKeepsGraph, LifecycleKept DEF AnnounceDeviceStart
<1>10. CASE HandToAudio \/ TakeControl
  BY <1>10, LifecycleKept DEF HandToAudio, TakeControl, stateVars, graphVars
<1>11. CASE DrainCommand
  <2>1. /\ LineInv' /\ realtime'.graph \in {realtime.graph, realtime.graph + 1}
        /\ registry' = registry
    BY <1>11, LineDrained DEF DrainCommand
  <2>2. LatestCommitted' = LatestCommitted /\ realtime'.graph \in 0 .. LatestCommitted
    BY <2>1 DEF LineInv, PublicationsInLine, LatestCommitted
  <2>3. CASE realtime'.graph = realtime.graph
    BY <2>1, <2>3, LifecycleKept
  <2>4. CASE realtime'.graph = realtime.graph + 1
    <3>1. realtime.graph < LatestCommitted
      <4>1. LatestCommitted \in Nat /\ realtime.graph \in 0 .. LatestCommitted
        BY <1>0, BoundAssumption DEF PublicationsInLine, RegistryInOrder, LatestCommitted
      <4> QED BY <2>2, <2>4, <4>1
    <3> QED BY <2>1, <2>2, <2>4, <3>1 DEF Lifecycle!Publish, Lifecycle!Next
  <2> QED BY <2>1, <2>3, <2>4
<1>12. CASE PublishBlock
  <2>1. realtime'.graph = realtime.graph
    <3>1. realtime \in RealtimeState
      BY <1>0 DEF TypeOK
    <3>2. [realtime EXCEPT !.phase = "recording", !.transport = "playing"].graph = realtime.graph
      BY <3>1 DEF RealtimeState
    <3> QED BY <1>12, <3>2 DEF PublishBlock, CountInAdvanced
  <2> QED BY <1>12, <2>1, LifecycleKept DEF PublishBlock, graphVars
<1>13. CASE RenderBlock
  <2>1. realtime'.graph = realtime.graph
    BY <1>0, <1>13 DEF RenderBlock, TypeOK, RealtimeState
  <2> QED BY <1>13, <2>1, LifecycleKept DEF RenderBlock, graphVars
<1> QED
  BY <1>1, <1>2, <1>3, <1>4, <1>5, <1>6, <1>7, <1>8, <1>9, <1>10, <1>11, <1>12, <1>13
  DEF Next, Task, Device, Audio

\* The engine implements the graph lifecycle: graphs become active in commit
\* order and only a replaced graph is destroyed (ImplementsGraphLifecycle
\* without its liveness, which the run checks).
THEOREM EngineImplementsLifecycle ==
    Spec => Lifecycle!Init /\ [][Lifecycle!Next]_(Lifecycle!lifecycleVars)
<1>1. Init => Lifecycle!Init
  BY DEF Init, Lifecycle!Init, LatestCommitted
<1>2. IInv /\ [Next]_vars => [Lifecycle!Next]_(Lifecycle!lifecycleVars)
  BY LifecycleStep
<1> QED BY <1>1, <1>2, Invariance, PTL DEF Spec

-----------------------------------------------------------------------------
(* The recording controller.                                               *)

IsSet(c) == c.kind = "setRecordingSink"
IsClear(c) == c.kind = "clearRecordingSink"
IsStart(c) == c.kind = "startRecording"

\* The controller's sink is in one place: queued, with the audio thread, or
\* among the retired sinks `back`; no other sink is anywhere.
SinkInLine(state, queue, back, own) ==
    /\ state.sink \in {None, own}
    /\ back \subseteq {own} \ {None}
    /\ state.sink # None => back = {}
    /\ \A i \in 1 .. Len(queue) : IsSet(queue[i]) =>
           queue[i].sink = own /\ own # None /\ state.sink = None /\ back = {}
    /\ \A i, j \in 1 .. Len(queue) : IsSet(queue[i]) /\ IsSet(queue[j]) => i = j
    /\ own # None => state.sink = own \/ own \in back \/ \E i \in 1 .. Len(queue) : IsSet(queue[i])

\* Nothing records and no queued command will.
Quiet(state, queue) == state.phase = "idle" /\ \A i \in 1 .. Len(queue) : ~IsStart(queue[i])

\* When the sink is cleared nothing records.
ClearsInLine(state, queue) ==
    \A i \in 1 .. Len(queue) : IsClear(queue[i]) =>
        state.phase = "idle" /\ \A j \in 1 .. i - 1 : ~IsStart(queue[j])

\* Once stop n has been applied nothing records.
StopInLine(state, queue, n) ==
    \/ Quiet(state, queue)
    \/ /\ state.applied < n
       /\ \E i \in 1 .. Len(queue) :
              /\ queue[i].kind = "stopArrangeRecording" /\ queue[i].sequence = n
              /\ \A j \in 1 .. Len(queue) : IsStart(queue[j]) => j < i

-----------------------------------------------------------------------------
(* A command is queued, the head is applied.                               *)

LEMMA QueuedFacts ==
    ASSUME NEW queue \in Seq(RealtimeCommand), NEW c \in RealtimeCommand
    PROVE  /\ Append(queue, c) \in Seq(RealtimeCommand)
           /\ Len(Append(queue, c)) = Len(queue) + 1 /\ Len(queue) \in Nat
           /\ \A i \in 1 .. Len(queue) : Append(queue, c)[i] = queue[i]
           /\ Append(queue, c)[Len(queue) + 1] = c
  OBVIOUS

LEMMA TakenFacts ==
    ASSUME NEW queue \in Seq(RealtimeCommand), queue # <<>>
    PROVE  /\ Tail(queue) \in Seq(RealtimeCommand)
           /\ Len(Tail(queue)) = Len(queue) - 1 /\ Len(queue) \in Nat /\ Len(queue) >= 1
           /\ \A i \in 1 .. Len(Tail(queue)) : Tail(queue)[i] = queue[i + 1]
           /\ Head(queue) = queue[1] /\ Head(queue) \in RealtimeCommand
  OBVIOUS

\* What an applied command does to the recording and its sink.
LEMMA AppliedRecording ==
    ASSUME NEW state \in RealtimeState, NEW c \in RealtimeCommand
    PROVE  /\ Applied(state, c).sink = IF IsSet(c) THEN c.sink
                                       ELSE IF IsClear(c) THEN None ELSE state.sink
           /\ ~IsStart(c) /\ state.phase = "idle" => Applied(state, c).phase = "idle"
           /\ c.kind = "stopArrangeRecording" => Applied(state, c).phase = "idle"
           /\ IsSet(c) \/ IsClear(c) => Applied(state, c).phase = state.phase
<1>1. c.kind \in Kind /\ c.sequence \in Nat /\ c.graph \in Nat /\ c.sink \in Sink \union {None}
  BY DEF RealtimeCommand
<1>2. /\ Play(state) \in RealtimeState /\ Play(state).sink = state.sink /\ Play(state).phase = state.phase
      /\ Pause(state) \in RealtimeState /\ Pause(state).sink = state.sink /\ Pause(state).phase = state.phase
      /\ Stop(state) \in RealtimeState /\ Stop(state).sink = state.sink /\ Stop(state).phase = "idle"
  BY DEF RealtimeState, Play, Pause, Stop
<1>3. /\ StartRecordingNow(state, c.countIn) \in RealtimeState
      /\ StartRecordingNow(state, c.countIn).sink = state.sink
  BY DEF RealtimeState, StartRecordingNow
<1>4. /\ StopArrangeRecording(state) \in RealtimeState
      /\ StopArrangeRecording(state).sink = state.sink
      /\ StopArrangeRecording(state).phase = "idle"
  BY DEF RealtimeState, StopArrangeRecording
<1>5. \A s \in RealtimeState : /\ [s EXCEPT !.applied = c.sequence].sink = s.sink
                               /\ [s EXCEPT !.applied = c.sequence].phase = s.phase
  BY <1>1 DEF RealtimeState
<1>6. /\ [state EXCEPT !.transport = "starting"] \in RealtimeState
      /\ [state EXCEPT !.graph = c.graph] \in RealtimeState
      /\ [state EXCEPT !.sink = c.sink] \in RealtimeState
      /\ [state EXCEPT !.sink = None] \in RealtimeState
      /\ [state EXCEPT !.transport = "starting"].sink = state.sink
      /\ [state EXCEPT !.graph = c.graph].sink = state.sink
      /\ [state EXCEPT !.sink = c.sink].sink = c.sink
      /\ [state EXCEPT !.sink = None].sink = None
      /\ [state EXCEPT !.transport = "starting"].phase = state.phase
      /\ [state EXCEPT !.graph = c.graph].phase = state.phase
      /\ [state EXCEPT !.sink = c.sink].phase = state.phase
      /\ [state EXCEPT !.sink = None].phase = state.phase
  BY <1>1 DEF RealtimeState
<1> QED BY <1>1, <1>2, <1>3, <1>4, <1>5, <1>6 DEF Applied, IsSet, IsClear, IsStart

\* A command is queued.
LEMMA QueuedSinks ==
    ASSUME NEW state \in RealtimeState, NEW queue \in Seq(RealtimeCommand), NEW c \in RealtimeCommand,
           NEW back, NEW own, SinkInLine(state, queue, back, own)
    PROVE  /\ ~IsSet(c) => SinkInLine(state, Append(queue, c), back, own)
           /\ IsSet(c) /\ own = None /\ c.sink # None => SinkInLine(state, Append(queue, c), back, c.sink)
<1>1. \A i \in 1 .. Len(Append(queue, c)) : i \in 1 .. Len(queue) \/ i = Len(queue) + 1
  BY QueuedFacts
<1>2. CASE ~IsSet(c)
  BY <1>1, <1>2, QueuedFacts DEF SinkInLine
<1>3. CASE IsSet(c) /\ own = None /\ c.sink # None
  <2>1. state.sink = None /\ back = {} /\ \A i \in 1 .. Len(queue) : ~IsSet(queue[i])
    BY <1>3 DEF SinkInLine
  <2>2. Len(queue) + 1 \in 1 .. Len(Append(queue, c))
    BY QueuedFacts
  <2> QED BY <1>1, <1>3, <2>1, <2>2, QueuedFacts DEF SinkInLine
<1> QED BY <1>2, <1>3

LEMMA QueuedLine ==
    ASSUME NEW state \in RealtimeState, NEW queue \in Seq(RealtimeCommand), NEW c \in RealtimeCommand
    PROVE  /\ ~IsStart(c) /\ Quiet(state, queue) => Quiet(state, Append(queue, c))
           /\ ClearsInLine(state, queue) /\ (IsClear(c) => Quiet(state, queue))
                  => ClearsInLine(state, Append(queue, c))
           /\ \A n \in Nat : ~IsStart(c) /\ StopInLine(state, queue, n)
                  => StopInLine(state, Append(queue, c), n)
<1> DEFINE longer == Append(queue, c)
<1>1. /\ Len(longer) = Len(queue) + 1 /\ Len(queue) \in Nat
      /\ \A i \in 1 .. Len(queue) : longer[i] = queue[i]
      /\ longer[Len(queue) + 1] = c
      /\ \A i \in 1 .. Len(longer) : i \in 1 .. Len(queue) \/ i = Len(queue) + 1
  BY QueuedFacts
<1> HIDE DEF longer
<1>2. ~IsStart(c) /\ Quiet(state, queue) => Quiet(state, longer)
  BY <1>1 DEF Quiet
<1>3. ClearsInLine(state, queue) /\ (IsClear(c) => Quiet(state, queue)) => ClearsInLine(state, longer)
  BY <1>1 DEF ClearsInLine, Quiet
<1>4. ASSUME NEW n \in Nat, ~IsStart(c), StopInLine(state, queue, n)
      PROVE  StopInLine(state, longer, n)
  BY <1>1, <1>2, <1>4 DEF StopInLine
<1> QED BY <1>2, <1>3, <1>4 DEF longer

\* The head is applied.
LEMMA AppliedSinks ==
    ASSUME NEW state \in RealtimeState, NEW queue \in Seq(RealtimeCommand), queue # <<>>,
           NEW back, NEW own, SinkInLine(state, queue, back, own)
    PROVE  SinkInLine(Applied(state, Head(queue)), Tail(queue),
                      back \union SinkRetired(state, Head(queue)), own)
<1> DEFINE c == Head(queue)
           next == Applied(state, c)
           rest == Tail(queue)
           all == back \union SinkRetired(state, c)
<1>1. /\ Len(rest) = Len(queue) - 1 /\ Len(queue) \in Nat /\ Len(queue) >= 1
      /\ \A i \in 1 .. Len(rest) : rest[i] = queue[i + 1] /\ i + 1 \in 1 .. Len(queue)
      /\ c = queue[1] /\ 1 \in 1 .. Len(queue)
      /\ \A i \in 1 .. Len(queue) : i = 1 \/ (i - 1 \in 1 .. Len(rest) /\ rest[i - 1] = queue[i])
  BY TakenFacts
<1>2. next.sink = IF IsSet(c) THEN c.sink ELSE IF IsClear(c) THEN None ELSE state.sink
  BY AppliedRecording, TakenFacts
<1>3. all = IF (IsSet(c) \/ IsClear(c)) /\ state.sink # None THEN back \union {state.sink} ELSE back
  BY DEF SinkRetired, IsSet, IsClear
<1>4. ~(IsSet(c) /\ IsClear(c))
  BY DEF IsSet, IsClear
<1> SUFFICES SinkInLine(next, rest, all, own)
  OBVIOUS
<1> HIDE DEF next, rest, all, c
<1>5. CASE IsSet(c)
  <2>1. state.sink = None /\ back = {} /\ c.sink = own /\ own # None
    BY <1>1, <1>5 DEF SinkInLine
  <2>2. \A i \in 1 .. Len(rest) : ~IsSet(rest[i])
    BY <1>1, <1>5 DEF SinkInLine
  <2> QED BY <1>2, <1>3, <1>5, <2>1, <2>2 DEF SinkInLine
<1>6. CASE IsClear(c)
  <2>1. next.sink = None /\ all \subseteq {own} \ {None}
    BY <1>2, <1>3, <1>4, <1>6 DEF SinkInLine
  <2>2. \A i \in 1 .. Len(rest) : IsSet(rest[i]) => all = {} /\ rest[i].sink = own /\ own # None
    BY <1>1, <1>3, <1>6 DEF SinkInLine
  <2>3. \A i, j \in 1 .. Len(rest) : IsSet(rest[i]) /\ IsSet(rest[j]) => i = j
    BY <1>1 DEF SinkInLine
  <2>4. own # None => own \in all \/ \E i \in 1 .. Len(rest) : IsSet(rest[i])
    <3>1. CASE state.sink = own
      BY <1>3, <1>6, <3>1
    <3>2. CASE own \in back
      BY <1>3, <3>2
    <3>3. ASSUME NEW i \in 1 .. Len(queue), IsSet(queue[i])
          PROVE  i - 1 \in 1 .. Len(rest) /\ IsSet(rest[i - 1])
      BY <1>1, <1>4, <1>6, <3>3
    <3> QED BY <3>1, <3>2, <3>3 DEF SinkInLine
  <2> QED BY <2>1, <2>2, <2>3, <2>4 DEF SinkInLine
<1>7. CASE ~IsSet(c) /\ ~IsClear(c)
  <2>1. next.sink = state.sink /\ all = back
    BY <1>2, <1>3, <1>7
  <2>2. \A i \in 1 .. Len(rest) : IsSet(rest[i]) =>
            rest[i].sink = own /\ own # None /\ state.sink = None /\ back = {}
    BY <1>1 DEF SinkInLine
  <2>3. \A i, j \in 1 .. Len(rest) : IsSet(rest[i]) /\ IsSet(rest[j]) => i = j
    BY <1>1 DEF SinkInLine
  <2>4. \A i \in 1 .. Len(queue) : IsSet(queue[i]) => i - 1 \in 1 .. Len(rest) /\ IsSet(rest[i - 1])
    BY <1>1, <1>7
  <2> QED BY <2>1, <2>2, <2>3, <2>4 DEF SinkInLine
<1> QED BY <1>5, <1>6, <1>7

LEMMA AppliedLine ==
    ASSUME NEW state \in RealtimeState, NEW queue \in Seq(RealtimeCommand), queue # <<>>,
           \A i \in 1 .. Len(queue) : queue[i].sequence = state.applied + i
    PROVE  LET next == Applied(state, Head(queue))
               rest == Tail(queue)
           IN /\ Quiet(state, queue) => Quiet(next, rest)
              /\ ClearsInLine(state, queue) => ClearsInLine(next, rest)
              /\ \A n \in Nat : StopInLine(state, queue, n) => StopInLine(next, rest, n)
<1> DEFINE c == Head(queue)
           next == Applied(state, c)
           rest == Tail(queue)
<1>1. /\ Len(rest) = Len(queue) - 1 /\ Len(queue) \in Nat /\ Len(queue) >= 1
      /\ \A i \in 1 .. Len(rest) : rest[i] = queue[i + 1] /\ i + 1 \in 1 .. Len(queue)
      /\ c = queue[1] /\ 1 \in 1 .. Len(queue)
      /\ \A i \in 1 .. Len(queue) : i = 1 \/ (i - 1 \in 1 .. Len(rest) /\ rest[i - 1] = queue[i])
  BY TakenFacts
<1>2. /\ ~IsStart(c) /\ state.phase = "idle" => next.phase = "idle"
      /\ c.kind = "stopArrangeRecording" => next.phase = "idle"
      /\ next.applied = state.applied + 1 /\ state.applied \in Nat
  <2>1. c \in RealtimeCommand /\ c.sequence = state.applied + 1
    BY <1>1, TakenFacts
  <2> HIDE DEF c
  <2>2. next.applied = c.sequence
    BY <2>1, AppliedType
  <2>3. state.applied \in Nat
    BY DEF RealtimeState
  <2> QED BY <2>1, <2>2, <2>3, AppliedRecording
<1> HIDE DEF next, rest, c
<1>3. Quiet(state, queue) => Quiet(next, rest)
  BY <1>1, <1>2 DEF Quiet
<1>4. ClearsInLine(state, queue) => ClearsInLine(next, rest)
  <2> SUFFICES ASSUME ClearsInLine(state, queue), NEW i \in 1 .. Len(rest), IsClear(rest[i])
               PROVE  next.phase = "idle" /\ \A j \in 1 .. i - 1 : ~IsStart(rest[j])
    BY DEF ClearsInLine
  <2>1. i + 1 \in 1 .. Len(queue) /\ IsClear(queue[i + 1])
    BY <1>1
  <2>2. state.phase = "idle" /\ \A j \in 1 .. i : ~IsStart(queue[j])
    <3>1. i \in Nat /\ (i + 1) - 1 = i
      BY <1>1
    <3> QED BY <2>1, <3>1 DEF ClearsInLine
  <2>3. ~IsStart(c)
    BY <1>1, <2>2
  <2>4. \A j \in 1 .. i - 1 : j \in 1 .. Len(rest) /\ j + 1 \in 1 .. i
    BY <1>1
  <2>5. \A j \in 1 .. i - 1 : ~IsStart(rest[j])
    BY <1>1, <2>2, <2>4
  <2> QED BY <1>2, <2>2, <2>3, <2>5
<1>5. ASSUME NEW n \in Nat, StopInLine(state, queue, n) PROVE StopInLine(next, rest, n)
  <2>1. CASE Quiet(state, queue)
    BY <1>3, <2>1 DEF StopInLine
  <2>2. ASSUME NEW i \in 1 .. Len(queue), queue[i].kind = "stopArrangeRecording", queue[i].sequence = n,
               \A j \in 1 .. Len(queue) : IsStart(queue[j]) => j < i
        PROVE  StopInLine(next, rest, n)
    <3>1. CASE i = 1
      <4>1. \A j \in 1 .. Len(rest) : ~IsStart(rest[j])
        BY <1>1, <2>2, <3>1
      <4> QED BY <1>1, <1>2, <2>2, <3>1, <4>1 DEF StopInLine, Quiet
    <3>2. CASE i # 1
      <4>1. i - 1 \in 1 .. Len(rest) /\ rest[i - 1] = queue[i]
        BY <1>1, <3>2
      <4>2. \A j \in 1 .. Len(rest) : IsStart(rest[j]) => j < i - 1
        BY <1>1, <2>2
      <4>3. next.applied < n
        BY <1>2, <2>2, <3>2
      <4> QED BY <2>2, <4>1, <4>2, <4>3 DEF StopInLine
    <3> QED BY <3>1, <3>2
  <2> QED BY <1>5, <2>1, <2>2 DEF StopInLine
<1> QED BY <1>3, <1>4, <1>5 DEF next, rest, c

-----------------------------------------------------------------------------
(* The line of the engine's own state.                                     *)

SinksNow(own) == SinkInLine(realtime, commands, sinks.retired, own)
QuietNow == Quiet(realtime, commands)
ClearsNow == ClearsInLine(realtime, commands)
StopNow(n) == StopInLine(realtime, commands, n)

\* The frame shows no command that has not been applied.
FrameIsBehind == frame.applied <= realtime.applied

\* A submitted command is numbered, and queued or queued and applied.
LEMMA SubmittedMoves ==
    ASSUME TypeOK, CommandsInOrder, NEW command \in RealtimeCommand, Submit(command)
    PROVE  \E numbered \in RealtimeCommand :
              /\ numbered.kind = command.kind /\ numbered.sink = command.sink
              /\ numbered.sequence = nextCommand
              /\ \/ /\ commands = <<>> /\ commands' = <<>>
                    /\ realtime' = Applied(realtime, numbered)
                    /\ sinks'.retired = sinks.retired \union SinkRetired(realtime, numbered)
                    /\ frame'.applied = realtime'.applied
                 \/ /\ commands' = Append(commands, numbered)
                    /\ realtime' = realtime /\ sinks' = sinks /\ frame' = frame
<1> DEFINE numbered == [command EXCEPT !.sequence = nextCommand]
<1>1. /\ numbered \in RealtimeCommand /\ numbered.kind = command.kind
      /\ numbered.sink = command.sink /\ numbered.sequence = nextCommand
  BY DEF TypeOK, RealtimeCommand
<1>2. CASE owner = "control" /\ ApplyRealtimeCommand(numbered) /\ frame' = FrameOf(realtime')
           /\ UNCHANGED commands
  <2>1. commands = <<>>
    BY <1>2 DEF CommandsInOrder
  <2>2. sinks'.retired = sinks.retired \union SinkRetired(realtime, numbered)
    BY <1>2 DEF ApplyRealtimeCommand, TypeOK
  <2>3. frame'.applied = realtime'.applied
    BY <1>2 DEF FrameOf
  <2> QED BY <1>1, <1>2, <2>1, <2>2, <2>3 DEF ApplyRealtimeCommand
<1>3. CASE owner = "audio" /\ commands' = Append(commands, numbered)
           /\ UNCHANGED <<stateVars, retired, racks, frame>>
  BY <1>1, <1>3 DEF stateVars
<1> QED BY <1>2, <1>3 DEF Submit

\* A command alone in the queue is its head, and nothing is behind it.
LEMMA SingleCommand ==
    ASSUME NEW c \in RealtimeCommand
    PROVE  /\ Append(<<>>, c) \in Seq(RealtimeCommand) /\ Append(<<>>, c) # <<>>
           /\ Head(Append(<<>>, c)) = c /\ Tail(Append(<<>>, c)) = <<>>
           /\ Len(Append(<<>>, c)) = 1 /\ Append(<<>>, c)[1] = c
           /\ <<>> \in Seq(RealtimeCommand)
  OBVIOUS

LEMMA SubmittedSinks ==
    ASSUME TypeOK, CommandsInOrder, NEW command \in RealtimeCommand, Submit(command),
           NEW own, SinksNow(own)
    PROVE  /\ ~IsSet(command) => SinkInLine(realtime', commands', sinks'.retired, own)
           /\ IsSet(command) /\ own = None /\ command.sink # None =>
                  SinkInLine(realtime', commands', sinks'.retired, command.sink)
<1>1. realtime \in RealtimeState /\ commands \in Seq(RealtimeCommand)
  BY DEF TypeOK
<1>2. PICK c \in RealtimeCommand :
          /\ c.kind = command.kind /\ c.sink = command.sink
          /\ \/ /\ commands = <<>> /\ commands' = <<>>
                /\ realtime' = Applied(realtime, c)
                /\ sinks'.retired = sinks.retired \union SinkRetired(realtime, c)
             \/ commands' = Append(commands, c) /\ realtime' = realtime /\ sinks' = sinks
  BY SubmittedMoves
<1>3. IsSet(c) = IsSet(command)
  BY <1>2 DEF IsSet
<1>4. /\ ~IsSet(c) => SinkInLine(realtime, Append(commands, c), sinks.retired, own)
      /\ IsSet(c) /\ own = None /\ c.sink # None =>
             SinkInLine(realtime, Append(commands, c), sinks.retired, c.sink)
  BY <1>1, QueuedSinks DEF SinksNow
<1>5. CASE commands' = Append(commands, c) /\ realtime' = realtime /\ sinks' = sinks
  BY <1>2, <1>3, <1>4, <1>5 DEF SinksNow
<1>6. CASE /\ commands = <<>> /\ commands' = <<>>
           /\ realtime' = Applied(realtime, c)
           /\ sinks'.retired = sinks.retired \union SinkRetired(realtime, c)
  <2>1. ASSUME NEW of, SinkInLine(realtime, Append(<<>>, c), sinks.retired, of)
        PROVE  SinkInLine(realtime', commands', sinks'.retired, of)
    <3> DEFINE queue == Append(<<>>, c)
    <3>1. queue \in Seq(RealtimeCommand) /\ queue # <<>> /\ Head(queue) = c /\ Tail(queue) = <<>>
      BY SingleCommand
    <3>2. SinkInLine(realtime, queue, sinks.retired, of)
      BY <2>1
    <3> HIDE DEF queue
    <3>3. SinkInLine(Applied(realtime, Head(queue)), Tail(queue),
                     sinks.retired \union SinkRetired(realtime, Head(queue)), of)
      BY <1>1, <3>1, <3>2, AppliedSinks
    <3> QED BY <1>6, <3>1, <3>3
  <2> QED BY <1>2, <1>3, <1>4, <1>6, <2>1 DEF SinksNow
<1> QED BY <1>2, <1>5, <1>6

LEMMA SubmittedLine ==
    ASSUME TypeOK, CommandsInOrder, NEW command \in RealtimeCommand, Submit(command), FrameIsBehind
    PROVE  /\ ~IsStart(command) /\ QuietNow => QuietNow'
           /\ ClearsNow /\ (IsClear(command) => QuietNow) => ClearsNow'
           /\ \A n \in Nat : ~IsStart(command) /\ StopNow(n) => StopNow(n)'
           /\ FrameIsBehind'
           /\ command.kind = "stopArrangeRecording" => StopInLine(realtime', commands', nextCommand)
<1>1. /\ realtime \in RealtimeState /\ commands \in Seq(RealtimeCommand) /\ nextCommand \in Nat
      /\ nextCommand = realtime.applied + Len(commands) + 1
      /\ realtime.applied \in Nat /\ Len(commands) \in Nat
  BY DEF TypeOK, CommandsInOrder, RealtimeState
<1>2. PICK c \in RealtimeCommand :
          /\ c.kind = command.kind /\ c.sequence = nextCommand
          /\ \/ /\ commands = <<>> /\ commands' = <<>>
                /\ realtime' = Applied(realtime, c)
                /\ frame'.applied = realtime'.applied
             \/ commands' = Append(commands, c) /\ realtime' = realtime /\ frame' = frame
  BY SubmittedMoves
<1>3. IsStart(c) = IsStart(command) /\ IsClear(c) = IsClear(command)
  BY <1>2 DEF IsStart, IsClear
<1>4. /\ ~IsStart(c) /\ QuietNow => Quiet(realtime, Append(commands, c))
      /\ ClearsNow /\ (IsClear(c) => QuietNow) => ClearsInLine(realtime, Append(commands, c))
      /\ \A n \in Nat : ~IsStart(c) /\ StopNow(n) => StopInLine(realtime, Append(commands, c), n)
  BY <1>1, QueuedLine DEF QuietNow, ClearsNow, StopNow
<1>5. CASE commands' = Append(commands, c) /\ realtime' = realtime /\ frame' = frame
  <2>1. c.kind = "stopArrangeRecording" => StopInLine(realtime', commands', nextCommand)
    <3>1. /\ Len(commands') = Len(commands) + 1
          /\ commands'[Len(commands) + 1] = c
      BY <1>1, <1>5, QueuedFacts
    <3>2. \A j \in 1 .. Len(commands') :
              j < Len(commands) + 1 \/ commands'[j] = c
      BY <1>1, <3>1
    <3>3. c.kind = "stopArrangeRecording" => ~IsStart(c)
      BY DEF IsStart
    <3>4. c.kind = "stopArrangeRecording" =>
              \A j \in 1 .. Len(commands') : IsStart(commands'[j]) => j < Len(commands) + 1
      BY <3>2, <3>3
    <3>5. realtime'.applied < nextCommand /\ Len(commands) + 1 \in 1 .. Len(commands')
      BY <1>1, <1>5, <3>1
    <3> QED BY <1>2, <3>1, <3>4, <3>5 DEF StopNow, StopInLine
  <2> QED BY <1>2, <1>3, <1>4, <1>5, <2>1 DEF QuietNow, ClearsNow, StopNow, FrameIsBehind
<1>6. CASE commands = <<>> /\ commands' = <<>> /\ realtime' = Applied(realtime, c)
           /\ frame'.applied = realtime'.applied
  <2>1. /\ Append(<<>>, c) # <<>> /\ Append(<<>>, c) \in Seq(RealtimeCommand)
        /\ Head(Append(<<>>, c)) = c /\ Tail(Append(<<>>, c)) = <<>>
        /\ \A i \in 1 .. Len(Append(<<>>, c)) : Append(<<>>, c)[i].sequence = realtime.applied + i
    BY <1>1, <1>2, <1>6, SingleCommand
  <2>2. /\ Quiet(realtime, Append(<<>>, c)) => QuietNow'
        /\ ClearsInLine(realtime, Append(<<>>, c)) => ClearsNow'
        /\ \A n \in Nat : StopInLine(realtime, Append(<<>>, c), n) => StopNow(n)'
    BY <1>1, <1>6, <2>1, AppliedLine DEF QuietNow, ClearsNow, StopNow
  <2>3. c.kind = "stopArrangeRecording" => StopInLine(realtime', commands', nextCommand)
    BY <1>1, <1>6, AppliedRecording DEF StopNow, StopInLine, Quiet
  <2>4. FrameIsBehind'
    <3>1. realtime'.applied = c.sequence
      BY <1>1, <1>6, AppliedType
    <3> QED BY <1>1, <1>2, <1>6, <3>1 DEF FrameIsBehind
  <2> QED BY <1>2, <1>3, <1>4, <1>6, <2>2, <2>3, <2>4
<1> QED BY <1>2, <1>5, <1>6

-----------------------------------------------------------------------------
(* Steps of the engine.                                                    *)

\* The audio thread lets a sink go only while nothing records.
SinkRests == realtime.sink # None /\ realtime'.sink # realtime.sink => realtime.phase = "idle"

\* Whatever the line says of the sinks, of a start and of the stops still holds.
KeepsLine ==
    /\ \A own : SinksNow(own) /\ ClearsNow => SinkRests
    /\ \A own : SinksNow(own) => SinkInLine(realtime', commands', sinks'.retired, own)
    /\ QuietNow => QuietNow'
    /\ ClearsNow => ClearsNow'
    /\ \A n \in Nat : StopNow(n) => StopNow(n)'

\* A step that leaves queue, sink and phase alone.
LEMMA CalmLine ==
    ASSUME commands' = commands, realtime'.sink = realtime.sink, realtime'.phase = realtime.phase,
           realtime'.applied = realtime.applied, sinks'.retired = sinks.retired
    PROVE  KeepsLine
<1>1. QuietNow' = QuietNow
  BY DEF QuietNow, Quiet
<1>2. ClearsNow => ClearsNow'
  BY DEF ClearsNow, ClearsInLine
<1>3. \A n \in Nat : StopNow(n) => StopNow(n)'
  BY DEF StopNow, StopInLine, Quiet
<1>4. \A own : SinksNow(own) => SinkInLine(realtime', commands', sinks'.retired, own)
  BY DEF SinksNow, SinkInLine
<1> QED BY <1>1, <1>2, <1>3, <1>4 DEF KeepsLine, SinkRests

\* A submitted command takes no sink from a recording.
LEMMA SubmittedRests ==
    ASSUME TypeOK, CommandsInOrder, NEW command \in RealtimeCommand, Submit(command),
           IsSet(command) => realtime.sink = None, IsClear(command) => QuietNow
    PROVE  SinkRests
<1>1. PICK c \in RealtimeCommand :
          /\ c.kind = command.kind
          /\ realtime' = Applied(realtime, c) \/ realtime' = realtime
  BY SubmittedMoves
<1>2. IsSet(c) = IsSet(command) /\ IsClear(c) = IsClear(command)
  BY <1>1 DEF IsSet, IsClear
<1>3. realtime \in RealtimeState
  BY DEF TypeOK
<1>4. Applied(realtime, c).sink = IF IsSet(c) THEN c.sink
                                 ELSE IF IsClear(c) THEN None ELSE realtime.sink
  BY <1>3, AppliedRecording
<1> QED BY <1>1, <1>2, <1>4 DEF SinkRests, QuietNow, Quiet

\* A command of no concern to recordings.
LEMMA OtherCommand ==
    ASSUME TypeOK, CommandsInOrder, FrameIsBehind, NEW command \in RealtimeCommand, Submit(command),
           ~IsSet(command), ~IsClear(command), ~IsStart(command)
    PROVE  KeepsLine /\ FrameIsBehind'
<1>1. \A own : SinksNow(own) => SinkInLine(realtime', commands', sinks'.retired, own)
  BY SubmittedSinks
<1>2. SinkRests
  BY SubmittedRests
<1> QED BY <1>1, <1>2, SubmittedLine DEF KeepsLine

\* The audio thread, or a device stop, applies the head.
LEMMA DrainLine ==
    ASSUME TypeOK, CommandsInOrder, FrameIsBehind, DrainCommand
    PROVE  KeepsLine /\ FrameIsBehind'
<1>1. /\ realtime \in RealtimeState /\ commands \in Seq(RealtimeCommand) /\ commands # <<>>
      /\ \A i \in 1 .. Len(commands) : commands[i].sequence = realtime.applied + i
  BY DEF TypeOK, CommandsInOrder, DrainCommand
<1>2. /\ realtime' = Applied(realtime, Head(commands)) /\ commands' = Tail(commands)
      /\ frame' = frame
  BY DEF DrainCommand, ApplyRealtimeCommand
<1>3. sinks'.retired = sinks.retired \union SinkRetired(realtime, Head(commands))
  BY DEF DrainCommand, ApplyRealtimeCommand, TypeOK
<1>4. \A own : SinksNow(own) => SinkInLine(realtime', commands', sinks'.retired, own)
  BY <1>1, <1>2, <1>3, AppliedSinks DEF SinksNow
<1>5. /\ QuietNow => QuietNow'
      /\ ClearsNow => ClearsNow'
      /\ \A n \in Nat : StopNow(n) => StopNow(n)'
  BY <1>1, <1>2, AppliedLine DEF QuietNow, ClearsNow, StopNow
<1>6. FrameIsBehind'
  <2>1. /\ Head(commands) \in RealtimeCommand /\ Head(commands) = commands[1]
        /\ 1 \in 1 .. Len(commands)
    BY <1>1, TakenFacts
  <2>2. realtime'.applied = realtime.applied + 1
    BY <1>1, <1>2, <2>1, AppliedType
  <2>3. realtime.applied \in Nat /\ frame.applied \in Nat
    BY DEF TypeOK, RealtimeState, RealtimeFrame
  <2> QED BY <1>2, <2>2, <2>3 DEF FrameIsBehind
<1>7. ASSUME NEW own, SinksNow(own), ClearsNow PROVE SinkRests
  <2> DEFINE c == Head(commands)
  <2>1. c \in RealtimeCommand /\ c = commands[1] /\ 1 \in 1 .. Len(commands)
    BY <1>1, TakenFacts
  <2>2. IsSet(c) => realtime.sink = None
    BY <1>7, <2>1 DEF SinksNow, SinkInLine
  <2>3. IsClear(c) => realtime.phase = "idle"
    BY <1>7, <2>1 DEF ClearsNow, ClearsInLine
  <2> HIDE DEF c
  <2>4. Applied(realtime, c).sink = IF IsSet(c) THEN c.sink
                                   ELSE IF IsClear(c) THEN None ELSE realtime.sink
    BY <1>1, <2>1, AppliedRecording
  <2>5. realtime' = Applied(realtime, c)
    BY <1>2 DEF c
  <2> QED BY <2>2, <2>3, <2>4, <2>5 DEF SinkRests
<1> QED BY <1>4, <1>5, <1>6, <1>7 DEF KeepsLine

\* A block publishes; the count-in it may end is not one that a stop has ended.
LEMMA BlockLine ==
    ASSUME TypeOK, PublishBlock
    PROVE  KeepsLine /\ FrameIsBehind'
<1> DEFINE started == [realtime EXCEPT !.phase = "recording", !.transport = "playing"]
<1>1. /\ commands = <<>> /\ commands' = commands /\ sinks' = sinks
      /\ frame'.applied = realtime'.applied
      /\ realtime' = realtime \/ (realtime.phase = "countingIn" /\ realtime' = started)
  BY DEF PublishBlock, CountInAdvanced, queueVars, FrameOf
<1>2. started.sink = realtime.sink /\ started.applied = realtime.applied
      /\ realtime.applied \in Nat
  BY DEF TypeOK, RealtimeState
<1> HIDE DEF started
<1>3. FrameIsBehind'
  BY <1>1, <1>2 DEF FrameIsBehind
<1>4. CASE realtime' = realtime
  BY <1>1, <1>3, <1>4, CalmLine
<1>5. CASE realtime.phase = "countingIn" /\ realtime' = started
  <2>1. ~QuietNow /\ \A n \in Nat : ~StopNow(n)
    BY <1>1, <1>5 DEF QuietNow, StopNow, StopInLine, Quiet
  <2>2. ClearsNow'
    BY <1>1 DEF ClearsNow, ClearsInLine
  <2>3. \A own : SinksNow(own) => SinkInLine(realtime', commands', sinks'.retired, own)
    BY <1>1, <1>2, <1>5 DEF SinksNow, SinkInLine
  <2>4. SinkRests
    BY <1>2, <1>5 DEF SinkRests
  <2> QED BY <1>3, <2>1, <2>2, <2>3, <2>4 DEF KeepsLine
<1> QED BY <1>1, <1>4, <1>5

\* Every step of the engine keeps the line.
LEMMA EngineLine ==
    ASSUME IInv, FrameIsBehind, Next
    PROVE  KeepsLine /\ FrameIsBehind'
<1>0. TypeOK /\ CommandsInOrder
  BY DEF IInv
<1>1. ASSUME commands' = commands, realtime' = realtime, sinks' = sinks,
             frame' = frame \/ frame' = FrameOf(realtime)
      PROVE  KeepsLine /\ FrameIsBehind'
  <2>1. realtime.applied \in Nat
    BY <1>0 DEF TypeOK, RealtimeState
  <2> QED BY <1>1, <2>1, CalmLine DEF FrameIsBehind, FrameOf
<1>2. ASSUME NEW kind \in Requests, RequestTransport(kind) PROVE KeepsLine /\ FrameIsBehind'
  <2>1. kind \in TransportKind /\ kind \in Kind
    BY RequestAssumption DEF Kind
  <2>2. /\ Command(kind) \in RealtimeCommand /\ Submit(Command(kind))
        /\ ~IsSet(Command(kind)) /\ ~IsClear(Command(kind)) /\ ~IsStart(Command(kind))
    BY <1>2, <2>1, CommandType DEF RequestTransport, Command, IsSet, IsClear, IsStart, TransportKind
  <2> QED BY <1>0, <2>2, OtherCommand
<1>3. CASE CommitPreparedSnapshot
  <2> DEFINE command == [Command("publishGraph") EXCEPT !.graph = registry.nextSerial]
  <2>1. /\ command \in RealtimeCommand /\ command.kind = "publishGraph" /\ Submit(command)
    BY <1>0, <1>3, CommandType, CommandFields DEF CommitPreparedSnapshot, TypeOK, Kind, Command
  <2> HIDE DEF command
  <2> QED BY <1>0, <2>1, OtherCommand DEF IsSet, IsClear, IsStart
<1>4. CASE SetDeviceParameter
  <2> DEFINE rack == registry.built[ParameterGraph].devices
             named == [Command("applyDeviceParameters") EXCEPT !.graph = ParameterGraph]
             command == [named EXCEPT !.rack = rack]
  <2>1. ParameterGraph \in Nat /\ rack \in Nat
    <3>1. RegistryInOrder
      BY DEF IInv
    <3> QED BY <1>0, <1>4, <3>1, BoundAssumption
        DEF SetDeviceParameter, ParameterGraph, LatestCommitted, RegistryInOrder
  <2>2. named \in RealtimeCommand /\ named.kind = "applyDeviceParameters"
    <3>1. /\ Command("applyDeviceParameters") \in RealtimeCommand
          /\ Command("applyDeviceParameters").kind = "applyDeviceParameters"
      BY CommandType DEF Kind, Command
    <3> QED BY <2>1, <3>1, CommandFields
  <2>3. command \in RealtimeCommand /\ command.kind = "applyDeviceParameters"
    <3> HIDE DEF named, rack
    <3> QED BY <2>1, <2>2, CommandFields
  <2>4. Submit(command)
    BY <1>4 DEF SetDeviceParameter
  <2> HIDE DEF command
  <2> QED BY <1>0, <2>3, <2>4, OtherCommand DEF IsSet, IsClear, IsStart
<1>5. CASE AnnounceDeviceStart
  <2>1. /\ Command("deviceStarted") \in RealtimeCommand /\ Submit(Command("deviceStarted"))
        /\ Command("deviceStarted").kind = "deviceStarted"
    BY <1>5, CommandType DEF AnnounceDeviceStart, Kind, Command
  <2> QED BY <1>0, <2>1, OtherCommand DEF IsSet, IsClear, IsStart
<1>6. ASSUME NEW same \in BOOLEAN, LoadSnapshot(same) PROVE KeepsLine /\ FrameIsBehind'
  BY <1>1, <1>6 DEF LoadSnapshot, queueVars, stateVars
<1>7. CASE BeginCommit \/ RefuseCommit \/ DiscardPreparedSnapshot \/ ReclaimRetiredGraphs
           \/ FinishParameter \/ CancelParameter
  BY <1>1, <1>7 DEF BeginCommit, RefuseCommit, DiscardPreparedSnapshot, ReclaimRetiredGraphs,
                    FinishParameter, CancelParameter, queueVars, stateVars
<1>8. CASE FlagDeviceStart \/ HandToAudio \/ BeginDeviceStop \/ TakeControl
  BY <1>1, <1>8 DEF FlagDeviceStart, HandToAudio, BeginDeviceStop, TakeControl, PublishFrame,
                    queueVars, stateVars
<1>9. CASE BeginBlock
  BY <1>1, <1>9 DEF BeginBlock, queueVars, stateVars
<1>10. CASE DrainCommand
  BY <1>0, <1>10, DrainLine
<1>11. CASE PublishBlock
  BY <1>0, <1>11, BlockLine
<1>12. CASE RenderBlock
  <2>1. /\ realtime'.sink = realtime.sink /\ realtime'.phase = realtime.phase
        /\ realtime'.applied = realtime.applied
    BY <1>0, <1>12 DEF RenderBlock, TypeOK, RealtimeState
  <2>2. sinks'.retired = sinks.retired
    BY <1>0, <1>12 DEF RenderBlock, TypeOK
  <2>3. commands' = commands /\ frame' = frame
    BY <1>12 DEF RenderBlock, queueVars
  <2> QED BY <2>1, <2>2, <2>3, CalmLine DEF FrameIsBehind
<1>13. ASSUME NEW r \in Reader, ReadFrame(r) \/ VisitGraph(r) PROVE KeepsLine /\ FrameIsBehind'
  BY <1>1, <1>13 DEF ReadFrame, VisitGraph, queueVars, stateVars
<1> QED
  BY <1>2, <1>3, <1>4, <1>5, <1>6, <1>7, <1>8, <1>9, <1>10, <1>11, <1>12, <1>13
  DEF Next, Task, Device, Audio

-----------------------------------------------------------------------------
(* The inductive invariant.                                                *)

Starting == {"startRecording", "clearFailedStart", "awaitFailedStart"}

\* The engine below keeps its own invariant, and its line is as it should be.
EngineInv == IInv /\ FrameIsBehind /\ ClearsNow

\* The controller's sink is in its one place and its session is open.
SinkInv == SinksNow(controlSink) /\ (controlSink # None => sessions[controlSink] = "open")

\* What records, or will, belongs to a session.
OwnedInv == ~QuietNow => controller.session # None

\* A start in progress has the lock and a sink, and finds no recording.
StartHolds ==
    threads["command"].at \in Starting =>
        /\ lock = "command"
        /\ controlSink # None /\ threads["command"].sink = controlSink
        /\ controller = [session |-> None, processing |-> FALSE, stopInProgress |-> FALSE]

\* One stop at a time, known to the controller, which has the lock for its sink.
StopHolds ==
    \A t \in Thread :
        /\ threads[t].at \in StopPlaces =>
               /\ controller.stopInProgress
               /\ \A u \in Thread : threads[u].at \in StopPlaces => u = t
        /\ threads[t].at \in {"clearSink", "awaitSink"} => lock = t

\* A stop that waits for its command finds nothing recording afterwards.
StopsInLine ==
    \A t \in Thread :
        /\ threads[t].at = "awaitStop" => StopNow(threads[t].sequence)
        /\ threads[t].at \in {"clearSink", "awaitSink"} => QuietNow

\* The inductive invariant.
RecordingInv ==
    /\ EngineInv /\ RecordingTypeOK
    /\ SinkInv /\ OwnedInv
    /\ StartHolds /\ StopHolds /\ StopsInLine

-----------------------------------------------------------------------------
(* What the steps of the controller do to the engine.                      *)

LEMMA GotoFacts ==
    ASSUME threads \in [Thread -> Plan], NEW t \in Thread, NEW place, Goto(t, place)
    PROVE  /\ place \in {"readFrame", "enqueueStop", "awaitStop", "clearSink", "awaitSink",
                         "clearFailedStart", "awaitFailedStart"} => threads' \in [Thread -> Plan]
           /\ threads'[t].at = place /\ threads'[t].sink = threads[t].sink
           /\ threads'[t].sequence = threads[t].sequence
           /\ \A u \in Thread : u # t => threads'[u] = threads[u]
<1>1. threads' = [threads EXCEPT ![t] = [threads[t] EXCEPT !.at = place]]
  BY DEF Goto
<1>2. threads[t] \in Plan
  OBVIOUS
<1>3. /\ [threads[t] EXCEPT !.at = place].at = place
      /\ [threads[t] EXCEPT !.at = place].sink = threads[t].sink
      /\ [threads[t] EXCEPT !.at = place].sequence = threads[t].sequence
      /\ place \in {"readFrame", "enqueueStop", "awaitStop", "clearSink", "awaitSink",
                    "clearFailedStart", "awaitFailedStart"} =>
             [threads[t] EXCEPT !.at = place] \in Plan
  BY <1>2 DEF Plan
<1> QED BY <1>1, <1>3

LEMMA LeaveFacts ==
    ASSUME threads \in [Thread -> Plan], NEW t \in Thread, Leave(t)
    PROVE  /\ threads' \in [Thread -> Plan]
           /\ threads'[t].at = "idle"
           /\ \A u \in Thread : u # t => threads'[u] = threads[u]
  BY DEF Leave, Plan

\* The controller's commands, and what it has seen when it queues them.
ControllerCommand(command) ==
    /\ command \in RealtimeCommand /\ Submit(command) /\ EngineSubmits
    /\ command.kind \in {"setRecordingSink", "clearRecordingSink", "startRecording",
                         "stopArrangeRecording"}
    /\ IsSet(command) => realtime.sink = None
    /\ IsClear(command) => QuietNow

\* A start is queued by QueueStart alone.
QueuesStart == \E countIn \in BOOLEAN : QueueStart(countIn)

\* While a start is in progress nothing records.
LEMMA StartIsQuiet ==
    ASSUME RecordingInv, threads["command"].at \in Starting
    PROVE  QuietNow /\ \A t \in Thread : threads[t].at \notin StopPlaces
  BY DEF RecordingInv, OwnedInv, StartHolds, StopHolds

\* How each step of the controller moves the engine.
LEMMA EngineMoves ==
    ASSUME RecordingInv, [RecordingNext]_allVars
    PROVE  \/ UNCHANGED vars
           \/ Next
           \/ TakeRetiredSinks /\ OnlySinks
           \/ \E command : ControllerCommand(command) /\ (IsStart(command) => QueuesStart)
<1>0. RecordingTypeOK /\ TypeOK /\ controlSink \in Sink \union {None}
  BY DEF RecordingInv, RecordingTypeOK
<1>1. CASE UNCHANGED allVars
  BY <1>1 DEF allVars
<1>2. CASE EngineStep
  BY <1>2 DEF EngineStep, Next
<1>3. ASSUME NEW s \in Sink, StartSession(s)
      PROVE  UNCHANGED vars \/ \E command : ControllerCommand(command) /\ ~IsStart(command)
  <2> DEFINE command == [Command("setRecordingSink") EXCEPT !.sink = s]
  <2>1. CASE controlSink = None /\ Submit(command) /\ EngineSubmits
    <3>1. command \in RealtimeCommand /\ command.kind = "setRecordingSink"
      BY DEF Command, RealtimeCommand, Kind
    <3>2. realtime.sink = None
      BY <2>1 DEF RecordingInv, SinkInv, SinksNow, SinkInLine
    <3> HIDE DEF command
    <3>3. ControllerCommand(command) /\ ~IsStart(command)
      BY <2>1, <3>1, <3>2 DEF ControllerCommand, IsSet, IsClear, IsStart
    <3> QED BY <3>3
  <2> QED BY <1>3, <2>1 DEF StartSession, EngineRests
<1>4. ASSUME NEW countIn \in BOOLEAN, QueueStart(countIn)
      PROVE  UNCHANGED vars \/ \E command : ControllerCommand(command)
  <2> DEFINE command == [Command("startRecording") EXCEPT !.countIn = countIn]
  <2>1. CASE Submit(command) /\ EngineSubmits
    <3>1. command \in RealtimeCommand /\ command.kind = "startRecording"
      BY DEF Command, RealtimeCommand, Kind
    <3> HIDE DEF command
    <3>2. ControllerCommand(command)
      BY <2>1, <3>1 DEF ControllerCommand, IsSet, IsClear
    <3> QED BY <3>2
  <2> QED BY <1>4, <2>1 DEF QueueStart, EngineRests
<1>5. ASSUME NEW kind \in {"clearRecordingSink", "stopArrangeRecording"},
             Submit(Command(kind)), EngineSubmits, kind = "clearRecordingSink" => QuietNow
      PROVE  \E command : ControllerCommand(command) /\ ~IsStart(command)
  <2>1. Command(kind) \in RealtimeCommand /\ Command(kind).kind = kind
    BY CommandType DEF Kind, Command
  <2>2. ControllerCommand(Command(kind)) /\ ~IsStart(Command(kind))
    BY <1>5, <2>1 DEF ControllerCommand, IsSet, IsClear, IsStart
  <2> QED BY <2>2
<1>6. CASE ClearFailedStart
  <2>1. QuietNow
    BY <1>6, StartIsQuiet DEF ClearFailedStart, At, Starting
  <2> QED BY <1>5, <1>6, <2>1 DEF ClearFailedStart, KeepCandidate, EngineRests
<1>7. CASE CancelFailedStart \/ FailedStartTimesOut
  BY <1>7 DEF CancelFailedStart, FailedStartTimesOut, KeepCandidate, EngineRests
<1>8. ASSUME NEW t \in Thread, StopStep(t)
      PROVE  \/ UNCHANGED vars
             \/ TakeRetiredSinks /\ OnlySinks
             \/ \E command : ControllerCommand(command) /\ ~IsStart(command)
  <2>1. CASE ReadPhase(t) \/ LockStop(t) \/ SinkCleared(t) \/ SinkTimesOut(t)
    BY <2>1 DEF ReadPhase, LockStop, SinkCleared, SinkTimesOut, EngineRests
  <2>2. CASE EnqueueStop(t)
    BY <1>5, <2>2 DEF EnqueueStop, EngineRests
  <2>3. CASE ClearSink(t)
    <3>1. QuietNow
      BY <2>3 DEF ClearSink, At, RecordingInv, StopsInLine
    <3> QED BY <1>5, <2>3, <3>1 DEF ClearSink, EngineRests
  <2> QED BY <1>8, <2>1, <2>2, <2>3 DEF StopStep
<1>9. ASSUME NEW t \in {"command", "message"}, BeginStop(t) PROVE UNCHANGED vars
  BY <1>9 DEF BeginStop, EngineRests
<1>10. ASSUME NEW s \in Sink, FinishProcessing(s) PROVE UNCHANGED vars
  BY <1>10 DEF FinishProcessing, EngineRests
<1> QED
  BY <1>1, <1>2, <1>3, <1>4, <1>6, <1>7, <1>8, <1>9, <1>10
  DEF RecordingNext, Start, QueuesStart

\* What is quiet, or will be once a stop has been applied, stays so.
QuietKept == (QuietNow => QuietNow') /\ \A n \in Nat : StopNow(n) => StopNow(n)'

\* The engine's own invariant survives a command of the controller.
LEMMA CommandInv ==
    ASSUME IInv, NEW command, ControllerCommand(command)
    PROVE  IInv'
<1>0. /\ TypeOK /\ RegistryInOrder /\ CommandsInOrder /\ RacksAnswerTruly
      /\ command \in RealtimeCommand /\ Submit(command)
      /\ command.kind \notin {"publishGraph", "applyDeviceParameters"}
      /\ owner' = owner /\ registry' = registry /\ task' = task /\ device' = device
      /\ block' = block /\ readers' = readers
  BY DEF IInv, ControllerCommand, EngineSubmits
<1>1. TypeOK'
  <2>1. /\ commands' \in Seq(RealtimeCommand) /\ nextCommand' \in Nat
        /\ realtime' \in RealtimeState /\ frame' \in RealtimeFrame
        /\ sinks' \in [retired : SUBSET Sink, captured : SUBSET Sink]
        /\ retired' \subseteq Nat \ {0} /\ racks' \in RackType
    BY <1>0, SubmitType
  <2> QED BY <1>0, <2>1 DEF TypeOK, RackType
<1>2. RegistryInOrder'
  BY <1>0 DEF RegistryInOrder, LatestCommitted
<1>3. LineInv'
  BY <1>0, LineSubmitted
<1>4. RacksAnswerTruly'
  BY <1>0, RacksSubmitted
<1> QED BY <1>1, <1>2, <1>3, <1>4 DEF IInv, LineInv

\* ... and the retired sinks being taken.
LEMMA TakenInv ==
    ASSUME IInv, TakeRetiredSinks, OnlySinks
    PROVE  /\ IInv'
           /\ commands' = commands /\ realtime' = realtime /\ frame' = frame
           /\ sinks'.retired = {}
<1>0. TypeOK /\ RegistryInOrder /\ RacksAnswerTruly
  BY DEF IInv
<1>1. /\ owner' = owner /\ commands' = commands /\ nextCommand' = nextCommand
      /\ realtime' = realtime /\ frame' = frame /\ registry' = registry /\ retired' = retired
      /\ racks' = racks /\ task' = task /\ device' = device /\ block' = block /\ readers' = readers
  BY DEF OnlySinks, queueVars, graphVars
<1>2. sinks' \in [retired : SUBSET Sink, captured : SUBSET Sink] /\ sinks'.retired = {}
  BY <1>0 DEF TakeRetiredSinks, TypeOK
<1>3. TypeOK'
  BY <1>0, <1>1, <1>2 DEF TypeOK
<1>4. RegistryInOrder'
  BY <1>0, <1>1 DEF RegistryInOrder, LatestCommitted
<1>5. LineInv'
  BY <1>0, <1>1, LineKept DEF IInv, CommandsInOrder
<1>6. RacksAnswerTruly'
  BY <1>0, <1>1, RacksKept
<1> QED BY <1>1, <1>2, <1>3, <1>4, <1>5, <1>6 DEF IInv, LineInv

\* The engine's part of the invariant, and of the sinks' property.
LEMMA EngineKept ==
    ASSUME RecordingInv, [RecordingNext]_allVars
    PROVE  EngineInv' /\ SinkRests /\ (QueuesStart \/ QuietKept)
<1>0. IInv /\ TypeOK /\ CommandsInOrder /\ FrameIsBehind /\ ClearsNow /\ SinksNow(controlSink)
  BY DEF RecordingInv, EngineInv, SinkInv, IInv
<1>1. ASSUME commands' = commands, realtime' = realtime
      PROVE  ClearsNow' /\ SinkRests /\ QuietKept
  BY <1>0, <1>1 DEF ClearsNow, ClearsInLine, SinkRests, QuietKept, QuietNow, StopNow, StopInLine, Quiet
<1>2. CASE UNCHANGED vars
  <2>1. IInv'
    BY <1>0, <1>2, StepInv
  <2>2. commands' = commands /\ realtime' = realtime /\ frame' = frame
    BY <1>2 DEF vars
  <2> QED BY <1>0, <1>1, <2>1, <2>2 DEF EngineInv, FrameIsBehind
<1>3. CASE Next
  <2>1. IInv'
    BY <1>0, <1>3, StepInv
  <2>2. KeepsLine /\ FrameIsBehind'
    BY <1>0, <1>3, EngineLine
  <2> QED BY <1>0, <2>1, <2>2 DEF EngineInv, KeepsLine, QuietKept
<1>4. CASE TakeRetiredSinks /\ OnlySinks
  <2>1. IInv' /\ commands' = commands /\ realtime' = realtime /\ frame' = frame
    BY <1>0, <1>4, TakenInv
  <2> QED BY <1>0, <1>1, <2>1 DEF EngineInv, FrameIsBehind
<1>5. ASSUME NEW command, ControllerCommand(command), IsStart(command) => QueuesStart
      PROVE  EngineInv' /\ SinkRests /\ (QueuesStart \/ QuietKept)
  <2>1. IInv'
    BY <1>0, <1>5, CommandInv
  <2>2. /\ command \in RealtimeCommand /\ Submit(command)
        /\ IsSet(command) => realtime.sink = None
        /\ IsClear(command) => QuietNow
    BY <1>5 DEF ControllerCommand
  <2>3. /\ ~IsStart(command) => QuietKept
        /\ ClearsNow' /\ FrameIsBehind'
    BY <1>0, <2>2, SubmittedLine DEF QuietKept
  <2>4. SinkRests
    BY <1>0, <2>2, SubmittedRests
  <2> QED BY <1>5, <2>1, <2>3, <2>4 DEF EngineInv
<1> QED BY <1>2, <1>3, <1>4, <1>5, EngineMoves

-----------------------------------------------------------------------------
(* The controller's own state.                                             *)

\* A session that is let go was stopped, and so nothing records.
LEMMA ReleaseFacts ==
    ASSUME RecordingTypeOK, NEW t \in Thread, ReleaseSession(t)
    PROVE  /\ controller' \in [session : Sink \union {None}, processing : BOOLEAN,
                               stopInProgress : BOOLEAN]
           /\ sessions' \in [Sink -> {"none", "open", "cancelled", "processing", "finished"}]
           /\ threads' \in [Thread -> Plan] /\ threads'[t].at = "idle" /\ lock' = None
           /\ \A u \in Thread : u # t => threads'[u] = threads[u]
<1>1. threads' \in [Thread -> Plan] /\ threads'[t].at = "idle"
      /\ \A u \in Thread : u # t => threads'[u] = threads[u]
  BY LeaveFacts DEF ReleaseSession, RecordingTypeOK
<1>2. threads[t].cancel \in BOOLEAN
  BY DEF RecordingTypeOK, Plan
<1>3. controller.session \in Sink \union {None}
  BY DEF RecordingTypeOK
<1>4. /\ controller' = [session |-> None, stopInProgress |-> FALSE,
                        processing |-> controller.session # None /\ ~threads[t].cancel]
      /\ lock' = None
      /\ sessions' = IF controller.session = None THEN sessions
                     ELSE [sessions EXCEPT ![controller.session] =
                               IF threads[t].cancel THEN "cancelled" ELSE "processing"]
  BY DEF ReleaseSession
<1>5. sessions \in [Sink -> {"none", "open", "cancelled", "processing", "finished"}]
  BY DEF RecordingTypeOK
<1>6. controller' \in [session : Sink \union {None}, processing : BOOLEAN, stopInProgress : BOOLEAN]
  BY <1>4
<1>7. sessions' \in [Sink -> {"none", "open", "cancelled", "processing", "finished"}]
  BY <1>3, <1>4, <1>5
<1> QED BY <1>1, <1>4, <1>6, <1>7

\* A stop is handed to the thread that completes it, or was refused.
LEMMA EnqueueFacts ==
    ASSUME RecordingTypeOK, NEW t \in Thread, EnqueueStop(t)
    PROVE  /\ threads' \in [Thread -> Plan]
           /\ \/ /\ Submit(Command("stopArrangeRecording")) /\ controller' = controller
                 /\ \E c \in Thread :
                        /\ threads'[c].at = "awaitStop" /\ threads'[c].sequence = nextCommand
                        /\ \A u \in Thread : u # c =>
                               IF u = t THEN threads'[u].at = "idle" ELSE threads'[u] = threads[u]
              \/ /\ Leave(t) /\ lock = None /\ EngineRests
                 /\ controller' = [controller EXCEPT !.stopInProgress = FALSE]
<1> DEFINE completer == IF t = "command" THEN "worker" ELSE t
           pending == [at |-> "awaitStop", sink |-> None, sequence |-> nextCommand,
                       cancel |-> threads[t].cancel]
           idle == [at |-> "idle", sink |-> None, sequence |-> 0, cancel |-> FALSE]
<1>1. threads \in [Thread -> Plan] /\ nextCommand \in Nat /\ completer \in Thread
  BY DEF RecordingTypeOK, TypeOK, Thread
<1>2. threads[t].cancel \in BOOLEAN
  BY <1>1 DEF Plan
<1>3. pending \in Plan /\ pending.at = "awaitStop" /\ pending.sequence = nextCommand
      /\ idle \in Plan /\ idle.at = "idle"
  BY <1>1, <1>2 DEF Plan
<1>4. \/ /\ Submit(Command("stopArrangeRecording")) /\ controller' = controller
         /\ threads' = [threads EXCEPT ![t] = idle, ![completer] = pending]
      \/ /\ Leave(t) /\ lock = None /\ EngineRests
         /\ controller' = [controller EXCEPT !.stopInProgress = FALSE]
  BY DEF EnqueueStop
<1> HIDE DEF completer, pending, idle
<1>5. CASE threads' = [threads EXCEPT ![t] = idle, ![completer] = pending]
  <2>1. threads' \in [Thread -> Plan]
    BY <1>1, <1>3, <1>5
  <2>2. threads'[completer] = pending /\
        \A u \in Thread : u # completer => threads'[u] = IF u = t THEN idle ELSE threads[u]
    BY <1>1, <1>5
  <2> QED BY <1>1, <1>3, <1>4, <1>5, <2>1, <2>2
<1> QED BY <1>1, <1>4, <1>5, LeaveFacts

LEMMA RecordingTypeStep == ASSUME RecordingInv, [RecordingNext]_allVars PROVE RecordingTypeOK'
<1>0. /\ RecordingTypeOK /\ TypeOK /\ IInv
      /\ controlSink \in Sink \union {None}
      /\ controller \in [session : Sink \union {None}, processing : BOOLEAN, stopInProgress : BOOLEAN]
      /\ lock \in Thread \union {None}
      /\ threads \in [Thread -> Plan]
      /\ sessions \in [Sink -> {"none", "open", "cancelled", "processing", "finished"}]
      /\ \A t \in Thread : threads[t].sink \in Sink \union {None}
  BY DEF RecordingInv, RecordingTypeOK, EngineInv, Plan
<1>1. TypeOK'
  BY EngineKept DEF EngineInv, IInv
<1>2. CASE UNCHANGED recordingVars
  BY <1>0, <1>1, <1>2 DEF recordingVars, RecordingTypeOK
<1>3. ASSUME NEW s \in Sink, StartSession(s) PROVE RecordingTypeOK'
  <2>1. threads' = threads \/
        threads' = [threads EXCEPT !["command"] = [threads["command"] EXCEPT !.at = "startRecording", !.sink = s]]
    BY <1>3 DEF StartSession
  <2>2. [threads["command"] EXCEPT !.at = "startRecording", !.sink = s] \in Plan
    BY <1>0 DEF Thread, Plan
  <2>3. threads' \in [Thread -> Plan]
    BY <1>0, <2>1, <2>2
  <2>4. /\ controlSink' \in Sink \union {None} /\ controller' = controller
        /\ lock' \in Thread \union {None}
        /\ sessions' \in [Sink -> {"none", "open", "cancelled", "processing", "finished"}]
    BY <1>0, <1>3 DEF StartSession, Thread
  <2> QED BY <1>0, <1>1, <2>3, <2>4 DEF RecordingTypeOK
<1>4. ASSUME NEW countIn \in BOOLEAN, QueueStart(countIn) PROVE RecordingTypeOK'
  <2>1. "command" \in Thread
    BY DEF Thread
  <2>2. threads' \in [Thread -> Plan]
    BY <1>0, <1>4, <2>1, LeaveFacts, GotoFacts DEF QueueStart
  <2>3. /\ controlSink' = controlSink /\ sessions' = sessions
        /\ lock' \in Thread \union {None}
        /\ controller' \in [session : Sink \union {None}, processing : BOOLEAN, stopInProgress : BOOLEAN]
    BY <1>0, <1>4, <2>1 DEF QueueStart
  <2> QED BY <1>0, <1>1, <2>2, <2>3 DEF RecordingTypeOK
<1>5. CASE ClearFailedStart \/ CancelFailedStart \/ FailedStartTimesOut
  <2>1. "command" \in Thread
    BY DEF Thread
  <2>2. threads' \in [Thread -> Plan]
    BY <1>0, <1>5, <2>1, LeaveFacts, GotoFacts
    DEF ClearFailedStart, CancelFailedStart, FailedStartTimesOut, KeepCandidate
  <2>3. controlSink' \in Sink \union {None} /\ lock' \in Thread \union {None}
    BY <1>0, <1>5 DEF ClearFailedStart, CancelFailedStart, FailedStartTimesOut, KeepCandidate
  <2>4. sessions' \in [Sink -> {"none", "open", "cancelled", "processing", "finished"}]
    BY <1>0, <1>5 DEF ClearFailedStart, CancelFailedStart, FailedStartTimesOut, KeepCandidate
  <2>5. controller' \in [session : Sink \union {None}, processing : BOOLEAN, stopInProgress : BOOLEAN]
    BY <1>0, <1>5, <2>1 DEF ClearFailedStart, CancelFailedStart, FailedStartTimesOut, KeepCandidate
  <2> QED BY <1>1, <2>2, <2>3, <2>4, <2>5 DEF RecordingTypeOK
<1>6. ASSUME NEW t \in {"command", "message"}, BeginStop(t) PROVE RecordingTypeOK'
  <2>1. t \in Thread
    BY DEF Thread
  <2>2. threads' \in [Thread -> Plan]
    BY <1>0, <1>6, <2>1, GotoFacts DEF BeginStop
  <2> QED BY <1>0, <1>1, <1>6, <2>2 DEF RecordingTypeOK, BeginStop
<1>7. ASSUME NEW t \in Thread, StopStep(t) PROVE RecordingTypeOK'
  <2>1. CASE ReadPhase(t)
    <3>1. [threads[t] EXCEPT !.at = "enqueueStop", !.cancel = frame.phase = "countingIn"] \in Plan
      <4>1. threads[t] \in Plan /\ (frame.phase = "countingIn") \in BOOLEAN
        BY <1>0
      <4> QED BY <4>1 DEF Plan
    <3>2. threads' = [threads EXCEPT ![t] = [threads[t] EXCEPT !.at = "enqueueStop",
                                                             !.cancel = frame.phase = "countingIn"]]
      BY <2>1 DEF ReadPhase
    <3>3. threads' \in [Thread -> Plan]
      BY <1>0, <3>1, <3>2
    <3> QED BY <1>0, <1>1, <2>1, <3>3 DEF RecordingTypeOK, ReadPhase
  <2>2. CASE EnqueueStop(t)
    <3>1. threads' \in [Thread -> Plan]
      BY <1>0, <2>2, EnqueueFacts
    <3>2. controlSink' = controlSink /\ lock' = lock /\ sessions' = sessions
      BY <2>2 DEF EnqueueStop
    <3>3. controller' \in [session : Sink \union {None}, processing : BOOLEAN, stopInProgress : BOOLEAN]
      BY <1>0, <2>2 DEF EnqueueStop
    <3> QED BY <1>0, <1>1, <3>1, <3>2, <3>3 DEF RecordingTypeOK
  <2>3. CASE LockStop(t)
    BY <1>0, <1>1, <2>3, GotoFacts DEF RecordingTypeOK, LockStop
  <2>4. CASE ClearSink(t)
    <3>1. CASE ReleaseSession(t) /\ UNCHANGED controlSink
      BY <1>0, <1>1, <3>1, ReleaseFacts DEF RecordingTypeOK
    <3>2. CASE Goto(t, "awaitSink") /\ UNCHANGED <<controlSink, controller, lock, sessions>>
      BY <1>0, <1>1, <3>2, GotoFacts DEF RecordingTypeOK
    <3>3. CASE StopFailed(t) /\ Leave(t) /\ lock' = None /\ UNCHANGED <<controlSink, sessions>>
      BY <1>0, <1>1, <3>3, LeaveFacts DEF RecordingTypeOK, StopFailed
    <3> QED BY <2>4, <3>1, <3>2, <3>3 DEF ClearSink
  <2>5. CASE SinkCleared(t)
    BY <1>0, <1>1, <2>5, ReleaseFacts DEF RecordingTypeOK, SinkCleared
  <2>6. CASE SinkTimesOut(t)
    BY <1>0, <1>1, <2>6, LeaveFacts DEF RecordingTypeOK, SinkTimesOut, StopFailed
  <2> QED BY <1>7, <2>1, <2>2, <2>3, <2>4, <2>5, <2>6 DEF StopStep
<1>8. ASSUME NEW s \in Sink, FinishProcessing(s) PROVE RecordingTypeOK'
  BY <1>0, <1>1, <1>8 DEF RecordingTypeOK, FinishProcessing
<1> QED
  BY <1>2, <1>3, <1>4, <1>5, <1>6, <1>7, <1>8
  DEF RecordingNext, Start, EngineStep, allVars, recordingVars

\* The sink stays in its one place, also while it is taken back.
LEMMA SinkStep == ASSUME RecordingInv, [RecordingNext]_allVars PROVE SinkInv'
<1>0. /\ IInv /\ TypeOK /\ CommandsInOrder /\ FrameIsBehind
      /\ SinksNow(controlSink) /\ (controlSink # None => sessions[controlSink] = "open")
      /\ sessions \in [Sink -> {"none", "open", "cancelled", "processing", "finished"}]
      /\ controlSink \in Sink \union {None} /\ None \notin Sink
  BY SinkAssumption DEF RecordingInv, EngineInv, SinkInv, IInv, RecordingTypeOK
<1>1. UNCHANGED vars => SinkInLine(realtime', commands', sinks'.retired, controlSink)
  BY <1>0 DEF vars, SinksNow
<1>2. ASSUME NEW command \in RealtimeCommand, Submit(command), ~IsSet(command)
      PROVE  SinkInLine(realtime', commands', sinks'.retired, controlSink)
  BY <1>0, <1>2, SubmittedSinks
<1>3. ASSUME SinkReturned, TakeRetiredSinks, OnlySinks
      PROVE  SinkInLine(realtime', commands', sinks'.retired, None)
  <2>1. /\ commands' = commands /\ realtime' = realtime /\ sinks'.retired = {}
    BY <1>0, <1>3, TakenInv
  <2>2. realtime.sink = None /\ \A i \in 1 .. Len(commands) : ~IsSet(commands[i])
    BY <1>0, <1>3 DEF SinkReturned, SinksNow, SinkInLine
  <2> QED BY <2>1, <2>2 DEF SinkInLine
<1>4. ASSUME NEW own, SinkInLine(realtime', commands', sinks'.retired, own),
             controlSink' = own, own # None => sessions'[own] = "open"
      PROVE  SinkInv'
  BY <1>4 DEF SinkInv, SinksNow
<1>5. CASE UNCHANGED allVars
  BY <1>0, <1>1, <1>4, <1>5 DEF allVars, recordingVars
<1>6. CASE EngineStep
  <2>1. Next /\ controlSink' = controlSink /\ sessions' = sessions
    BY <1>6 DEF EngineStep, Next, recordingVars
  <2>2. SinkInLine(realtime', commands', sinks'.retired, controlSink)
    BY <1>0, <2>1, EngineLine DEF KeepsLine
  <2> QED BY <1>0, <1>4, <2>1, <2>2
<1>7. ASSUME NEW s \in Sink, StartSession(s) PROVE SinkInv'
  <2> DEFINE command == [Command("setRecordingSink") EXCEPT !.sink = s]
  <2>1. CASE controlSink = None /\ Submit(command) /\ controlSink' = s
             /\ sessions' = [sessions EXCEPT ![s] = "open"]
    <3>1. command \in RealtimeCommand /\ command.kind = "setRecordingSink" /\ command.sink = s
      BY DEF Command, RealtimeCommand, Kind
    <3> HIDE DEF command
    <3>2. SinkInLine(realtime', commands', sinks'.retired, s)
      BY <1>0, <2>1, <3>1, SubmittedSinks DEF IsSet
    <3> QED BY <1>0, <1>4, <2>1, <3>2
  <2>2. CASE EngineRests /\ controlSink' = controlSink
             /\ sessions[s] = "none" /\ sessions' = [sessions EXCEPT ![s] = "cancelled"]
    <3>1. controlSink # None => sessions'[controlSink] = "open"
      BY <1>0, <2>2
    <3> QED BY <1>1, <1>4, <2>2, <3>1 DEF EngineRests
  <2> QED BY <1>7, <2>1, <2>2 DEF StartSession
<1>8. ASSUME NEW kind \in {"clearRecordingSink", "stopArrangeRecording"}, Submit(Command(kind))
      PROVE  SinkInLine(realtime', commands', sinks'.retired, controlSink)
  <2>1. Command(kind) \in RealtimeCommand /\ ~IsSet(Command(kind))
    BY CommandType DEF Kind, Command, IsSet
  <2> QED BY <1>2, <1>8, <2>1
<1>9. ASSUME NEW countIn \in BOOLEAN, QueueStart(countIn) PROVE SinkInv'
  <2> DEFINE command == [Command("startRecording") EXCEPT !.countIn = countIn]
  <2>1. command \in RealtimeCommand /\ ~IsSet(command)
    BY DEF Command, RealtimeCommand, Kind, IsSet
  <2>2. SinkInLine(realtime', commands', sinks'.retired, controlSink)
    BY <1>1, <1>2, <1>9, <2>1 DEF QueueStart, EngineRests
  <2> QED BY <1>0, <1>4, <1>9, <2>2 DEF QueueStart
<1>10. CASE ClearFailedStart \/ FailedStartTimesOut
  BY <1>0, <1>1, <1>4, <1>8, <1>10 DEF ClearFailedStart, FailedStartTimesOut, KeepCandidate, EngineRests
<1>11. CASE CancelFailedStart
  BY <1>3, <1>4, <1>11 DEF CancelFailedStart
<1>12. ASSUME NEW t \in {"command", "message"}, BeginStop(t) PROVE SinkInv'
  BY <1>0, <1>1, <1>4, <1>12 DEF BeginStop, EngineRests
<1>13. ASSUME NEW t \in Thread, StopStep(t) PROVE SinkInv'
  <2>1. CASE ReadPhase(t) \/ LockStop(t) \/ SinkTimesOut(t)
    BY <1>0, <1>1, <1>4, <2>1 DEF ReadPhase, LockStop, SinkTimesOut, EngineRests
  <2>2. CASE EnqueueStop(t)
    BY <1>0, <1>1, <1>4, <1>8, <2>2 DEF EnqueueStop, EngineRests
  <2>3. CASE SinkCleared(t)
    BY <1>3, <1>4, <2>3 DEF SinkCleared
  <2>4. CASE ClearSink(t)
    <3>1. CASE controlSink = None /\ EngineRests /\ UNCHANGED controlSink
      BY <1>1, <1>4, <3>1 DEF EngineRests
    <3>2. CASE Submit(Command("clearRecordingSink")) /\ UNCHANGED <<controlSink, sessions>>
      BY <1>0, <1>4, <1>8, <3>2
    <3>3. CASE EngineRests /\ UNCHANGED <<controlSink, sessions>>
      BY <1>0, <1>1, <1>4, <3>3 DEF EngineRests
    <3> QED BY <2>4, <3>1, <3>2, <3>3 DEF ClearSink
  <2> QED BY <1>13, <2>1, <2>2, <2>3, <2>4 DEF StopStep
<1>14. ASSUME NEW s \in Sink, FinishProcessing(s) PROVE SinkInv'
  <2>1. controlSink # None => sessions'[controlSink] = "open"
    BY <1>0, <1>14 DEF FinishProcessing
  <2> QED BY <1>1, <1>4, <1>14, <2>1 DEF FinishProcessing, EngineRests
<1> QED
  BY <1>5, <1>6, <1>7, <1>9, <1>10, <1>11, <1>12, <1>13, <1>14 DEF RecordingNext, Start

\* Only a stop that has its command applied lets the session go.
LEMMA SessionLetGo ==
    ASSUME RecordingInv, [RecordingNext]_allVars, controller.session # None,
           controller'.session = None
    PROVE  QuietNow
<1>0. /\ controller \in [session : Sink \union {None}, processing : BOOLEAN, stopInProgress : BOOLEAN]
      /\ RecordingTypeOK
  BY DEF RecordingInv, RecordingTypeOK
<1>1. ASSUME NEW t \in Thread, threads[t].at \in {"clearSink", "awaitSink"} PROVE QuietNow
  BY <1>1 DEF RecordingInv, StopsInLine
<1>2. CASE UNCHANGED controller
  BY <1>2
<1>3. ASSUME NEW t \in Thread, StopStep(t) PROVE QuietNow
  <2>1. CASE ReadPhase(t) \/ LockStop(t)
    BY <1>2, <2>1 DEF ReadPhase, LockStop
  <2>2. CASE EnqueueStop(t)
    <3>1. controller'.session = controller.session
      BY <1>0, <2>2 DEF EnqueueStop
    <3> QED BY <3>1
  <2>3. CASE ClearSink(t) \/ SinkCleared(t) \/ SinkTimesOut(t)
    BY <1>1, <2>3 DEF ClearSink, SinkCleared, SinkTimesOut, At
  <2> QED BY <1>3, <2>1, <2>2, <2>3 DEF StopStep
<1>4. ASSUME NEW countIn \in BOOLEAN, QueueStart(countIn) PROVE QuietNow
  BY <1>4, StartIsQuiet DEF QueueStart, At, Starting
<1>5. CASE ClearFailedStart \/ CancelFailedStart \/ FailedStartTimesOut
  BY <1>5, StartIsQuiet DEF ClearFailedStart, CancelFailedStart, FailedStartTimesOut, At, Starting
<1>6. ASSUME NEW s \in Sink, StartSession(s) PROVE QuietNow
  BY <1>2, <1>6 DEF StartSession
<1>7. ASSUME NEW t \in {"command", "message"}, BeginStop(t) PROVE QuietNow
  BY <1>0, <1>7 DEF BeginStop
<1>8. ASSUME NEW s \in Sink, FinishProcessing(s) PROVE QuietNow
  BY <1>0, <1>8 DEF FinishProcessing
<1> QED
  BY <1>2, <1>3, <1>4, <1>5, <1>6, <1>7, <1>8
  DEF RecordingNext, Start, EngineStep, allVars, recordingVars

LEMMA OwnedStep == ASSUME RecordingInv, [RecordingNext]_allVars PROVE OwnedInv'
<1>1. CASE QuietKept
  BY <1>1, SessionLetGo DEF RecordingInv, OwnedInv, QuietKept
<1>2. CASE QueuesStart
  <2>1. PICK countIn \in BOOLEAN : QueueStart(countIn)
    BY <1>2 DEF QueuesStart
  <2>2. /\ controlSink # None /\ threads["command"].sink = controlSink
        /\ QuietNow /\ controller \in [session : Sink \union {None}, processing : BOOLEAN,
                                       stopInProgress : BOOLEAN]
    BY <2>1, StartIsQuiet DEF QueueStart, At, Starting, RecordingInv, StartHolds, RecordingTypeOK
  <2>3. CASE controller' = [controller EXCEPT !.session = threads["command"].sink]
    BY <2>2, <2>3 DEF OwnedInv
  <2>4. CASE EngineRests
    BY <2>2, <2>4 DEF OwnedInv, QuietNow, Quiet, EngineRests, vars
  <2> QED BY <2>1, <2>3, <2>4 DEF QueueStart
<1> QED BY <1>1, <1>2, EngineKept

-----------------------------------------------------------------------------
(* Who starts and who stops.                                               *)

\* A start keeps the lock and its sink until it is over.
LEMMA StartStep == ASSUME RecordingInv, [RecordingNext]_allVars PROVE StartHolds'
<1>0. /\ threads \in [Thread -> Plan] /\ "command" \in Thread /\ StartHolds /\ StopHolds
      /\ RecordingTypeOK /\ None \notin Thread
  BY ThreadAssumption DEF RecordingInv, RecordingTypeOK, Thread
<1>1. ASSUME threads'["command"].at \notin Starting PROVE StartHolds'
  BY <1>1 DEF StartHolds
<1>2. ASSUME threads'["command"].at = threads["command"].at,
             threads'["command"].sink = threads["command"].sink,
             UNCHANGED <<lock, controlSink, controller>> \/ lock = None
      PROVE  StartHolds'
  BY <1>0, <1>2 DEF StartHolds
<1>3. ASSUME NEW s \in Sink, StartSession(s) PROVE StartHolds'
  <2>1. CASE /\ threads' = [threads EXCEPT !["command"].at = "startRecording", !["command"].sink = s]
             /\ lock' = "command" /\ controlSink' = s
    <3>1. threads'["command"].sink = s
      BY <1>0, <2>1 DEF Plan
    <3> QED BY <1>3, <2>1, <3>1, SinkAssumption DEF StartHolds, StartSession
  <2>2. CASE UNCHANGED threads
    BY <1>2, <1>3, <2>2 DEF StartSession
  <2> QED BY <1>3, <2>1, <2>2 DEF StartSession
<1>4. ASSUME NEW place \in Starting, threads["command"].at \in Starting, Goto("command", place),
             UNCHANGED <<lock, controlSink, controller>>
      PROVE  StartHolds'
  <2>1. threads'["command"].sink = threads["command"].sink
    BY <1>0, <1>4, GotoFacts
  <2> QED BY <1>0, <1>4, <2>1 DEF StartHolds
<1>5. ASSUME Leave("command") PROVE StartHolds'
  <2>1. threads'["command"].at = "idle"
    BY <1>0, <1>5, LeaveFacts
  <2> QED BY <1>1, <2>1 DEF Starting
<1>6. ASSUME NEW countIn \in BOOLEAN, QueueStart(countIn) PROVE StartHolds'
  BY <1>4, <1>5, <1>6 DEF QueueStart, At, Starting
<1>7. CASE ClearFailedStart \/ CancelFailedStart \/ FailedStartTimesOut
  BY <1>4, <1>5, <1>7
  DEF ClearFailedStart, CancelFailedStart, FailedStartTimesOut, KeepCandidate, At, Starting
<1>8. ASSUME NEW t \in Thread, t # "command" => threads'["command"] = threads["command"],
             threads[t].at \in StopPlaces \/ lock = None,
             t = "command" => threads'[t].at \notin Starting
      PROVE  StartHolds'
  <2>1. CASE t = "command"
    BY <1>1, <1>8, <2>1
  <2>2. CASE lock = None /\ t # "command"
    BY <1>2, <1>8, <2>2
  <2>3. CASE threads[t].at \in StopPlaces
    <3>1. threads["command"].at \notin Starting
      BY <1>0, <2>3 DEF StartHolds, StopHolds
    <3> QED BY <1>1, <1>8, <2>1, <3>1
  <2> QED BY <1>8, <2>1, <2>2, <2>3
<1>9. ASSUME NEW t \in {"command", "message"}, BeginStop(t) PROVE StartHolds'
  <2>1. t \in Thread
    BY DEF Thread
  <2>2. /\ threads'[t].at = "readFrame" /\ \A u \in Thread : u # t => threads'[u] = threads[u]
    BY <1>0, <1>9, <2>1, GotoFacts DEF BeginStop
  <2> QED BY <1>0, <1>8, <1>9, <2>1, <2>2 DEF BeginStop, Starting
<1>10. ASSUME NEW t \in Thread, StopStep(t) PROVE StartHolds'
  <2>1. threads[t].at \in StopPlaces
    BY <1>10 DEF StopStep, ReadPhase, EnqueueStop, LockStop, ClearSink, SinkCleared, SinkTimesOut,
                 At, StopPlaces
  <2>2. CASE EnqueueStop(t)
    <3>1. threads["command"].at \notin Starting
      BY <1>0, <2>1 DEF StartHolds, StopHolds
    <3>2. threads'["command"].at \notin Starting
      BY <1>0, <2>2, <3>1, EnqueueFacts, LeaveFacts DEF Starting
    <3> QED BY <1>1, <3>2
  <2>3. CASE ReadPhase(t)
    <3>1. threads'[t].at = "enqueueStop" /\ \A u \in Thread : u # t => threads'[u] = threads[u]
      BY <1>0, <2>3 DEF ReadPhase, Plan
    <3> QED BY <1>0, <1>8, <2>1, <3>1 DEF Starting
  <2>4. CASE \E place \in StopPlaces : Goto(t, place)
    BY <1>0, <1>8, <2>1, <2>4, GotoFacts DEF StopPlaces, Starting
  <2>5. CASE Leave(t)
    BY <1>0, <1>8, <2>1, <2>5, LeaveFacts DEF Starting
  <2> QED BY <1>10, <2>2, <2>3, <2>4, <2>5
       DEF StopStep, LockStop, ClearSink, SinkCleared, SinkTimesOut, ReleaseSession, StopPlaces
<1>11. ASSUME NEW s \in Sink, FinishProcessing(s) PROVE StartHolds'
  BY <1>2, <1>11 DEF FinishProcessing
<1>12. CASE UNCHANGED recordingVars
  BY <1>2, <1>12 DEF recordingVars
<1> QED
  BY <1>3, <1>6, <1>7, <1>9, <1>10, <1>11, <1>12
  DEF RecordingNext, Start, EngineStep, allVars

\* A stop has the controller to itself, from the request to the end.
LEMMA StopStepHolds == ASSUME RecordingInv, [RecordingNext]_allVars PROVE StopHolds'
<1>0. /\ threads \in [Thread -> Plan] /\ "command" \in Thread /\ StartHolds /\ StopHolds
      /\ RecordingTypeOK /\ None \notin Thread
      /\ controller \in [session : Sink \union {None}, processing : BOOLEAN, stopInProgress : BOOLEAN]
  BY ThreadAssumption DEF RecordingInv, RecordingTypeOK, Thread
\* No thread stops any more.
<1>1. ASSUME \A u \in Thread : threads'[u].at \notin StopPlaces PROVE StopHolds'
  BY <1>1 DEF StopHolds, StopPlaces
\* Nothing changes for the thread that stops.
<1>2. ASSUME \A u \in Thread : threads'[u].at \in StopPlaces => threads'[u] = threads[u],
             controller'.stopInProgress = controller.stopInProgress,
             lock' = lock \/ lock = None
      PROVE  StopHolds'
  BY <1>0, <1>2 DEF StopHolds, StopPlaces
\* One thread stops, and no other.
<1>3. ASSUME NEW t \in Thread, \A u \in Thread : u # t => threads'[u].at \notin StopPlaces,
             threads'[t].at \in StopPlaces => controller'.stopInProgress,
             threads'[t].at \in {"clearSink", "awaitSink"} => lock' = t
      PROVE  StopHolds'
  BY <1>3 DEF StopHolds, StopPlaces
<1>4. ASSUME threads["command"].at \in Starting,
             \A u \in Thread : u # "command" => threads'[u] = threads[u],
             threads'["command"].at \notin StopPlaces
      PROVE  StopHolds'
  <2>1. \A u \in Thread : threads'[u].at \notin StopPlaces
    BY <1>0, <1>4, StartIsQuiet
  <2> QED BY <1>1, <2>1
<1>5. ASSUME Leave("command") \/ \E place \in Starting : Goto("command", place)
      PROVE  /\ \A u \in Thread : u # "command" => threads'[u] = threads[u]
             /\ threads'["command"].at \notin StopPlaces
  BY <1>0, <1>5, LeaveFacts, GotoFacts DEF Starting, StopPlaces
<1>6. ASSUME NEW s \in Sink, StartSession(s) PROVE StopHolds'
  <2>1. \A u \in Thread : threads'[u].at \in StopPlaces => threads'[u] = threads[u]
    <3>1. CASE threads' = [threads EXCEPT !["command"].at = "startRecording", !["command"].sink = s]
      BY <1>0, <3>1 DEF Plan, StopPlaces
    <3> QED BY <1>6, <3>1 DEF StartSession
  <2> QED BY <1>2, <1>6, <2>1 DEF StartSession
<1>7. ASSUME NEW countIn \in BOOLEAN, QueueStart(countIn) PROVE StopHolds'
  BY <1>4, <1>5, <1>7 DEF QueueStart, At, Starting
<1>8. CASE ClearFailedStart \/ CancelFailedStart \/ FailedStartTimesOut
  BY <1>4, <1>5, <1>8
  DEF ClearFailedStart, CancelFailedStart, FailedStartTimesOut, KeepCandidate, At, Starting
<1>9. ASSUME NEW t \in {"command", "message"}, BeginStop(t) PROVE StopHolds'
  <2>1. t \in Thread
    BY DEF Thread
  <2>2. /\ threads'[t].at = "readFrame" /\ \A u \in Thread : u # t => threads'[u] = threads[u]
    BY <1>0, <1>9, <2>1, GotoFacts DEF BeginStop
  <2>3. \A u \in Thread : threads[u].at \notin StopPlaces
    BY <1>0, <1>9 DEF BeginStop, MayRequestStop, StopHolds
  <2>4. controller'.stopInProgress
    BY <1>0, <1>9 DEF BeginStop
  <2> QED BY <1>3, <2>1, <2>2, <2>3, <2>4
<1>10. ASSUME NEW t \in Thread, StopStep(t) PROVE StopHolds'
  <2>1. threads[t].at \in StopPlaces
    BY <1>10 DEF StopStep, ReadPhase, EnqueueStop, LockStop, ClearSink, SinkCleared, SinkTimesOut,
                 At, StopPlaces
  <2>2. controller.stopInProgress /\ \A u \in Thread : u # t => threads[u].at \notin StopPlaces
    BY <1>0, <2>1 DEF StopHolds
  <2>3. ASSUME Leave(t) PROVE StopHolds'
    <3>1. \A u \in Thread : threads'[u].at \notin StopPlaces
      BY <1>0, <2>2, <2>3, LeaveFacts DEF StopPlaces
    <3> QED BY <1>1, <3>1
  <2>4. ASSUME NEW place, Goto(t, place), controller' = controller,
               place \in {"clearSink", "awaitSink"} => lock' = t
        PROVE  StopHolds'
    <3>1. threads'[t].at = place /\ \A u \in Thread : u # t => threads'[u] = threads[u]
      BY <1>0, <2>4, GotoFacts
    <3> QED BY <1>3, <2>2, <2>4, <3>1
  <2>5. CASE ReadPhase(t)
    <3>1. threads'[t].at = "enqueueStop" /\ \A u \in Thread : u # t => threads'[u] = threads[u]
      BY <1>0, <2>5 DEF ReadPhase, Plan
    <3> QED BY <1>3, <2>2, <2>5, <3>1 DEF ReadPhase
  <2>6. CASE EnqueueStop(t)
    <3>1. CASE Leave(t)
      BY <2>3, <3>1
    <3>2. ASSUME controller' = controller, NEW c \in Thread, threads'[c].at = "awaitStop",
                 \A u \in Thread : u # c =>
                     IF u = t THEN threads'[u].at = "idle" ELSE threads'[u] = threads[u]
          PROVE  StopHolds'
      <4>1. \A u \in Thread : u # c => threads'[u].at \notin StopPlaces
        BY <2>2, <3>2 DEF StopPlaces
      <4> QED BY <1>3, <2>2, <3>2, <4>1
    <3> QED BY <1>0, <2>6, <3>1, <3>2, EnqueueFacts
  <2>7. CASE LockStop(t)
    BY <2>4, <2>7 DEF LockStop
  <2>8. CASE ClearSink(t)
    <3>1. lock = t
      BY <1>0, <2>8 DEF ClearSink, At, StopHolds
    <3> QED BY <2>3, <2>4, <2>8, <3>1 DEF ClearSink, ReleaseSession
  <2>9. CASE SinkCleared(t) \/ SinkTimesOut(t)
    BY <2>3, <2>9 DEF SinkCleared, SinkTimesOut, ReleaseSession
  <2> QED BY <1>10, <2>5, <2>6, <2>7, <2>8, <2>9 DEF StopStep
<1>11. ASSUME NEW s \in Sink, FinishProcessing(s) PROVE StopHolds'
  BY <1>0, <1>2, <1>11 DEF FinishProcessing
<1>12. CASE UNCHANGED recordingVars
  BY <1>2, <1>12 DEF recordingVars
<1> QED
  BY <1>6, <1>7, <1>8, <1>9, <1>10, <1>11, <1>12
  DEF RecordingNext, Start, EngineStep, allVars

\* What a stop waits for comes, and then nothing records.
LEMMA StopsStep == ASSUME RecordingInv, [RecordingNext]_allVars PROVE StopsInLine'
<1>0. /\ threads \in [Thread -> Plan] /\ RecordingTypeOK /\ StopsInLine /\ FrameIsBehind
      /\ IInv /\ TypeOK /\ CommandsInOrder
      /\ \A t \in Thread : threads[t].sequence \in Nat
      /\ realtime.applied \in Nat /\ frame.applied \in Nat
  BY DEF RecordingInv, RecordingTypeOK, EngineInv, IInv, TypeOK, RealtimeState, RealtimeFrame, Plan
\* What a thread waited for before the step it still waits for.
<1>1. ASSUME QuietKept,
             \A t \in Thread :
                 /\ threads'[t].at = "awaitStop" => threads'[t] = threads[t]
                 /\ threads'[t].at \in {"clearSink", "awaitSink"} =>
                        threads[t].at \in {"clearSink", "awaitSink"} \/ QuietNow
      PROVE  StopsInLine'
  BY <1>0, <1>1 DEF StopsInLine, QuietKept, StopNow
<1>2. CASE QueuesStart
  <2>1. PICK countIn \in BOOLEAN : QueueStart(countIn)
    BY <1>2 DEF QueuesStart
  <2>2. \A t \in Thread : threads[t].at \notin StopPlaces
    BY <2>1, StartIsQuiet DEF QueueStart, At, Starting
  <2>3. \A t \in Thread : threads'[t].at \notin StopPlaces
    <3>1. "command" \in Thread
      BY DEF Thread
    <3> QED BY <1>0, <2>1, <2>2, <3>1, LeaveFacts, GotoFacts DEF QueueStart, StopPlaces
  <2> QED BY <2>3 DEF StopsInLine, StopPlaces
<1> SUFFICES ASSUME QuietKept PROVE StopsInLine'
  BY <1>2, EngineKept
<1>3. ASSUME UNCHANGED threads PROVE StopsInLine'
  BY <1>1, <1>3
<1>4. ASSUME NEW t \in Thread, Leave(t) PROVE StopsInLine'
  <2>1. threads'[t].at = "idle" /\ \A u \in Thread : u # t => threads'[u] = threads[u]
    BY <1>0, <1>4, LeaveFacts
  <2> QED BY <1>1, <2>1
<1>5. ASSUME NEW t \in Thread, NEW place, Goto(t, place), place # "awaitStop",
             place \in {"clearSink", "awaitSink"} =>
                 threads[t].at \in {"clearSink", "awaitSink"} \/ QuietNow
      PROVE  StopsInLine'
  <2>1. threads'[t].at = place /\ \A u \in Thread : u # t => threads'[u] = threads[u]
    BY <1>0, <1>5, GotoFacts
  <2> QED BY <1>1, <1>5, <2>1
<1>6. ASSUME NEW s \in Sink, StartSession(s) PROVE StopsInLine'
  <2>1. CASE threads' = [threads EXCEPT !["command"].at = "startRecording", !["command"].sink = s]
    <3>1. \A u \in Thread : threads'[u] = threads[u] \/ threads'[u].at = "startRecording"
      BY <1>0, <2>1 DEF Plan
    <3> QED BY <1>1, <3>1
  <2> QED BY <1>3, <1>6, <2>1 DEF StartSession
<1>7. CASE ClearFailedStart \/ CancelFailedStart \/ FailedStartTimesOut
  <2>1. "command" \in Thread
    BY DEF Thread
  <2> QED BY <1>4, <1>5, <1>7, <2>1
       DEF ClearFailedStart, CancelFailedStart, FailedStartTimesOut, KeepCandidate
<1>8. ASSUME NEW t \in {"command", "message"}, BeginStop(t) PROVE StopsInLine'
  <2>1. t \in Thread
    BY DEF Thread
  <2> QED BY <1>5, <1>8, <2>1 DEF BeginStop
<1>9. ASSUME NEW t \in Thread, StopStep(t) PROVE StopsInLine'
  <2>1. CASE ReadPhase(t)
    <3>1. threads'[t].at = "enqueueStop" /\ \A u \in Thread : u # t => threads'[u] = threads[u]
      BY <1>0, <2>1 DEF ReadPhase, Plan
    <3> QED BY <1>1, <3>1
  <2>2. CASE EnqueueStop(t)
    <3>1. CASE Leave(t)
      BY <1>4, <3>1
    <3>2. ASSUME Submit(Command("stopArrangeRecording")),
                 NEW c \in Thread, threads'[c].at = "awaitStop", threads'[c].sequence = nextCommand,
                 \A u \in Thread : u # c =>
                     IF u = t THEN threads'[u].at = "idle" ELSE threads'[u] = threads[u]
          PROVE  StopsInLine'
      <4> DEFINE stop == Command("stopArrangeRecording")
      <4>1. stop \in RealtimeCommand /\ stop.kind = "stopArrangeRecording"
        BY CommandType DEF Kind, Command
      <4> HIDE DEF stop
      <4>2. Submit(stop)
        BY <3>2 DEF stop
      <4>3. StopInLine(realtime', commands', nextCommand)
        BY <1>0, <4>1, <4>2, SubmittedLine
      <4>4. ASSUME NEW u \in Thread, u # c
            PROVE  /\ threads'[u].at = "awaitStop" => StopInLine(realtime', commands', threads'[u].sequence)
                   /\ threads'[u].at \in {"clearSink", "awaitSink"} => QuietNow'
        BY <1>0, <3>2, <4>4 DEF StopsInLine, QuietKept, StopNow
      <4> QED BY <3>2, <4>3, <4>4 DEF StopsInLine, StopNow
    <3> QED BY <1>0, <2>2, <3>1, <3>2, EnqueueFacts
  <2>3. CASE LockStop(t)
    <3>1. QuietNow
      BY <1>0, <2>3 DEF LockStop, At, StopApplied, StopsInLine, StopNow, StopInLine, QuietNow, FrameIsBehind
    <3> QED BY <1>5, <2>3, <3>1 DEF LockStop
  <2>4. CASE ClearSink(t)
    BY <1>4, <1>5, <2>4 DEF ClearSink, ReleaseSession, At
  <2>5. CASE SinkCleared(t) \/ SinkTimesOut(t)
    BY <1>4, <2>5 DEF SinkCleared, SinkTimesOut, ReleaseSession
  <2> QED BY <1>9, <2>1, <2>2, <2>3, <2>4, <2>5 DEF StopStep
<1>10. CASE UNCHANGED recordingVars
  BY <1>3, <1>10 DEF recordingVars
<1>11. ASSUME NEW s \in Sink, FinishProcessing(s) PROVE StopsInLine'
  BY <1>3, <1>11 DEF FinishProcessing
<1> QED
  BY <1>2, <1>6, <1>7, <1>8, <1>9, <1>10, <1>11
  DEF RecordingNext, Start, EngineStep, allVars, QueuesStart

-----------------------------------------------------------------------------
(* The theorems.                                                           *)

LEMMA RecordingInitInv == RecordingInit => RecordingInv
<1> SUFFICES ASSUME RecordingInit PROVE RecordingInv
  OBVIOUS
<1>1. /\ Init /\ controlSink = None /\ lock = None
      /\ controller = [session |-> None, processing |-> FALSE, stopInProgress |-> FALSE]
      /\ threads = [t \in Thread |-> [at |-> "idle", sink |-> None, sequence |-> 0, cancel |-> FALSE]]
      /\ sessions = [s \in Sink |-> "none"]
  BY DEF RecordingInit
<1>2. IInv
  BY <1>1, InitInv
<1>3. commands = <<>> /\ Len(commands) = 0 /\ realtime.phase = "idle" /\ realtime.sink = None
      /\ realtime.applied = 0 /\ frame.applied = 0 /\ sinks.retired = {}
  BY <1>1 DEF Init, FrameOf
<1>4. EngineInv
  BY <1>2, <1>3 DEF EngineInv, FrameIsBehind, ClearsNow, ClearsInLine
<1>5. RecordingTypeOK
  BY <1>1, <1>2 DEF RecordingTypeOK, IInv, Plan
<1>6. SinkInv /\ OwnedInv
  BY <1>1, <1>3 DEF SinkInv, SinksNow, SinkInLine, OwnedInv, QuietNow, Quiet
<1>7. \A t \in Thread : threads[t].at = "idle"
  BY <1>1
<1>8. StartHolds /\ StopHolds /\ StopsInLine
  BY <1>7 DEF Thread, StartHolds, StopHolds, StopsInLine, Starting, StopPlaces
<1> QED BY <1>4, <1>5, <1>6, <1>8 DEF RecordingInv

LEMMA RecordingStepInv == RecordingInv /\ [RecordingNext]_allVars => RecordingInv'
<1> SUFFICES ASSUME RecordingInv, [RecordingNext]_allVars PROVE RecordingInv'
  OBVIOUS
<1>1. EngineInv'
  BY EngineKept
<1> QED BY <1>1, RecordingTypeStep, SinkStep, OwnedStep, StartStep, StopStepHolds, StopsStep
     DEF RecordingInv

\* The inductive invariant holds in every state of the controller and its engine.
THEOREM RecordingInvariance == RecordingSpec => []RecordingInv
<1>1. RecordingInit => RecordingInv
  BY RecordingInitInv
<1>2. RecordingInv /\ [RecordingNext]_allVars => RecordingInv'
  BY RecordingStepInv
<1> QED BY <1>1, <1>2, PTL DEF RecordingSpec

\* The controller's own commands break nothing of what the engine promises: its
\* invariant holds under them too.
THEOREM EngineHoldsBelow == RecordingSpec => []IInv
<1>1. RecordingInv => IInv
  BY DEF RecordingInv, EngineInv
<1> QED BY <1>1, RecordingInvariance, PTL

\* The plain pointer RecordingCaptureRuntime::sink never points to a sink whose
\* session was cancelled or handed over, nor does a queued command.
THEOREM SinksAreAlive == RecordingSpec => []SinkIsAlive
<1>1. ASSUME RecordingInv PROVE SinkIsAlive
  <2>1. SinksNow(controlSink) /\ (controlSink # None => sessions[controlSink] = "open")
    BY <1>1 DEF RecordingInv, SinkInv
  <2> QED BY <2>1 DEF SinkIsAlive, SinksNow, SinkInLine, IsSet
<1> QED BY <1>1, RecordingInvariance, PTL

\* The sink of a stop that timed out can be found by the next stop.
THEOREM SinksAreAccountedFor == RecordingSpec => []SinkIsAccountedFor
<1>1. ASSUME RecordingInv PROVE SinkIsAccountedFor
  <2>1. SinksNow(controlSink)
    BY <1>1 DEF RecordingInv, SinkInv
  <2> QED BY <2>1 DEF SinkIsAccountedFor, SinksNow, SinkInLine
<1> QED BY <1>1, RecordingInvariance, PTL

\* A recording, or a count-in, keeps its sink for as long as it runs.
THEOREM SinksOutliveRecordings == RecordingSpec => SinkOutlivesRecording
<1>1. RecordingInv /\ [RecordingNext]_allVars =>
          [realtime.sink # None /\ realtime'.sink # realtime.sink => realtime.phase = "idle"]_allVars
  BY EngineKept DEF SinkRests
<1> QED BY <1>1, RecordingInvariance, PTL DEF RecordingSpec, SinkOutlivesRecording

\* The audio thread records only for a session the controller still has.
THEOREM RecordingsAreOwned == RecordingSpec => []RecordingIsOwned
<1>1. RecordingInv => RecordingIsOwned
  BY DEF RecordingInv, OwnedInv, QuietNow, Quiet, RecordingIsOwned
<1> QED BY <1>1, RecordingInvariance, PTL
=============================================================================

---------------------------- MODULE NativeRecording ----------------------------
(***************************************************************************)
(* RecordingController (native/audio-engine/src/app/RecordingController)   *)
(* on top of the TimelineEngine: the command thread starts a recording and *)
(* requests its stop, a worker completes the stop, and the message thread  *)
(* stops a recording whose device was lost and finalizes what was          *)
(* captured.  Each of them reaches the audio thread only through the       *)
(* realtime commands and sees it only through the published frame.         *)
(*                                                                         *)
(* A session is its capture sink.  The controller's lock is `lock`; a stop *)
(* that waits (for its command, for its sink) is a step of its thread.     *)
(***************************************************************************)
EXTENDS TimelineEngine

Thread == {"command", "worker", "message"}
ASSUME ThreadAssumption == None \notin Thread

VARIABLES
    controlSink,  \* TimelineEngine::controlRecordingSink
    controller,   \* arrangeRecording, processing, stopInProgress
    lock,         \* the thread holding RecordingController::lock across steps, or None
    threads,      \* per thread: where it is in start, requestStop or completeStop
    sessions      \* per sink: what became of its ArrangeRecordingSession

recordingVars == <<controlSink, controller, lock, threads, sessions>>
allVars == <<vars, recordingVars>>

Plan == [at : {"idle", "startRecording", "clearFailedStart", "awaitFailedStart", "readFrame",
               "enqueueStop", "awaitStop", "clearSink", "awaitSink"},
         sink : Sink \union {None},   \* start's candidate
         sequence : Nat,              \* PendingRecordingStop
         cancel : BOOLEAN]

RecordingTypeOK ==
    /\ TypeOK
    /\ controlSink \in Sink \union {None}
    /\ controller \in [session : Sink \union {None}, processing : BOOLEAN,
                       stopInProgress : BOOLEAN]
    /\ lock \in Thread \union {None}
    /\ threads \in [Thread -> Plan]
    /\ sessions \in [Sink -> {"none", "open", "cancelled", "processing", "finished"}]

RecordingInit ==
    /\ Init
    /\ controlSink = None
    /\ controller = [session |-> None, processing |-> FALSE, stopInProgress |-> FALSE]
    /\ lock = None
    /\ threads = [t \in Thread |-> [at |-> "idle", sink |-> None, sequence |-> 0, cancel |-> FALSE]]
    /\ sessions = [s \in Sink |-> "none"]

StopPlaces == {"readFrame", "enqueueStop", "awaitStop", "clearSink", "awaitSink"}

At(t, place) == threads[t].at = place
Goto(t, place) == threads' = [threads EXCEPT ![t].at = place]
Leave(t) == threads' = [threads EXCEPT ![t] = [at |-> "idle", sink |-> None, sequence |-> 0,
                                               cancel |-> FALSE]]

\* What a step of the controller leaves alone in the engine.
EngineSubmits == UNCHANGED <<owner, registry, task, device, block, readers>>
EngineRests == UNCHANGED vars

-----------------------------------------------------------------------------
(* start, on the command thread.                                           *)

\* A new session whose sink is queued; a full queue cancels the candidate.
StartSession(s) ==
    /\ At("command", "idle") /\ lock = None
    /\ controller = [session |-> None, processing |-> FALSE, stopInProgress |-> FALSE]
    /\ sessions[s] = "none" /\ nextCommand <= MaxCommands
    /\ \/ /\ controlSink = None
          /\ Submit([Command("setRecordingSink") EXCEPT !.sink = s])
          /\ controlSink' = s
          /\ sessions' = [sessions EXCEPT ![s] = "open"]
          /\ threads' = [threads EXCEPT !["command"].at = "startRecording", !["command"].sink = s]
          /\ lock' = "command"
          /\ EngineSubmits
       \/ /\ controlSink # None \/ Refused
          /\ sessions' = [sessions EXCEPT ![s] = "cancelled"]
          /\ EngineRests /\ UNCHANGED <<controlSink, threads, lock>>
    /\ UNCHANGED controller

\* TimelineEngine::startRecording.
QueueStart(countIn) ==
    /\ At("command", "startRecording")
    /\ \/ /\ LatestCommitted # 0 /\ frame.phase = "idle"
          /\ Submit([Command("startRecording") EXCEPT !.countIn = countIn])
          /\ controller' = [controller EXCEPT !.session = threads["command"].sink]
          /\ Leave("command") /\ lock' = None
          /\ EngineSubmits
       \/ /\ LatestCommitted = 0 \/ frame.phase # "idle" \/ Refused
          /\ Goto("command", "clearFailedStart")
          /\ EngineRests /\ UNCHANGED <<controller, lock>>
    /\ UNCHANGED <<controlSink, sessions>>

\* A start whose sink cannot be cleared keeps the candidate as its recording.
KeepCandidate ==
    /\ controller' = [controller EXCEPT !.session = threads["command"].sink]
    /\ Leave("command") /\ lock' = None
    /\ EngineRests /\ UNCHANGED <<controlSink, sessions>>

ClearFailedStart ==
    /\ At("command", "clearFailedStart")
    /\ \/ /\ Submit(Command("clearRecordingSink"))
          /\ Goto("command", "awaitFailedStart")
          /\ EngineSubmits /\ UNCHANGED <<controlSink, controller, lock, sessions>>
       \/ Refused /\ KeepCandidate

\* waitForRetiredSink takes every retired sink and looks for its own.
SinkReturned == controlSink \in sinks.retired
TakeRetiredSinks == sinks' = [sinks EXCEPT !.retired = {}]
OnlySinks == UNCHANGED <<owner, queueVars, realtime, frame, graphVars, racks, task, device, block,
                         readers>>

CancelFailedStart ==
    /\ At("command", "awaitFailedStart") /\ SinkReturned
    /\ TakeRetiredSinks /\ OnlySinks
    /\ controlSink' = None
    /\ sessions' = [sessions EXCEPT ![threads["command"].sink] = "cancelled"]
    /\ Leave("command") /\ lock' = None
    /\ UNCHANGED controller

\* One second without the sink.
FailedStartTimesOut ==
    /\ At("command", "awaitFailedStart") /\ ~SinkReturned
    /\ KeepCandidate

-----------------------------------------------------------------------------
(* requestStop, on the command thread or, after a device loss, on the      *)
(* message thread.                                                         *)

\* The dispatcher reserves the stop: its worker has none left.
Reserved(t) == t = "command" => At("worker", "idle")

MayRequestStop == ~controller.processing /\ ~controller.stopInProgress

BeginStop(t) ==
    /\ At(t, "idle") /\ lock = None /\ Reserved(t)
    /\ t = "message" => task.kind = "none" /\ device.state # "running"
    /\ MayRequestStop /\ nextCommand <= MaxCommands
    /\ controller' = [controller EXCEPT !.stopInProgress = TRUE]
    /\ Goto(t, "readFrame")
    /\ EngineRests /\ UNCHANGED <<controlSink, lock, sessions>>

ReadPhase(t) ==
    /\ At(t, "readFrame")
    /\ threads' = [threads EXCEPT ![t].at = "enqueueStop",
                                  ![t].cancel = frame.phase = "countingIn"]
    /\ EngineRests /\ UNCHANGED <<controlSink, controller, lock, sessions>>

\* The command thread hands the stop to the worker, the message thread keeps it.
EnqueueStop(t) ==
    LET completer == IF t = "command" THEN "worker" ELSE t
        pending == [at |-> "awaitStop", sink |-> None, sequence |-> nextCommand,
                    cancel |-> threads[t].cancel]
        idle == [at |-> "idle", sink |-> None, sequence |-> 0, cancel |-> FALSE]
    IN /\ At(t, "enqueueStop")
       /\ \/ /\ Submit(Command("stopArrangeRecording"))
             /\ threads' = [threads EXCEPT ![t] = idle, ![completer] = pending]
             /\ EngineSubmits /\ UNCHANGED controller
          \/ /\ Refused /\ lock = None
             /\ controller' = [controller EXCEPT !.stopInProgress = FALSE]
             /\ Leave(t) /\ EngineRests
       /\ UNCHANGED <<controlSink, lock, sessions>>

-----------------------------------------------------------------------------
(* completeStop, on the worker or the message thread.                      *)

StopApplied(t) == frame.applied >= threads[t].sequence

\* Waits for the stop command, without a deadline, then takes the lock.
LockStop(t) ==
    /\ At(t, "awaitStop") /\ StopApplied(t) /\ lock = None
    /\ lock' = t
    /\ Goto(t, "clearSink")
    /\ EngineRests /\ UNCHANGED <<controlSink, controller, sessions>>

\* The sink is gone: the session is cancelled or handed over for finalization.
ReleaseSession(t) ==
    LET s == controller.session IN
    /\ controller' = [session |-> None, stopInProgress |-> FALSE,
                      processing |-> s # None /\ ~threads[t].cancel]
    /\ sessions' = IF s = None THEN sessions
                   ELSE [sessions EXCEPT ![s] = IF threads[t].cancel THEN "cancelled"
                                                ELSE "processing"]
    /\ Leave(t) /\ lock' = None

\* Mutant: a stop that failed is forgotten while it still counts as pending.
StayInProgress(t) == UNCHANGED controller

\* The sink could not be cleared: the recording stays for another stop.
StopFailed(t) == controller' = [controller EXCEPT !.stopInProgress = FALSE]

ClearSink(t) ==
    /\ At(t, "clearSink")
    /\ \/ /\ controlSink = None
          /\ ReleaseSession(t) /\ EngineRests /\ UNCHANGED controlSink
       \/ /\ controlSink # None
          /\ Submit(Command("clearRecordingSink"))
          /\ Goto(t, "awaitSink")
          /\ EngineSubmits /\ UNCHANGED <<controlSink, controller, lock, sessions>>
       \/ /\ controlSink # None /\ Refused
          /\ StopFailed(t) /\ Leave(t) /\ lock' = None
          /\ EngineRests /\ UNCHANGED <<controlSink, sessions>>

SinkCleared(t) ==
    /\ At(t, "awaitSink") /\ SinkReturned
    /\ TakeRetiredSinks /\ OnlySinks
    /\ controlSink' = None
    /\ ReleaseSession(t)

\* Mutant: a sink that was not returned in time is forgotten.
ForgetSink(t) ==
    /\ At(t, "awaitSink") /\ ~SinkReturned
    /\ controlSink' = None
    /\ ReleaseSession(t) /\ EngineRests

SinkTimesOut(t) ==
    /\ At(t, "awaitSink") /\ ~SinkReturned
    /\ StopFailed(t) /\ Leave(t) /\ lock' = None
    /\ EngineRests /\ UNCHANGED <<controlSink, sessions>>

\* The finalization task, on the message thread: completeProcessing.
FinishProcessing(s) ==
    /\ sessions[s] = "processing" /\ lock = None
    /\ task.kind = "none" /\ At("message", "idle")
    /\ sessions' = [sessions EXCEPT ![s] = "finished"]
    /\ controller' = [controller EXCEPT !.processing = FALSE]
    /\ EngineRests /\ UNCHANGED <<controlSink, lock, threads>>

-----------------------------------------------------------------------------
Start ==
    \/ \E s \in Sink : StartSession(s)
    \/ \E countIn \in BOOLEAN : QueueStart(countIn)
    \/ ClearFailedStart \/ CancelFailedStart \/ FailedStartTimesOut

StopStep(t) ==
    ReadPhase(t) \/ EnqueueStop(t) \/ LockStop(t) \/ ClearSink(t) \/ SinkCleared(t)
        \/ SinkTimesOut(t)

\* The engine moves by itself; a message thread that waits for a stop runs no task.
EngineStep ==
    /\ \/ \E kind \in Requests : RequestTransport(kind)
       \/ Task /\ At("message", "idle")
       \/ Device \/ Audio
       \/ \E r \in Reader : ReadFrame(r) \/ VisitGraph(r)
    /\ UNCHANGED recordingVars

RecordingNext ==
    \/ EngineStep
    \/ Start
    \/ \E t \in {"command", "message"} : BeginStop(t)
    \/ \E t \in Thread : StopStep(t)
    \/ \E s \in Sink : FinishProcessing(s)

RecordingFairness ==
    /\ WF_allVars(Audio /\ UNCHANGED recordingVars)
    /\ WF_allVars(TakeControl /\ UNCHANGED recordingVars)
    /\ WF_allVars(Start /\ lock = "command")
    /\ \A t \in Thread : WF_allVars(StopStep(t))

RecordingSpec == RecordingInit /\ [][RecordingNext]_allVars /\ RecordingFairness

-----------------------------------------------------------------------------
(* Properties.                                                             *)

\* The audio thread never holds, nor is about to take, a sink whose session was
\* cancelled or handed over: both destroy it, and RecordingCaptureRuntime::sink
\* is a plain pointer.
SinkIsAlive ==
    /\ realtime.sink # None => sessions[realtime.sink] = "open"
    /\ \A i \in 1 .. Len(commands) :
           commands[i].kind = "setRecordingSink" => sessions[commands[i].sink] = "open"

\* What the audio thread records, or counts in to, belongs to a session that a
\* stop can reach: no recording runs on after its session is gone.
RecordingIsOwned == realtime.phase # "idle" => controller.session # None

\* One stop at a time, although the command thread and a device loss can both
\* ask for one.
OneStop == Cardinality({t \in Thread : threads[t].at \in StopPlaces}) <= 1

\* A sink the audio thread has let go is not lost with a stop that timed out:
\* it is in the retired queue for the next stop to find, or still in use, or its
\* command is queued.
SinkIsAccountedFor ==
    controlSink # None =>
        \/ controlSink = realtime.sink \/ controlSink \in sinks.retired
        \/ \E i \in 1 .. Len(commands) : commands[i].sink = controlSink

\* A stop that was accepted ends, done or failed, and gives the controller back
\* to the next start or stop (the wait for its command has no deadline).
StopsEnd == controller.stopInProgress ~> ~controller.stopInProgress

\* "RecordingStartQueueFullLeavesNoSessionOrSinkAndCanRetry" (a test's name): a
\* start that fails leaves no session behind.
RefusedStartLeavesNothing ==
    [][threads["command"].at \in {"clearFailedStart", "awaitFailedStart"} =>
           controller'.session = None]_allVars

\* A sink is never taken from a recording, or a count-in, that still runs: the
\* stop takes effect before the sink's command, through any device change.
SinkOutlivesRecording ==
    [][realtime.sink # None /\ realtime'.sink # realtime.sink => realtime.phase = "idle"]_allVars
===============================================================================

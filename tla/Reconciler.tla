----------------------------- MODULE Reconciler ------------------------------
(***************************************************************************)
(* RuntimeReconciler: the projection coordinator and the transport that    *)
(* waits for it.                                                           *)
(*                                                                         *)
(*   runtime/transport.rs            TransportController: the Play intent  *)
(*   runtime/transport_executor.rs   the execution lease, native transport *)
(*   runtime.rs                      the status hook, play, stop, pause    *)
(*   host/control.rs, host/audio.rs  the callers                           *)
(*                                                                         *)
(* The coordinator calls its status hook on the thread whose step changed  *)
(* the status, after it released the machine's mutex.  A hook that has to  *)
(* act on the transport therefore runs at some later time, on a thread     *)
(* that does nothing else until it has returned.                           *)
(***************************************************************************)
EXTENDS ProjectionCoordinator, FiniteSets

CONSTANTS Player,        \* Host threads that serve transport commands
          MaxTransport   \* bound on transport operations

ASSUME PlayerAssumption == Player \intersect (Caller \union {"worker"}) = {}
ASSUME MaxTransportAssumption == MaxTransport \in Nat

VARIABLES intent,      \* TransportController.intent: None or [operation, required]
          operations,  \* TransportController.operation
          lease,       \* TransportExecutor.execution: who holds the lease
          transport,   \* the native transport
          failure,     \* RuntimeReconciler.transport_failure is Some
          hook,        \* per thread: the status hook it is running
          player       \* the transport threads

transportVars == <<intent, operations, lease, transport, failure>>
reconcilerVars == <<vars, transportVars, hook, player>>

Thread == Caller \union Player \union {"worker"}

PlayIntent == [operation : Nat, required : Key]
Hook == [at : {"active", "failed"}, key : Key]
        \union [at : {"play", "stop"}]
ASSUME NothingAssumption == None \notin Hook \union PlayIntent \union Thread

\* Inside a transport operation, with the lease.
Leased == {"check", "play", "markFailed", "starting", "pending", "stop", "quiet", "drop"}
PlayerAt == Leased \union
    {"askPlay", "askStop", "wantPlay", "wantStop", "wantQuiet",
     "resubmit", "advance", "status", "observe", "return"}
Command == [at : PlayerAt, intent : Intent]

ReconcilerTypeOK ==
    /\ StateOK
    /\ writer \in Caller \union Player \union {None}
    /\ intent \in PlayIntent \union {None}
    /\ operations \in Nat
    /\ lease \in Thread \union {None}
    /\ transport \in {"stopped", "starting", "playing", "paused"}
    /\ failure \in BOOLEAN
    /\ hook \in [Thread -> Hook \union {None}]
    /\ player \in [Player -> Command \union {Idle}]

ReconcilerInit ==
    /\ Init
    /\ intent = None /\ operations = 0 /\ lease = None
    /\ transport = "stopped" /\ failure = FALSE
    /\ hook = [t \in Thread |-> None]
    /\ player = [p \in Player |-> Idle]

-----------------------------------------------------------------------------
(* The status hook.                                                        *)

\* Mutant: a failure without a target still runs the hook.
HookForAnyTarget(status) ==
    CASE status.state = "active" /\ status.active # None -> [at |-> "active", key |-> status.active]
      [] status.state = "failed" -> [at |-> "failed", key |-> status.target]
      [] OTHER -> None

\* What the hook will do for a status; None when it leaves transport alone.
HookFor(status) ==
    CASE status.state = "active" /\ status.active # None -> [at |-> "active", key |-> status.active]
      [] status.state = "failed" /\ status.target # None -> [at |-> "failed", key |-> status.target]
      [] OTHER -> None

\* PublishStatus: thread t runs the hook when its step changed the status.
Publish(t) ==
    hook' = [hook EXCEPT ![t] =
        IF Status(machine') # Status(machine) THEN HookFor(Status(machine')) ELSE None]

\* A native result also stamps the status of the canonical job, which may be
\* the only change (last_native_response_at_ms).
Republish(t) ==
    /\ worker.at \in {"decide", "conclude"}
    /\ machine.job # None
    /\ machine.job.request.origin = Canonical \/ IsIntended(machine, machine.job.request.graph)
    /\ hook' = [hook EXCEPT ![t] = HookFor(Status(machine'))]

\* Mutant: every activation plays.
SatisfiedByAny(key) == key \in Key

\* projection_activated
Satisfied(key) == intent # None /\ intent.required = key

\* Mutant: only a later key releases the intent.
UnsatisfiableAfter(key) == intent # None /\ key.sequence > intent.required.sequence

\* release_stale_play and record_projection_failure: nothing at or after
\* `key` will satisfy the intent.
Unsatisfiable(key) == intent # None /\ key.sequence >= intent.required.sequence

\* Mutant: the hook does not wait for the lease.
RunHookUnleased(t) ==
    /\ hook[t] # None /\ hook[t].at \in {"active", "failed"}
    /\ LET key == hook[t].key
       IN IF hook[t].at = "active" /\ Satisfied(key)
          THEN /\ hook' = [hook EXCEPT ![t] = [at |-> "play"]]
               /\ lease' = t
               /\ UNCHANGED intent
          ELSE IF Unsatisfiable(key)
          THEN /\ hook' = [hook EXCEPT ![t] = [at |-> "stop"]]
               /\ lease' = t
               /\ intent' = None
          ELSE /\ hook' = [hook EXCEPT ![t] = None]
               /\ UNCHANGED <<intent, lease>>
    /\ UNCHANGED <<vars, operations, transport, failure, player>>

\* play_after_projection and fail_play_for_projection take the lease and
\* decide.
RunHook(t) ==
    /\ hook[t] # None /\ hook[t].at \in {"active", "failed"}
    /\ lease = None
    /\ LET key == hook[t].key
       IN IF hook[t].at = "active" /\ Satisfied(key)
          THEN /\ hook' = [hook EXCEPT ![t] = [at |-> "play"]]
               /\ lease' = t
               /\ UNCHANGED intent
          ELSE IF Unsatisfiable(key)
          THEN /\ hook' = [hook EXCEPT ![t] = [at |-> "stop"]]
               /\ lease' = t
               /\ intent' = None
          ELSE /\ hook' = [hook EXCEPT ![t] = None]
               /\ UNCHANGED <<intent, lease>>
    /\ UNCHANGED <<vars, operations, transport, failure, player>>

\* play_if_current from the hook: native play consumes the intent, a failure
\* releases it, stops the native transport and is kept for status().
HookPlays(t) ==
    /\ hook[t] = [at |-> "play"]
    /\ \/ /\ transport' = "playing"
          /\ UNCHANGED failure
       \/ /\ transport' \in {"stopped", transport}   \* that stop may fail too
          /\ failure' = TRUE
    /\ intent' = None
    /\ lease' = None
    /\ hook' = [hook EXCEPT ![t] = None]
    /\ UNCHANGED <<vars, operations, player>>

\* The stop after a released intent; an error is only logged.
HookStops(t) ==
    /\ hook[t] = [at |-> "stop"]
    /\ transport' \in {"stopped", transport}
    /\ lease' = None
    /\ hook' = [hook EXCEPT ![t] = None]
    /\ UNCHANGED <<vars, intent, operations, failure, player>>

HookStep(t) == RunHook(t) \/ HookPlays(t) \/ HookStops(t)

-----------------------------------------------------------------------------
(* Transport commands.                                                     *)

PlayerTo(p, at) == player' = [player EXCEPT ![p].at = at]
At(p, at) == hook[p] = None /\ player[p].at = at

\* A user asks for Play, for Stop or Pause, for an audio device change
\* (begin_audio_transition) or for the status.
Ask(p, at) ==
    /\ At(p, "idle") /\ ~machine.stopped
    /\ player' = [player EXCEPT ![p] = [at |-> at, intent |-> core]]
    /\ UNCHANGED <<vars, transportVars, hook>>

Asking == {q \in Player : player[q].at \in {"askPlay", "askStop", "wantPlay", "wantStop", "wantQuiet"}}
MayAsk == operations + Cardinality(Asking) < MaxTransport

AskPlay(p) == MayAsk /\ Ask(p, "askPlay")
AskStop(p) == MayAsk /\ Ask(p, "askStop")
AskAudioChange(p) == MayAsk /\ machine.environment.revision < MaxRevision /\ Ask(p, "wantQuiet")
AskStatus(p) == failure /\ Ask(p, "status")

\* A Project command holds the writer lock from the canonical state it reads
\* to its answer; an audio command does not take it.
EnterProject(p) ==
    /\ At(p, "askPlay") \/ At(p, "askStop")
    /\ writer = None
    /\ writer' = p
    /\ player' = [player EXCEPT ![p] =
            [at |-> IF @.at = "askPlay" THEN "wantPlay" ELSE "wantStop", intent |-> core]]
    /\ UNCHANGED <<machine, late, worker, native, core, call, transportVars, hook>>

\* request_play_when_ready: the lease, and the new intent
RequestPlay(p) ==
    /\ At(p, "wantPlay") /\ lease = None
    /\ lease' = p
    /\ operations' = operations + 1
    /\ intent' = [operation |-> operations', required |-> player[p].intent.key]
    /\ PlayerTo(p, "check")
    /\ UNCHANGED <<vars, transport, failure, hook>>

\* is_ready_for observes the generation, then looks.
CheckReady(p) ==
    /\ At(p, "check")
    /\ machine' = GenerationObserved(machine, native.generation)
    /\ PlayerTo(p, IF ReadyFor(machine', player[p].intent.key) THEN "play" ELSE "starting")
    /\ Publish(p)
    /\ UNCHANGED <<late, worker, native, core, writer, call, transportVars>>

\* play_if_current: native play consumes the intent; on a failure the intent
\* is released, the native transport stopped and the projection marked failed.
PlayNow(p) ==
    /\ At(p, "play")
    /\ \/ transport' = "playing" /\ PlayerTo(p, "drop")
       \/ transport' \in {"stopped", transport} /\ PlayerTo(p, "markFailed")
    /\ intent' = None
    /\ UNCHANGED <<vars, operations, lease, failure, hook>>

\* mark_failed, still under the lease, and the hook it causes
MarkPlayFailed(p) ==
    /\ At(p, "markFailed")
    /\ machine' = MarkFailed(machine)
    /\ Publish(p)
    /\ PlayerTo(p, "drop")
    /\ UNCHANGED <<late, worker, native, core, writer, call, transportVars>>

\* set_transport_starting, or the rollback of the intent
AnnounceStarting(p) ==
    /\ At(p, "starting")
    /\ \/ /\ transport' = "starting"
          /\ PlayerTo(p, "pending")
          /\ UNCHANGED <<intent, operations>>
       \/ /\ intent' = None /\ operations' = operations + 1
          /\ PlayerTo(p, "drop")
          /\ UNCHANGED transport
    /\ UNCHANGED <<vars, lease, failure, hook>>

\* pending_work_for, and the lease is dropped: Waiting leaves the intent to the
\* status hook, Stalled sends the caller to resubmit the canonical state.
CheckPending(p) ==
    /\ At(p, "pending")
    /\ machine' = GenerationObserved(machine, native.generation)
    /\ PlayerTo(p, IF PendingFor(machine', player[p].intent.key) THEN "return" ELSE "resubmit")
    /\ lease' = None
    /\ Publish(p)
    /\ UNCHANGED <<late, worker, native, core, writer, call, intent, operations, transport, failure>>

\* project_committed on behalf of a stalled Play, and apply_and_wait after an
\* audio device change; the outcome it may wait for changes nothing here.
Resubmit(p) ==
    /\ At(p, "resubmit")
    /\ LET observed == GenerationObserved(machine, native.generation)
           submitted == Submit(observed, player[p].intent.key, player[p].intent.graph, FALSE, TRUE)
       IN machine' = RemoveWaiter(submitted, submitted.next)
    /\ PlayerTo(p, "return")
    /\ Publish(p)
    /\ UNCHANGED <<late, worker, native, core, writer, call, transportVars>>

\* The lease guard is dropped.
DropLease(p) ==
    /\ At(p, "drop")
    /\ lease' = None
    /\ PlayerTo(p, "return")
    /\ UNCHANGED <<vars, intent, operations, transport, failure, hook>>

\* The command returns, and with it the writer lock.
LeaveProject(p) ==
    /\ At(p, "return")
    /\ player' = [player EXCEPT ![p] = Idle]
    /\ writer' = IF writer = p THEN None ELSE writer
    /\ UNCHANGED <<machine, late, worker, native, core, call, transportVars, hook>>

\* request_stop, and stop_for_audio_environment's invalidate_play_intent
RequestStop(p) ==
    /\ At(p, "wantStop") \/ At(p, "wantQuiet")
    /\ lease = None
    /\ lease' = p
    /\ operations' = operations + 1
    /\ intent' = None
    /\ PlayerTo(p, IF player[p].at = "wantStop" THEN "stop" ELSE "quiet")
    /\ UNCHANGED <<vars, transport, failure, hook>>

\* stop_timeline or pause_timeline, and the lease is dropped; a refused call is
\* the command's error, after an accepted one it reads the status.
StopNative(p) ==
    /\ At(p, "stop")
    /\ \/ transport' \in {"stopped", "paused"} /\ PlayerTo(p, "status")
       \/ UNCHANGED transport /\ PlayerTo(p, "return")
    /\ lease' = None
    /\ UNCHANGED <<vars, intent, operations, failure, hook>>

\* The same before an audio device change; a refused stop abandons it.
QuietForChange(p) ==
    /\ At(p, "quiet")
    /\ \/ transport' = "stopped" /\ PlayerTo(p, "advance")
       \/ UNCHANGED transport /\ PlayerTo(p, "return")
    /\ lease' = None
    /\ UNCHANGED <<vars, intent, operations, failure, hook>>

\* reproject_after_audio_device_change, on the canonical state of this moment
AdvanceEnvironment(p) ==
    /\ At(p, "advance")
    /\ machine' = AudioEnvironmentAdvanced(GenerationObserved(machine, native.generation))
    /\ player' = [player EXCEPT ![p] = [at |-> "resubmit", intent |-> core]]
    /\ Publish(p)
    /\ UNCHANGED <<late, worker, native, core, writer, call, transportVars>>

\* RuntimeReconciler::status: a Play that failed in the hook becomes a failed
\* projection,
ConsumeTransportFailure(p) ==
    /\ At(p, "status")
    /\ failure' = FALSE
    /\ machine' = IF failure THEN MarkFailed(machine) ELSE machine
    /\ Publish(p)
    /\ PlayerTo(p, "observe")
    /\ UNCHANGED <<late, worker, native, core, writer, call, intent, operations, lease, transport>>

\* and then the coordinator observes the generation.
ReadStatus(p) ==
    /\ At(p, "observe")
    /\ machine' = GenerationObserved(machine, native.generation)
    /\ Publish(p)
    /\ PlayerTo(p, "return")
    /\ UNCHANGED <<late, worker, native, core, writer, call, transportVars>>

PlayerStep(p) ==
    \/ EnterProject(p) \/ RequestPlay(p) \/ CheckReady(p) \/ PlayNow(p) \/ MarkPlayFailed(p)
    \/ AnnounceStarting(p) \/ CheckPending(p) \/ Resubmit(p) \/ DropLease(p) \/ LeaveProject(p)
    \/ RequestStop(p) \/ StopNative(p) \/ QuietForChange(p) \/ AdvanceEnvironment(p)
    \/ ConsumeTransportFailure(p) \/ ReadStatus(p)

-----------------------------------------------------------------------------
(* The coordinator's threads, with the hooks their steps cause.            *)

CallerStepsOn(c) ==
    /\ hook[c] = None
    /\ CallerStep(c)
    /\ Publish(c)
    /\ UNCHANGED <<transportVars, player>>

WorkerStepsOn ==
    /\ hook["worker"] = None
    /\ WorkerStep
    /\ Publish("worker") \/ Republish("worker")
    /\ UNCHANGED <<transportVars, player>>

ClockStep == Expire /\ UNCHANGED <<transportVars, hook, player>>

AbandonedStep == FinishAbandoned /\ UNCHANGED <<transportVars, hook, player>>

\* A new sidecar process starts with its transport stopped.
SidecarRestarts ==
    /\ RestartSidecar
    /\ transport' = "stopped"
    /\ UNCHANGED <<intent, operations, lease, failure, hook, player>>

ReconcilerNext ==
    \/ \E c \in Caller : CallerStepsOn(c)
    \/ WorkerStepsOn
    \/ ClockStep
    \/ AbandonedStep
    \/ SidecarRestarts
    \/ \E p \in Player : AskPlay(p) \/ AskStop(p) \/ AskAudioChange(p) \/ AskStatus(p) \/ PlayerStep(p)
    \/ \E t \in Thread : HookStep(t)

\* Threads are scheduled, hooks return and the sidecar answers: it does not
\* refuse every preparation and every commit of a graph for ever.
Fairness ==
    /\ \A c \in Caller : WF_reconcilerVars(CallerStepsOn(c) /\ call[c] # Idle)
    /\ WF_reconcilerVars(WorkerStepsOn)
    /\ SF_reconcilerVars(WorkerStepsOn /\ PrepareSnapshot /\ worker'.result # "retryable")
    /\ SF_reconcilerVars(WorkerStepsOn /\ CommitSnapshot /\ worker'.result # "retryable")
    /\ \A p \in Player : /\ WF_reconcilerVars(PlayerStep(p))
                        /\ SF_reconcilerVars(EnterProject(p))
                        /\ SF_reconcilerVars(RequestPlay(p) \/ RequestStop(p))
    /\ \A t \in Thread : WF_reconcilerVars(HookPlays(t) \/ HookStops(t)) /\ SF_reconcilerVars(RunHook(t))

ReconcilerSpec == ReconcilerInit /\ [][ReconcilerNext]_reconcilerVars
FairReconcilerSpec == ReconcilerSpec /\ Fairness

-----------------------------------------------------------------------------
(* Properties.                                                             *)

\* Playback begins only for a Play that is still wanted: no Stop, Pause or
\* audio device change has been accepted since it was requested, however
\* late the projection becomes active.
PlaybackIsRequested ==
    [][transport' = "playing" /\ transport # "playing" => intent # None]_reconcilerVars

\* The lease belongs to the thread that is inside a transport operation.
LeaseIsHeld ==
    \A t \in Thread :
        lease = t <=> \/ hook[t] \in {[at |-> "play"], [at |-> "stop"]}
                      \/ /\ t \in Player
                         /\ player[t].at \in Leased

\* A Play that is waiting starts, or is released: it does not wait for an
\* activation that no work in the runtime will bring.
PlayIsAnswered == intent # None ~> intent = None

\* Stop and Pause are served: they get the lease, whoever held it.
StopIsServed == \A p \in Player : player[p].at = "askStop" ~> player[p].at \in {"stop", "idle"}
=============================================================================

------------------------ MODULE ProjectionCoordinator ------------------------
(***************************************************************************)
(* The threads around the projection machine: the coordinator's worker,    *)
(* the Host threads that submit projections and wait for them, the clock,  *)
(* and the native timeline they drive.                                     *)
(*                                                                         *)
(*   runtime/projection_coordinator.rs   lock, worker, waits, deadlines    *)
(*   runtime.rs                          apply_and_wait and its siblings   *)
(*   session/commit.rs, session/adapter/devices.rs, host/project.rs,       *)
(*   host/audio.rs                       the callers                       *)
(*                                                                         *)
(* A step of the model is one critical section of the machine's mutex, one *)
(* native call, or one section of the Project writer lock.                 *)
(***************************************************************************)
EXTENDS ProjectionMachine

CONSTANTS Projects,       \* the graphs of each Project: disjoint subsets of Graph
          Caller,         \* Host threads
          Purpose,        \* what they may do, a subset of AllPurposes
          Expiry,         \* whether deadlines may pass
          Abandonment,    \* whether a native call may outlive its timeout
          MaxSequence, MaxOperation, MaxGeneration, MaxRevision   \* bounds

AllPurposes == {"edit", "resync", "restore", "audio", "device", "switch"}

ASSUME CallerAssumption == None \notin Caller
ASSUME AbandonedAssumption == "commit" \notin Graph \union {None}
ASSUME ProjectsAssumption ==
    /\ Projects \subseteq SUBSET Graph
    /\ \A p, q \in Projects : p # q => p \cap q = {}
ASSUME PurposeAssumption == Purpose \subseteq AllPurposes /\ "restore" \notin Purpose
ASSUME FlagAssumption == Expiry \in BOOLEAN /\ Abandonment \in BOOLEAN
ASSUME BoundAssumption == {MaxSequence, MaxOperation, MaxGeneration, MaxRevision} \subseteq Nat

VARIABLES machine,   \* ProjectionCoordinatorSync.state
          late,      \* operations whose deadline has passed
          worker,    \* the projection worker: where it is, its request, a native result
          native,    \* the sidecar's timeline
          core,      \* AppCore: the canonical key and its graph
          writer,    \* who holds the ProjectCell writer lock
          call       \* the Host threads

vars == <<machine, late, worker, native, core, writer, call>>

Untimed == {"edit"}                 \* project_canonical: no deadline, nobody waits
Proposing == {"device", "switch"}   \* apply_candidate_and_wait

WorkerAt == {"idle", "prepare", "rest", "prepared", "decide",
             "commit", "committed", "conclude", "discard", "exited"}
CallAt == {"idle", "submit", "waiting", "expiring", "commit", "promote"}

Call == [at : CallAt \ {"idle"}, purpose : AllPurposes, key : Key, graph : Graph,
         operation : Nat]
Idle == [at |-> "idle"]

StateOK ==
    /\ machine \in Machine
    /\ late \subseteq 1 .. machine.next
    /\ worker \in [at : WorkerAt, request : Request \union {None},
                   result : Result \union {"retryable", None}]
    /\ native \in [generation : Nat, prepared : Graph \union {None},
                   committed : Graph \union {None},
                   abandoned : {None, "commit"} \union Graph]
    /\ core \in Intent
    /\ call \in [Caller -> Call \union {Idle}]

TypeOK == StateOK /\ writer \in Caller \union {None}

Init ==
    /\ machine = NewMachine(1)
    /\ late = {}
    /\ worker = [at |-> "idle", request |-> None, result |-> None]
    /\ native = [generation |-> 1, prepared |-> None, committed |-> None, abandoned |-> None]
    /\ core \in {intent \in Intent : intent.key.sequence = 0}
    /\ writer = None
    /\ call = [c \in Caller |-> Idle]

-----------------------------------------------------------------------------
(* Host threads.                                                           *)

\* Idle, the coordinator it shares has not been dropped, and the bound lets
\* it begin: what has begun is never cut short by MaxOperation.
Free(c) == call[c] = Idle /\ ~machine.stopped /\ machine.next < MaxOperation

NextKeys == {key \in Key : key.sequence = core.key.sequence + 1}

\* A graph carries the id of its Project.
InOpenProject(graph) == \E project \in Projects : {graph, core.graph} \subseteq project

\* The thread goes on to submit `intent` for `purpose`.
ToSubmit(c, purpose, intent) ==
    call' = [call EXCEPT ![c] = [at |-> "submit", purpose |-> purpose, key |-> intent.key,
                                 graph |-> intent.graph, operation |-> 0]]

\* SessionContext::commit: the writer lock covers the commit of an edit and
\* the submission of its projection (publish_commit, project_committed).
Edit(c) ==
    /\ "edit" \in Purpose
    /\ Free(c) /\ writer = None
    /\ core.key.sequence < MaxSequence
    /\ \E key \in NextKeys, graph \in {g \in Graph : InOpenProject(g)} :
         /\ core' = [key |-> key, graph |-> graph]
         /\ ToSubmit(c, "edit", [key |-> key, graph |-> graph])
    /\ writer' = c
    /\ UNCHANGED <<machine, late, worker, native>>

\* sync_arrangement_runtime and the other callers of apply_and_wait read the
\* published canonical state and submit it later, without the writer lock.
Resync(c) ==
    /\ "resync" \in Purpose
    /\ Free(c)
    /\ ToSubmit(c, "resync", core)
    /\ UNCHANGED <<machine, late, worker, native, core, writer>>

\* reproject_after_audio_device_change: advance_audio_environment observes the
\* generation and invalidates, then the thread submits what it read.
ChangeAudioDevice(c) ==
    /\ "audio" \in Purpose
    /\ Free(c)
    /\ machine.environment.revision < MaxRevision
    /\ machine' = AudioEnvironmentAdvanced(GenerationObserved(machine, native.generation))
    /\ ToSubmit(c, "resync", core)
    /\ UNCHANGED <<late, worker, native, core, writer>>

\* prepare_arrangement_candidate: a device edit proposes the next state.
ProposeDevice(c) ==
    /\ "device" \in Purpose
    /\ Free(c)
    /\ core.key.sequence < MaxSequence
    /\ \E key \in NextKeys, graph \in {g \in Graph : InOpenProject(g)} :
         ToSubmit(c, "device", [key |-> key, graph |-> graph])
    /\ UNCHANGED <<machine, late, worker, native, core, writer>>

\* activate_project: opening a Project, another one or the open one again,
\* holds the writer lock to the end.
OpenProject(c) ==
    /\ "switch" \in Purpose
    /\ Free(c) /\ writer = None
    /\ core.key.sequence < MaxSequence
    /\ \E key \in NextKeys, graph \in {g \in Graph : ~InOpenProject(g) \/ g = core.graph} :
         ToSubmit(c, "switch", [key |-> key, graph |-> graph])
    /\ writer' = c
    /\ UNCHANGED <<machine, late, worker, native, core>>

\* What the caller does once its submission is answered: a proposal goes on
\* to become canonical or is repaired, everything else is over.
Return(c, ok) ==
    LET purpose == call[c].purpose
        failedTo == IF purpose = "device" THEN "resync" ELSE "restore"
    IN /\ call' = [call EXCEPT ![c] =
            CASE purpose = "device" /\ ok -> [@ EXCEPT !.at = "commit"]
              [] purpose = "switch" /\ ok -> [@ EXCEPT !.at = "promote"]
              [] purpose \in Proposing /\ ~ok ->
                   [@ EXCEPT !.at = "submit", !.purpose = failedTo,
                             !.key = core.key, !.graph = core.graph, !.operation = 0]
              [] OTHER -> Idle]
       /\ writer' = IF purpose \in {"edit", "restore"} /\ writer = c THEN None ELSE writer

\* ProjectionCoordinator::submit, one critical section.
SubmitProjection(c) ==
    /\ call[c].at = "submit"
    /\ LET purpose == call[c].purpose
           canonical == purpose \notin Proposing
           timed == purpose \notin Untimed
           observed == GenerationObserved(machine, native.generation)
           outcome == SubmitOutcome(observed, call[c].key, call[c].graph, canonical)
           submitted == Submit(observed, call[c].key, call[c].graph, timed, canonical)
           rejected == outcome \in {"shuttingDown", "superseded"}
       IN IF rejected \/ outcome = "adopted" \/ ~timed
          THEN /\ machine' = RemoveWaiter(submitted, submitted.next)
               /\ Return(c, ~rejected)
          ELSE /\ machine' = submitted
               /\ call' = [call EXCEPT ![c].at = "waiting", ![c].operation = submitted.next]
               /\ UNCHANGED writer
    /\ UNCHANGED <<late, worker, native, core>>

\* wait_for_operation: every turn of the loop observes the generation,
PollGeneration(c) ==
    /\ call[c].at = "waiting"
    /\ machine.environment.generation # native.generation
    /\ machine' = GenerationObserved(machine, native.generation)
    /\ UNCHANGED <<late, worker, native, core, writer, call>>

\* then takes its result,
CollectResult(c) ==
    /\ call[c].at = "waiting"
    /\ LET result == WaiterResult(machine, call[c].operation)
       IN /\ result # None
          /\ Return(c, result = "ok")
    /\ machine' = RemoveWaiter(machine, call[c].operation)
    /\ UNCHANGED <<late, worker, native, core>>

\* or, past the deadline, leaves the lock
GiveUp(c) ==
    /\ call[c].at = "waiting"
    /\ WaiterResult(machine, call[c].operation) = None
    /\ call[c].operation \in late
    /\ call' = [call EXCEPT ![c].at = "expiring"]
    /\ UNCHANGED <<machine, late, worker, native, core, writer>>

\* and reports the deadline in a critical section of its own.
ReportDeadline(c) ==
    /\ call[c].at = "expiring"
    /\ machine' = DeadlineReached(machine, call[c].operation)
    /\ call' = [call EXCEPT ![c].at = "waiting"]
    /\ UNCHANGED <<late, worker, native, core, writer>>

\* Mutant: a proposal that lost to another commit is not repaired.
CommitDeviceUnrepaired(c) ==
    /\ call[c].at = "commit" /\ writer = None
    /\ IF core.key.sequence + 1 = call[c].key.sequence
       THEN /\ core' = [key |-> call[c].key, graph |-> call[c].graph]
            /\ ToSubmit(c, "edit", core')
            /\ writer' = c
       ELSE /\ call' = [call EXCEPT ![c] = Idle]
            /\ UNCHANGED <<core, writer>>
    /\ UNCHANGED <<machine, late, worker, native>>

\* commit_device_arrangement_with_created_ids, after the candidate is active:
\* commit_prepared under the writer lock; a repair when another commit came
\* first or the session cannot be saved; nothing when the Project changed.
CommitDevice(c) ==
    /\ call[c].at = "commit" /\ writer = None
    /\ \/ /\ InOpenProject(call[c].graph)
          /\ core.key.sequence + 1 = call[c].key.sequence
          /\ core' = [key |-> call[c].key, graph |-> call[c].graph]
          /\ ToSubmit(c, "edit", core')
          /\ writer' = c
       \/ /\ InOpenProject(call[c].graph)
          /\ ToSubmit(c, "resync", core)
          /\ UNCHANGED <<core, writer>>
       \/ /\ ~InOpenProject(call[c].graph)
          /\ call' = [call EXCEPT ![c] = Idle]
          /\ UNCHANGED <<core, writer>>
    /\ UNCHANGED <<machine, late, worker, native>>

\* commit_candidate_as_canonical in activate_project_inner, and the workspace
\* file that then makes the Project the open one; a failure of either
\* restores the previous Project.
PromoteProject(c) ==
    /\ call[c].at = "promote"
    /\ LET observed == GenerationObserved(machine, native.generation)
       IN /\ machine' = Promote(observed, call[c].key)
          /\ \/ /\ Promotable(observed, call[c].key)
                /\ core' = [key |-> call[c].key, graph |-> call[c].graph]
                /\ ToSubmit(c, "edit", core')
             \/ /\ ToSubmit(c, "restore", core)
                /\ UNCHANGED core
    /\ UNCHANGED <<late, worker, native, writer>>

CallerStep(c) ==
    \/ Edit(c) \/ Resync(c) \/ ChangeAudioDevice(c) \/ ProposeDevice(c) \/ OpenProject(c)
    \/ SubmitProjection(c)
    \/ PollGeneration(c) \/ CollectResult(c) \/ GiveUp(c) \/ ReportDeadline(c)
    \/ CommitDevice(c) \/ PromoteProject(c)

\* The deadline of a waiting caller passes.
Expire ==
    /\ Expiry
    /\ \E c \in Caller :
         /\ call[c].at = "waiting"
         /\ call[c].operation \notin late
         /\ late' = late \union {call[c].operation}
    /\ UNCHANGED <<machine, worker, native, core, writer, call>>

-----------------------------------------------------------------------------
(* worker_loop.                                                            *)

WorkerTo(at, result) == worker' = [worker EXCEPT !.at = at, !.result = result]

\* `timeout(&request, ..)` finds the request's deadline passed.
RequestLate == worker.request.timed /\ worker.request.operation \in late

\* WorkRequested
TakeWork ==
    /\ worker.at = "idle"
    /\ IF machine.stopped
       THEN worker' = [worker EXCEPT !.at = "exited", !.request = None]
       ELSE /\ HasWork(machine)
            /\ worker' = [worker EXCEPT !.at = "prepare", !.request = machine.job.request]
    /\ UNCHANGED <<machine, late, native, core, writer, call>>

\* prepare_timeline_snapshot.  The sidecar builds the graph, refuses while it
\* is busy, fails, or goes on building after the Host gave up on the call.
PrepareSnapshot ==
    /\ worker.at = "prepare"
    /\ \/ /\ RequestLate
          /\ WorkerTo("prepared", "timeout")
          /\ UNCHANGED native
       \/ /\ ~RequestLate /\ native.abandoned = None
          /\ \/ /\ native' = [native EXCEPT !.prepared = worker.request.graph]
                /\ WorkerTo("prepared", "ok")
             \/ /\ Abandonment
                /\ native' = [native EXCEPT !.abandoned = worker.request.graph]
                /\ WorkerTo("prepared", "timeout")
       \/ /\ ~RequestLate
          /\ \/ WorkerTo("rest", "retryable")
             \/ WorkerTo("prepared", "failed")
          /\ UNCHANGED native
    /\ UNCHANGED <<machine, late, core, writer, call>>

\* wait_for_timeline_idle after a retryable prepare.
WaitForIdle ==
    /\ worker.at = "rest"
    /\ \/ /\ ~RequestLate /\ native.abandoned = None
          /\ WorkerTo("prepared", "retryable")
          /\ UNCHANGED machine
       \/ /\ \E result \in {"timeout", "failed"} :
               machine' = Prepared(machine, worker.request.operation, result, late)
          /\ worker' = [worker EXCEPT !.at = "idle", !.request = None, !.result = None]
    /\ UNCHANGED <<late, native, core, writer, call>>

\* GenerationObserved before a result is reported.
ObserveBeforeReport ==
    /\ \/ worker.at = "prepared" /\ WorkerTo("decide", worker.result)
       \/ worker.at = "committed" /\ WorkerTo("conclude", worker.result)
    /\ machine' = GenerationObserved(machine, native.generation)
    /\ UNCHANGED <<late, native, core, writer, call>>

\* Prepared, and the native effect it asks for.
ReportPrepared ==
    /\ worker.at = "decide"
    /\ machine' = Prepared(machine, worker.request.operation, worker.result, late)
    /\ LET effect == PreparedEffect(machine, worker.request.operation, worker.result, late)
       IN IF effect = "none"
          THEN worker' = [worker EXCEPT !.at = "idle", !.request = None, !.result = None]
          ELSE WorkerTo(effect, None)
    /\ UNCHANGED <<late, native, core, writer, call>>

\* commit_timeline_snapshot, and for a retryable failure the idle wait whose
\* outcome is ignored.
CommitSnapshot ==
    /\ worker.at = "commit"
    /\ \/ /\ RequestLate
          /\ WorkerTo("committed", "timeout")
          /\ UNCHANGED native
       \/ /\ ~RequestLate /\ native.abandoned = None
          /\ native.prepared # None
          /\ \/ /\ native' = [native EXCEPT !.committed = native.prepared, !.prepared = None]
                /\ WorkerTo("committed", "ok")
             \/ /\ Abandonment
                /\ native' = [native EXCEPT !.abandoned = "commit"]
                /\ WorkerTo("committed", "timeout")
       \/ /\ ~RequestLate
          /\ \E result \in {"retryable", "failed"} : WorkerTo("committed", result)
          /\ UNCHANGED native
    /\ UNCHANGED <<machine, late, core, writer, call>>

\* Committed, and the discard it may ask for.
ReportCommitted ==
    /\ worker.at = "conclude"
    /\ machine' = Committed(machine, worker.request.operation, worker.result, late)
    /\ IF CommittedEffect(machine, worker.request.operation, worker.result, late) = "discard"
       THEN WorkerTo("discard", None)
       ELSE worker' = [worker EXCEPT !.at = "idle", !.request = None, !.result = None]
    /\ UNCHANGED <<late, native, core, writer, call>>

\* discard_timeline_snapshot, its result ignored.
DiscardSnapshot ==
    /\ worker.at = "discard"
    /\ \/ native.abandoned = None /\ native' = [native EXCEPT !.prepared = None]
       \/ UNCHANGED native
    /\ worker' = [worker EXCEPT !.at = "idle", !.request = None, !.result = None]
    /\ UNCHANGED <<machine, late, core, writer, call>>

WorkerStep ==
    \/ TakeWork \/ PrepareSnapshot \/ WaitForIdle \/ ObserveBeforeReport
    \/ ReportPrepared \/ CommitSnapshot \/ ReportCommitted \/ DiscardSnapshot

-----------------------------------------------------------------------------
(* The sidecar, the rest of the Host, and shutdown.                        *)

\* The operation the Host gave up on completes.
FinishAbandoned ==
    /\ native.abandoned # None
    /\ native' = IF native.abandoned = "commit"
                 THEN [native EXCEPT !.committed = native.prepared, !.prepared = None,
                                     !.abandoned = None]
                 ELSE [native EXCEPT !.prepared = native.abandoned, !.abandoned = None]
    /\ UNCHANGED <<machine, late, worker, core, writer, call>>

\* The sidecar is replaced: a new generation with no timeline.
RestartSidecar ==
    /\ native.generation < MaxGeneration
    /\ native' = [generation |-> native.generation + 1, prepared |-> None,
                  committed |-> None, abandoned |-> None]
    /\ UNCHANGED <<machine, late, worker, core, writer, call>>

\* status(), is_ready_for and pending_work_for from any thread.
QueryStatus ==
    /\ machine.environment.generation # native.generation
    /\ machine' = GenerationObserved(machine, native.generation)
    /\ UNCHANGED <<late, worker, native, core, writer, call>>

\* RuntimeReconciler::status consumes a transport failure (mark_failed).
ReportTransportFailure ==
    /\ ~machine.stopped
    /\ machine' = MarkFailed(machine)
    /\ UNCHANGED <<late, worker, native, core, writer, call>>

\* Drop of the coordinator: nobody else holds it any more but the worker.
Shutdown ==
    /\ ~machine.stopped
    /\ \A c \in Caller : call[c] = Idle
    /\ machine' = Stopped(machine)
    /\ UNCHANGED <<late, worker, native, core, writer, call>>

Next ==
    \/ \E c \in Caller : CallerStep(c)
    \/ Expire
    \/ WorkerStep
    \/ FinishAbandoned \/ RestartSidecar \/ QueryStatus \/ ReportTransportFailure \/ Shutdown

Spec == Init /\ [][Next]_vars

\* Time passes and the waiting threads are scheduled: wait_for_operation waits
\* at most 50 ms at a time.  Nothing is assumed of the worker or the sidecar.
WaitFairness ==
    /\ \A c \in Caller :
         WF_vars(PollGeneration(c) \/ CollectResult(c) \/ GiveUp(c) \/ ReportDeadline(c))
    /\ WF_vars(Expire)

FairWaits == Spec /\ WaitFairness

\* The worker is scheduled, and the sidecar does not refuse one preparation
\* or one commit for ever (wait_for_timeline_idle outlasts a busy timeline).
WorkFairness ==
    /\ WF_vars(WorkerStep)
    /\ SF_vars(PrepareSnapshot /\ worker'.result # "retryable")
    /\ SF_vars(CommitSnapshot /\ worker'.result # "retryable")

-----------------------------------------------------------------------------
(* Properties.                                                             *)

\* The operation the worker carries is always the machine's job, in the
\* phase the worker has reached.  The machine replaces its queue, forgets
\* its active graph and answers its waiters while the worker is inside the
\* sidecar; if any of that could also replace the job, a prepared graph
\* would be discarded or committed for the wrong request.
WorkerOwnsJob ==
    worker.at \in {"prepare", "rest", "prepared", "decide", "commit", "committed", "conclude"} =>
        /\ machine.job # None
        /\ machine.job.request.operation = worker.request.operation
        /\ machine.job.request.graph = worker.request.graph
        /\ machine.job.phase = IF worker.at \in {"commit", "committed", "conclude"}
                               THEN "committing" ELSE "preparing"

\* While no commit is on its way back, the graph the machine calls active is
\* the graph the sidecar of that generation plays, also after commits that
\* were superseded on the way.
ActiveIsLive ==
    /\ machine.active # None
    /\ machine.active.environment.generation = native.generation
    /\ worker.at \notin {"committed", "conclude"}
    => native.committed = machine.active.graph

\* A native commit publishes the graph of the job it was made for, whatever
\* an earlier preparation, its failed discard or a restart left prepared.
CommitPublishesJob ==
    [][CommitSnapshot /\ worker'.result = "ok" =>
         /\ machine.job # None
         /\ native'.committed = machine.job.request.graph]_vars

\* A waiter that is told its projection is active is told so in the step
\* that leaves the graph it submitted active, also when it waited on the
\* operation of an earlier submission of the same graph.
SuccessIsActive ==
    [][\A c \in Caller :
         /\ call[c].at \in {"waiting", "expiring"}
         /\ WaiterResult(machine, call[c].operation) = None
         /\ WaiterResult(machine', call[c].operation) = "ok"
         => ActiveHere(machine') /\ machine'.active.graph = call[c].graph]_vars

\* An unanswered waiter waits for work that is running or queued, or for the
\* queued request of another operation that was dropped at its own deadline.
WaitersHaveWork ==
    \A w \in machine.waiters :
        \/ w.result # None
        \/ RunsOperation(machine, w.operation)
        \/ machine.queued # None /\ machine.queued.operation = w.operation
        \/ w.operation # w.id /\ w.operation \in late

\* The canonical intent never gives way to an older canonical state.
CanonicalAdvances ==
    [][machine.canonical # None =>
         /\ machine'.canonical # None
         /\ machine'.canonical.key.sequence >= machine.canonical.key.sequence]_vars

\* An accepted canonical state plays, is being prepared, waits in the queue
\* or has its failure on record; it is never silently given up while the
\* environment it was accepted in lasts.
CanonicalAccountedFor ==
    /\ machine.canonical # None /\ machine.target # None /\ ~machine.stopped
    /\ machine.error = None
    => \/ ActiveHere(machine) /\ IsIntended(machine, machine.active.graph)
       \/ /\ machine.job # None /\ machine.job.environment = machine.environment
          /\ IsIntended(machine, machine.job.request.graph)
       \/ machine.queued # None /\ IsIntended(machine, machine.queued.graph)

\* What is_ready_for and wait_for_native_projection promise Play and the
\* device reads: the timeline they call ready for the canonical key holds
\* the canonical graph.
ReadyIsCanonical ==
    writer = None /\ ReadyFor(machine, core.key) => machine.active.graph = core.graph

\* Once no work is left, a proposal that plays without being canonical has a
\* caller that is still deciding about it or repairing it, unless a failure
\* is on record.
ProposalIsOwned ==
    /\ ActiveHere(machine) /\ machine.active.origin # Canonical
    /\ machine.job = None
    => machine.error # None \/ machine.stopped \/ \E c \in Caller : call[c] # Idle

\* Whoever waits for a projection is answered, by a result or by its own
\* deadline, even when the worker is stuck in the sidecar for ever.
EveryWaitEnds ==
    \A c \in Caller : call[c].at = "waiting" ~> call[c].at \notin {"waiting", "expiring"}

\* Retries do not feed themselves: once nobody submits any more, a worker that
\* is scheduled runs out of work.
WorkDrains ==
    WorkFairness => <>[](machine.stopped \/ (machine.job = None /\ machine.queued = None))
=============================================================================

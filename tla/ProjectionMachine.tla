-------------------------- MODULE ProjectionMachine --------------------------
(***************************************************************************)
(* `Machine` of riffra-runtime/src/runtime/projection_machine.rs: the pure *)
(* state machine that decides which projected graph is prepared, committed *)
(* and discarded.  The Rust type is a value with a `step` function, so the *)
(* module is a record and one operator per Input; ProjectionCoordinator    *)
(* holds the record in a variable and adds the threads.                    *)
(*                                                                         *)
(* Abstractions: a projection is a member of Graph, equal exactly when     *)
(* same_projected_graph holds; a deadline is a flag plus the set of        *)
(* operations whose deadline has passed (the argument `late` stands for    *)
(* `now`); an error keeps its variant and loses its text; the timestamps   *)
(* and the discard counter are not kept (see Stamps below).                *)
(***************************************************************************)
EXTENDS Naturals

CONSTANTS Graph,   \* projected graphs, up to same_projected_graph
          Key,     \* projection keys, records [sequence, revision]
          None     \* Option::None

ASSUME KeyAssumption == Key \subseteq [sequence : Nat, revision : Nat]

\* Origin::Canonical; Origin::Candidate(operation) is its operation, never 0.
Canonical == 0
Origin == Nat

Environment == [generation : Nat, revision : Nat]
Intent == [key : Key, graph : Graph]
ActiveGraph == [key : Key, graph : Graph, environment : Environment, origin : Origin]
Request == [operation : Nat \ {0}, key : Key, graph : Graph, origin : Origin, timed : BOOLEAN]
Job == [request : Request, phase : {"preparing", "committing"}, environment : Environment]

\* Error variants a waiter or the status can carry.
Error == {"superseded", "timeout", "cancelled", "generationChanged", "shuttingDown", "failed"}
Result == {"ok"} \union Error
Waiter == [id : Nat \ {0}, operation : Nat \ {0}, key : Key, result : Result \union {None}]

Machine ==
    [environment : Environment,
     canonical : Intent \union {None},
     active : ActiveGraph \union {None},
     job : Job \union {None},
     queued : Request \union {None},
     waiters : SUBSET Waiter,        \* the BTreeMap, its key as the field id
     operation : Nat,                \* counters.operation
     target : Key \union {None},     \* counters.target
     error : Error \union {None},    \* counters.error
     stopped : BOOLEAN,              \* counters.stopped
     next : Nat]                     \* next_operation_id

\* None is no value of the types it completes.
ASSUME NoneAssumption ==
    None \notin Graph \union Key \union Result \union Intent \union ActiveGraph \union Job
              \union Request

NewMachine(generation) ==
    [environment |-> [generation |-> generation, revision |-> 0],
     canonical |-> None, active |-> None, job |-> None, queued |-> None,
     waiters |-> {}, operation |-> 0, target |-> None, error |-> None,
     stopped |-> FALSE, next |-> 0]

-----------------------------------------------------------------------------
(* Questions about the state.                                              *)

\* The graph of the current canonical intent.
IsIntended(m, graph) == m.canonical # None /\ m.canonical.graph = graph

ActiveHere(m) == m.active # None /\ m.active.environment = m.environment

\* job_is_current
JobIsCurrent(m, late) ==
    /\ m.job # None
    /\ ~m.stopped
    /\ m.job.environment = m.environment
    /\ ~(m.job.request.timed /\ m.job.request.operation \in late)
    /\ \/ IsIntended(m, m.job.request.graph)
       \/ m.job.request.origin # Canonical /\ m.queued = None

\* Mutant: ready for every key once a graph is active.
ReadyForAnyKey(m, key) == m.job = None /\ m.queued = None /\ ActiveHere(m)

\* ready_for
ReadyFor(m, key) ==
    m.job = None /\ m.queued = None /\ ActiveHere(m) /\ m.active.key = key

\* pending_for
PendingFor(m, key) ==
    \/ /\ m.job # None
       /\ m.job.environment = m.environment
       /\ \/ m.job.request.key = key
          \/ m.canonical # None /\ m.canonical.key = key /\ m.canonical.graph = m.job.request.graph
    \/ m.queued # None /\ m.queued.key = key

\* The part of status() its readers act on, and enough of the rest to tell
\* whether a step changed it.
Status(m) ==
    LET ownJob == /\ m.job # None
                  /\ m.job.environment = m.environment
                  /\ IsIntended(m, m.job.request.graph)
        ownQueued == m.queued # None /\ IsIntended(m, m.queued.graph)
        ownActive == ActiveHere(m) /\ m.active.origin = Canonical
    IN [state |-> CASE m.error # None -> "failed"
                    [] m.error = None /\ ownQueued -> "queued"
                    [] m.error = None /\ ~ownQueued /\ ownJob -> "preparing"
                    [] m.error = None /\ ~ownQueued /\ ~ownJob /\ ownActive -> "active"
                    [] OTHER -> "idle",
        operation |-> m.operation,
        running |-> IF ownJob THEN m.job.request.operation ELSE None,
        prepared |-> ownJob /\ m.job.phase = "committing",
        target |-> m.target,
        active |-> IF ownActive THEN m.active.key ELSE None,
        environment |-> m.environment,
        error |-> m.error]

-----------------------------------------------------------------------------
(* Waiters.  A result is written once.                                     *)

\* complete, for every waiter in `ids`
CompleteWaiters(m, ids, result) ==
    [m EXCEPT !.waiters = {IF w.id \in ids /\ w.result = None
                           THEN [w EXCEPT !.result = result] ELSE w : w \in m.waiters}]

WaiterIds(m) == {w.id : w \in m.waiters}

\* complete_operation: everyone who waits for `operation`, aliases included.
CompleteOperation(m, operation, result) ==
    CompleteWaiters(m, {w.id : w \in {v \in m.waiters : v.operation = operation}}, result)

\* result
WaiterResult(m, id) ==
    IF \E w \in m.waiters : w.id = id THEN (CHOOSE w \in m.waiters : w.id = id).result ELSE None

\* remove_waiter
RemoveWaiter(m, id) == [m EXCEPT !.waiters = {w \in m.waiters : w.id # id}]

-----------------------------------------------------------------------------
(* Jobs.                                                                   *)

\* start
Start(m, request) ==
    [m EXCEPT !.job = [request |-> request, phase |-> "preparing", environment |-> m.environment]]

\* install_committed_graph: the graph native commit made live, under the
\* canonical key when the canonical intent asks for this very graph.
InstallCommitted(m) ==
    LET job == m.job
        adopted == job.environment = m.environment /\ IsIntended(m, job.request.graph)
    IN [m EXCEPT !.active =
           [key |-> IF adopted THEN m.canonical.key ELSE job.request.key,
            graph |-> job.request.graph,
            environment |-> job.environment,
            origin |-> IF adopted THEN Canonical ELSE job.request.origin]]

\* Mutant: the finished job stays when nothing is queued.
StartQueuedKeepingJob(m) ==
    IF ~m.stopped /\ m.queued # None THEN Start([m EXCEPT !.queued = None], m.queued) ELSE m

\* The tail of finish_job: the job is gone and the queued request takes over.
StartQueued(m) ==
    IF ~m.stopped /\ m.queued # None
    THEN Start([m EXCEPT !.queued = None], m.queued)
    ELSE [m EXCEPT !.job = None]

\* finish_job(Ok)
FinishOk(m) ==
    LET installed == InstallCommitted(m)
        recorded == IF installed.active.origin = Canonical
                    THEN [installed EXCEPT !.error = None]
                    ELSE installed
    IN StartQueued(CompleteOperation(recorded, m.job.request.operation, "ok"))

\* finish_job(Err(error))
FinishError(m, error) ==
    LET job == m.job
        recorded == IF /\ \/ job.request.origin = Canonical
                          \/ IsIntended(m, job.request.graph)
                       /\ m.queued = None
                       /\ job.environment = m.environment
                       /\ error # "superseded"
                    THEN [m EXCEPT !.error = error]
                    ELSE m
    IN StartQueued(CompleteOperation(recorded, job.request.operation, error))

\* Mutant: the queue is dropped without telling those who wait for it.
InvalidateSilently(m, error) ==
    [m EXCEPT !.active = None, !.queued = None, !.error = None, !.target = None]

\* invalidate
Invalidate(m, error) ==
    CompleteWaiters([m EXCEPT !.active = None, !.queued = None, !.error = None, !.target = None],
                    WaiterIds(m), error)

-----------------------------------------------------------------------------
(* Input::SubmitCanonical and Input::SubmitCandidate (`submit`).  The      *)
(* coordinator always passes the new operation as the waiter's id.         *)

\* Mutant: a canonical submission joins whatever job is running.
CanonicalOutcomeAnyJob(m, graph) ==
    IF ActiveHere(m) /\ m.active.graph = graph THEN "adopted"
    ELSE IF m.job # None /\ m.job.environment = m.environment THEN "joinsJob"
    ELSE IF m.queued # None /\ m.queued.graph = graph THEN "joinsQueued"
    ELSE "queued"

\* Whether an accepted canonical state needs work of its own.
CanonicalOutcome(m, graph) ==
    IF ActiveHere(m) /\ m.active.graph = graph THEN "adopted"
    ELSE IF /\ m.job # None
            /\ m.job.environment = m.environment
            /\ m.job.request.graph = graph THEN "joinsJob"
    ELSE IF m.queued # None /\ m.queued.graph = graph THEN "joinsQueued"
    ELSE "queued"

\* Mutant: an older canonical state is accepted.
SubmitOutcomeUnordered(m, key, graph, canonical) ==
    CASE m.stopped -> "shuttingDown"
      [] ~m.stopped /\ canonical -> CanonicalOutcome(m, graph)
      [] OTHER -> "queued"

\* What a submission comes to: a rejection, or a CanonicalSubmit.
SubmitOutcome(m, key, graph, canonical) ==
    CASE m.stopped -> "shuttingDown"
      [] ~m.stopped /\ m.canonical # None /\ key.sequence < m.canonical.key.sequence -> "superseded"
      [] OTHER -> IF canonical THEN CanonicalOutcome(m, graph) ELSE "queued"

\* supersede_queued_canonical
SupersedeQueuedCanonical(m) ==
    IF m.queued # None /\ m.queued.origin = Canonical
    THEN CompleteOperation([m EXCEPT !.queued = None], m.queued.operation, "superseded")
    ELSE m

\* Mutant: the newest request replaces the running job.
EnqueueOverJob(m, request) == Start(m, request)

\* The tail of `submit`: behind a running job the newest request is the
\* only one that waits, otherwise the request becomes the job.
Enqueue(m, request) ==
    IF m.job = None THEN Start(m, request)
    ELSE LET replaced == [m EXCEPT !.queued = request]
         IN IF m.queued = None THEN replaced
            ELSE CompleteOperation(replaced, m.queued.operation, "superseded")

\* canonical_waiter_aliases: waiter `id` is answered with `operation`.
Alias(m, id, operation) ==
    [m EXCEPT !.waiters = {IF w.id = id THEN [w EXCEPT !.operation = operation] ELSE w :
                           w \in m.waiters}]

Submit(m, key, graph, timed, canonical) ==
    LET operation == m.next + 1
        outcome == SubmitOutcome(m, key, graph, canonical)
        waiting == [m EXCEPT !.next = operation,
                             !.waiters = @ \union {[id |-> operation, operation |-> operation,
                                                    key |-> key, result |-> None]}]
        intended == IF canonical
                    THEN [waiting EXCEPT !.canonical = [key |-> key, graph |-> graph],
                                         !.error = None,
                                         !.operation = operation,
                                         !.target = key]
                    ELSE waiting
    IN CASE outcome \in {"shuttingDown", "superseded"} ->
              CompleteWaiters(waiting, {operation}, outcome)
         [] outcome = "adopted" ->
              CompleteWaiters(
                  [SupersedeQueuedCanonical(intended) EXCEPT !.active.key = key,
                                                             !.active.origin = Canonical],
                  {operation}, "ok")
         [] outcome = "joinsJob" ->
              Alias(SupersedeQueuedCanonical(intended), operation, m.job.request.operation)
         [] outcome = "joinsQueued" ->
              [Alias(intended, operation, m.queued.operation) EXCEPT !.queued.key = key,
                                                                     !.queued.origin = Canonical]
         [] OTHER ->
              Enqueue(intended, [operation |-> operation, key |-> key, graph |-> graph,
                                 origin |-> IF canonical THEN Canonical ELSE operation,
                                 timed |-> timed])

-----------------------------------------------------------------------------
(* The other inputs.                                                       *)

\* Input::PromoteCandidate answers Ok.
Promotable(m, key) ==
    ActiveHere(m) /\ m.active.key = key /\ m.job = None /\ m.queued = None /\ ~m.stopped

\* Input::PromoteCandidate
Promote(m, key) ==
    IF ~Promotable(m, key) THEN m
    ELSE [m EXCEPT !.operation = IF m.active.origin # Canonical THEN m.active.origin ELSE @,
                   !.target = key,
                   !.active.origin = Canonical,
                   !.canonical = [key |-> key, graph |-> m.active.graph],
                   !.error = None]

RunsOperation(m, operation) == m.job # None /\ m.job.request.operation = operation

\* Input::Prepared.  `result` is "ok", "retryable" or an Error.
Prepared(m, operation, result, late) ==
    CASE ~RunsOperation(m, operation) -> m
      [] RunsOperation(m, operation) /\ ~JobIsCurrent(m, late) -> FinishError(m, "superseded")
      [] OTHER -> CASE result = "ok" -> [m EXCEPT !.job.phase = "committing"]
                    [] result = "retryable" -> m
                    [] OTHER -> FinishError(m, result)

\* Mutant: a prepared graph is committed although it was superseded.
PreparedEffectUnchecked(m, operation, result, late) ==
    IF result # "ok" THEN "none" ELSE IF RunsOperation(m, operation) THEN "commit" ELSE "discard"

\* Effect::Commit and Effect::Discard of Input::Prepared.
PreparedEffect(m, operation, result, late) ==
    IF result # "ok" THEN "none"
    ELSE IF RunsOperation(m, operation) /\ JobIsCurrent(m, late) THEN "commit" ELSE "discard"

\* Mutant: a superseded commit leaves the previous graph on record.
CommittedUninstalled(m, operation, result, late) ==
    CASE ~RunsOperation(m, operation) -> m
      [] RunsOperation(m, operation) /\ result = "ok" ->
           IF JobIsCurrent(m, late) THEN FinishOk(m) ELSE FinishError(m, "superseded")
      [] OTHER -> IF result # "retryable" THEN FinishError(m, result)
                  ELSE IF JobIsCurrent(m, late) THEN [m EXCEPT !.job.phase = "preparing"]
                  ELSE FinishError(m, "failed")

\* Input::Committed for an operation other than 0.
Committed(m, operation, result, late) ==
    CASE ~RunsOperation(m, operation) -> m
      [] RunsOperation(m, operation) /\ result = "ok" ->
           IF JobIsCurrent(m, late) THEN FinishOk(m)
           ELSE FinishError(InstallCommitted(m), "superseded")
      [] OTHER -> IF result = "retryable"
                  THEN IF JobIsCurrent(m, late)
                       THEN [m EXCEPT !.job.phase = "preparing"]
                       ELSE FinishError(m, "failed")
                  ELSE FinishError(m, result)

\* Effect::Discard of Input::Committed.
CommittedEffect(m, operation, result, late) ==
    IF /\ RunsOperation(m, operation)
       /\ result # "ok"
       /\ ~(result = "retryable" /\ JobIsCurrent(m, late))
    THEN "discard" ELSE "none"

\* Input::Committed for operation 0, sent by mark_failed.
MarkFailed(m) == [m EXCEPT !.error = "failed"]

\* Input::GenerationObserved
GenerationObserved(m, generation) ==
    IF generation = m.environment.generation THEN m
    ELSE Invalidate([m EXCEPT !.environment = [generation |-> generation,
                                               revision |-> m.environment.revision + 1]],
                    "generationChanged")

\* Input::AudioEnvironmentAdvanced
AudioEnvironmentAdvanced(m) ==
    Invalidate([m EXCEPT !.environment.revision = @ + 1], "cancelled")

\* Mutant: the deadline drops the work and tells nobody.
DeadlineReachedUntold(m, operation) ==
    IF m.queued # None /\ m.queued.operation = operation THEN [m EXCEPT !.queued = None] ELSE m

\* Input::DeadlineReached: the deadline of a running job becomes `now`.
DeadlineReached(m, operation) ==
    LET expired == IF RunsOperation(m, operation)
                   THEN [m EXCEPT !.job.request.timed = TRUE] ELSE m
        told == CompleteWaiters(expired, {operation}, "timeout")
    IN IF m.queued # None /\ m.queued.operation = operation
       THEN [told EXCEPT !.queued = None] ELSE told

\* Input::Stop
Stopped(m) ==
    CompleteWaiters([m EXCEPT !.stopped = TRUE, !.queued = None], WaiterIds(m), "shuttingDown")

\* Input::WorkRequested hands the worker a request.
HasWork(m) == ~m.stopped /\ m.job # None /\ m.job.phase = "preparing"
=============================================================================

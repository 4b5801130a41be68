--------------------- MODULE ProjectionCoordinatorProofs ---------------------
(***************************************************************************)
(* The projection worker owns the machine's job, and a native commit       *)
(* publishes the graph of that job, for any number of callers, operations, *)
(* generations and deadlines.                                              *)
(*                                                                         *)
(* WorkerOwnsJob and CommitPublishesJob are not inductive.  IInv adds what *)
(* the worker carries while it is busy, that a waiting caller's operation  *)
(* has been issued, and what the sidecar has prepared when a commit is     *)
(* about to be asked for.                                                  *)
(*                                                                         *)
(* What the machine calls active plays, unless a commit is on its way      *)
(* back.  LiveInv says for it where the result of a commit travels, as     *)
(* long as the Host gives up on no commit.                                 *)
(*                                                                         *)
(* First comes what the operators of ProjectionMachine preserve: each      *)
(* input takes a well-formed machine to a well-formed machine, and only    *)
(* the worker's own reports (Prepared, Committed) touch the identity of a  *)
(* running job.                                                            *)
(***************************************************************************)
EXTENDS ProjectionCoordinator, TLAPS

-----------------------------------------------------------------------------
(* Lemmas about the machine.                                               *)

\* A job that runs in m runs in n: the same request in the same phase, though
\* its deadline may have been brought forward.
KeepsJob(m, n) ==
    m.job # None =>
        /\ n.job # None
        /\ n.job.request.operation = m.job.request.operation
        /\ n.job.request.graph = m.job.request.graph
        /\ n.job.phase = m.job.phase

\* The empty machine is well formed.
LEMMA NewMachineType ==
    ASSUME NEW generation \in Nat PROVE NewMachine(generation) \in Machine
BY NoneAssumption DEF NewMachine, Machine, Environment, Error, Waiter

\* Answering waiters touches nothing but the waiters.
LEMMA CompleteWaitersType ==
    ASSUME NEW m \in Machine, NEW ids, NEW result \in Result
    PROVE  /\ CompleteWaiters(m, ids, result) \in Machine
           /\ CompleteWaiters(m, ids, result).job = m.job
           /\ CompleteWaiters(m, ids, result).queued = m.queued
           /\ CompleteWaiters(m, ids, result).next = m.next
           /\ CompleteWaiters(m, ids, result).stopped = m.stopped
           /\ CompleteWaiters(m, ids, result).environment = m.environment
<1> DEFINE answered == {IF w.id \in ids /\ w.result = None
                        THEN [w EXCEPT !.result = result] ELSE w : w \in m.waiters}
<1>1. m.waiters \subseteq Waiter
  BY DEF Machine
<1>2. answered \subseteq Waiter
  <2> SUFFICES ASSUME NEW w \in m.waiters
               PROVE  (IF w.id \in ids /\ w.result = None
                       THEN [w EXCEPT !.result = result] ELSE w) \in Waiter
    OBVIOUS
  <2> QED BY <1>1 DEF Waiter
<1>3. CompleteWaiters(m, ids, result) = [m EXCEPT !.waiters = answered]
  BY DEF CompleteWaiters
<1> HIDE DEF answered
<1> QED BY <1>2, <1>3 DEF Machine


\* RemoveWaiter, Start and MarkFailed.
LEMMA RemoveWaiterType ==
    ASSUME NEW m \in Machine, NEW id
    PROVE  /\ RemoveWaiter(m, id) \in Machine
           /\ RemoveWaiter(m, id).job = m.job
           /\ RemoveWaiter(m, id).next = m.next
BY DEF RemoveWaiter, Machine

LEMMA StartType ==
    ASSUME NEW m \in Machine, NEW request \in Request
    PROVE  /\ Start(m, request) \in Machine
           /\ Start(m, request).job # None
           /\ Start(m, request).next = m.next
<1>1. [request |-> request, phase |-> "preparing", environment |-> m.environment] \in Job
  BY DEF Job, Machine
<1> QED BY <1>1, NoneAssumption DEF Start, Machine

LEMMA MarkFailedType ==
    ASSUME NEW m \in Machine
    PROVE  /\ MarkFailed(m) \in Machine
           /\ MarkFailed(m).job = m.job
           /\ MarkFailed(m).next = m.next
BY DEF MarkFailed, Machine, Error

\* Answering the waiters of one operation.
LEMMA CompleteOperationType ==
    ASSUME NEW m \in Machine, NEW operation, NEW result \in Result
    PROVE  /\ CompleteOperation(m, operation, result) \in Machine
           /\ CompleteOperation(m, operation, result).job = m.job
           /\ CompleteOperation(m, operation, result).queued = m.queued
           /\ CompleteOperation(m, operation, result).next = m.next
           /\ CompleteOperation(m, operation, result).stopped = m.stopped
BY CompleteWaitersType DEF CompleteOperation

\* A native commit that was not asked for again still has a well-formed owner.
LEMMA InstallCommittedType ==
    ASSUME NEW m \in Machine, m.job # None
    PROVE  /\ InstallCommitted(m) \in Machine
           /\ InstallCommitted(m).job = m.job
           /\ InstallCommitted(m).queued = m.queued
           /\ InstallCommitted(m).next = m.next
           /\ InstallCommitted(m).active # None
<1> DEFINE adopted == m.job.environment = m.environment /\ IsIntended(m, m.job.request.graph)
           active == [key |-> IF adopted THEN m.canonical.key ELSE m.job.request.key,
                      graph |-> m.job.request.graph,
                      environment |-> m.job.environment,
                      origin |-> IF adopted THEN Canonical ELSE m.job.request.origin]
<1>1. m.job \in Job /\ m.canonical \in Intent \union {None}
  BY DEF Machine
<1>2. m.job.request \in Request /\ m.job.environment \in Environment
  BY <1>1 DEF Job
<1>3. adopted => m.canonical.key \in Key
  BY <1>1 DEF IsIntended, Intent
<1>4. active \in ActiveGraph
  BY <1>2, <1>3 DEF Request, ActiveGraph, Origin, Canonical
<1>5. InstallCommitted(m) = [m EXCEPT !.active = active]
  BY DEF InstallCommitted
<1> HIDE DEF active
<1> QED BY <1>4, <1>5, NoneAssumption DEF Machine

\* The queued request takes over, or nothing does.
LEMMA StartQueuedType ==
    ASSUME NEW m \in Machine
    PROVE  StartQueued(m) \in Machine /\ StartQueued(m).next = m.next
<1>1. CASE ~m.stopped /\ m.queued # None
  <2>1. [m EXCEPT !.queued = None] \in Machine /\ m.queued \in Request
        /\ [m EXCEPT !.queued = None].next = m.next
    BY <1>1 DEF Machine
  <2> QED BY <1>1, <2>1, StartType DEF StartQueued
<1>2. CASE ~(~m.stopped /\ m.queued # None)
  BY <1>2 DEF StartQueued, Machine
<1> QED BY <1>1, <1>2

LEMMA FinishOkType ==
    ASSUME NEW m \in Machine, m.job # None
    PROVE  FinishOk(m) \in Machine /\ FinishOk(m).next = m.next
<1> DEFINE installed == InstallCommitted(m)
           recorded == IF installed.active.origin = Canonical
                       THEN [installed EXCEPT !.error = None] ELSE installed
<1>1. installed \in Machine /\ installed.next = m.next
  BY InstallCommittedType
<1> HIDE DEF installed
<1>2. recorded \in Machine /\ recorded.next = m.next
  BY <1>1 DEF Machine
<1> HIDE DEF recorded
<1>3. CompleteOperation(recorded, m.job.request.operation, "ok") \in Machine
      /\ CompleteOperation(recorded, m.job.request.operation, "ok").next = m.next
  BY <1>2, CompleteOperationType DEF Result
<1>4. FinishOk(m) = StartQueued(CompleteOperation(recorded, m.job.request.operation, "ok"))
  BY DEF FinishOk, recorded, installed
<1> QED BY <1>3, <1>4, StartQueuedType

LEMMA FinishErrorType ==
    ASSUME NEW m \in Machine, m.job # None, NEW error \in Error
    PROVE  FinishError(m, error) \in Machine /\ FinishError(m, error).next = m.next
<1> DEFINE recorded == IF /\ \/ m.job.request.origin = Canonical
                             \/ IsIntended(m, m.job.request.graph)
                          /\ m.queued = None
                          /\ m.job.environment = m.environment
                          /\ error # "superseded"
                       THEN [m EXCEPT !.error = error] ELSE m
<1>1. recorded \in Machine /\ recorded.next = m.next
  BY DEF Machine
<1>2. FinishError(m, error) = StartQueued(CompleteOperation(recorded, m.job.request.operation, error))
  BY DEF FinishError
<1> HIDE DEF recorded
<1>r. error \in Result
  BY DEF Result
<1>3. CompleteOperation(recorded, m.job.request.operation, error) \in Machine
      /\ CompleteOperation(recorded, m.job.request.operation, error).next = m.next
  BY <1>r, <1>1, CompleteOperationType
<1> QED BY <1>2, <1>3, StartQueuedType

\* A new environment forgets the active graph and the queue, never the job.
LEMMA InvalidateType ==
    ASSUME NEW m \in Machine, NEW error \in Error
    PROVE  /\ Invalidate(m, error) \in Machine
           /\ Invalidate(m, error).job = m.job
           /\ Invalidate(m, error).next = m.next
           /\ Invalidate(m, error).environment = m.environment
<1> DEFINE cleared == [m EXCEPT !.active = None, !.queued = None, !.error = None, !.target = None]
<1>1. error \in Result
  BY DEF Result
<1>2. /\ cleared \in Machine
      /\ cleared.job = m.job
      /\ cleared.next = m.next
      /\ cleared.environment = m.environment
  BY DEF Machine
<1>3. Invalidate(m, error) = CompleteWaiters(cleared, WaiterIds(m), error)
  BY DEF Invalidate
<1> HIDE DEF cleared
<1> QED BY <1>1, <1>2, <1>3, CompleteWaitersType

LEMMA GenerationObservedType ==
    ASSUME NEW m \in Machine, NEW generation \in Nat
    PROVE  /\ GenerationObserved(m, generation) \in Machine
           /\ GenerationObserved(m, generation).job = m.job
           /\ GenerationObserved(m, generation).next = m.next
           /\ GenerationObserved(m, generation).environment.generation = generation
<1> DEFINE environment == [generation |-> generation, revision |-> m.environment.revision + 1]
           moved == [m EXCEPT !.environment = environment]
<1>1. m.environment \in Environment
  BY DEF Machine
<1>2. CASE generation = m.environment.generation
  BY <1>2 DEF GenerationObserved
<1>3. CASE generation # m.environment.generation
  <2>0. environment \in Environment
    BY <1>1 DEF Environment
  <2>1. /\ moved \in Machine
        /\ moved.job = m.job
        /\ moved.next = m.next
        /\ moved.environment = environment
    BY <2>0 DEF Machine
  <2>2. GenerationObserved(m, generation) = Invalidate(moved, "generationChanged")
    BY <1>3 DEF GenerationObserved
  <2>3. "generationChanged" \in Error
    BY DEF Error
  <2>4. moved.environment.generation = generation
    BY <2>1
  <2> HIDE DEF moved
  <2> QED BY <2>1, <2>2, <2>3, <2>4, InvalidateType
<1> QED BY <1>2, <1>3

LEMMA AudioEnvironmentAdvancedType ==
    ASSUME NEW m \in Machine
    PROVE  /\ AudioEnvironmentAdvanced(m) \in Machine
           /\ AudioEnvironmentAdvanced(m).job = m.job
           /\ AudioEnvironmentAdvanced(m).next = m.next
<1> DEFINE moved == [m EXCEPT !.environment.revision = @ + 1]
<1>1. m.environment \in Environment
  BY DEF Machine
<1>2. moved \in Machine /\ moved.job = m.job /\ moved.next = m.next
  BY <1>1 DEF Machine, Environment
<1>3. AudioEnvironmentAdvanced(m) = Invalidate(moved, "cancelled")
  BY DEF AudioEnvironmentAdvanced
<1> HIDE DEF moved
<1>4. "cancelled" \in Error
  BY DEF Error
<1> QED BY <1>2, <1>3, <1>4, InvalidateType

LEMMA StoppedType ==
    ASSUME NEW m \in Machine
    PROVE  /\ Stopped(m) \in Machine
           /\ Stopped(m).job = m.job
           /\ Stopped(m).next = m.next
<1> DEFINE closed == [m EXCEPT !.stopped = TRUE, !.queued = None]
<1>1. closed \in Machine /\ closed.job = m.job /\ closed.next = m.next
  BY DEF Machine
<1>2. Stopped(m) = CompleteWaiters(closed, WaiterIds(m), "shuttingDown")
  BY DEF Stopped
<1> HIDE DEF closed
<1>3. "shuttingDown" \in Result
  BY DEF Result, Error
<1> QED BY <1>1, <1>2, <1>3, CompleteWaitersType

\* A caller's deadline brings the deadline of its running job forward and
\* drops its queued request; the job stays the worker's.
LEMMA DeadlineReachedType ==
    ASSUME NEW m \in Machine, NEW operation
    PROVE  /\ DeadlineReached(m, operation) \in Machine
           /\ KeepsJob(m, DeadlineReached(m, operation))
           /\ DeadlineReached(m, operation).next = m.next
<1> DEFINE expired == IF RunsOperation(m, operation)
                      THEN [m EXCEPT !.job.request.timed = TRUE] ELSE m
           told == CompleteWaiters(expired, {operation}, "timeout")
<1>1. /\ expired \in Machine
      /\ KeepsJob(m, expired)
      /\ expired.next = m.next
  <2>1. CASE RunsOperation(m, operation)
    <3>1. m.job \in Job /\ m.job.request \in Request
      BY <2>1 DEF RunsOperation, Machine, Job
    <3>2. [m.job EXCEPT !.request.timed = TRUE] \in Job
      BY <3>1 DEF Job, Request
    <3>3. expired = [m EXCEPT !.job = [m.job EXCEPT !.request.timed = TRUE]]
      BY <2>1, <3>1 DEF Machine, Job, Request
    <3>4. expired \in Machine
      BY <3>2, <3>3 DEF Machine
    <3>5. expired.job = [m.job EXCEPT !.request.timed = TRUE] /\ expired.next = m.next
      BY <3>3 DEF Machine
    <3>6. /\ [m.job EXCEPT !.request.timed = TRUE].request.operation = m.job.request.operation
          /\ [m.job EXCEPT !.request.timed = TRUE].request.graph = m.job.request.graph
          /\ [m.job EXCEPT !.request.timed = TRUE].phase = m.job.phase
      BY <3>1 DEF Job, Request
    <3> HIDE DEF expired
    <3>7. KeepsJob(m, expired)
      BY <3>1, <3>2, <3>5, <3>6, NoneAssumption DEF KeepsJob
    <3> QED BY <3>4, <3>5, <3>7
  <2>2. CASE ~RunsOperation(m, operation)
    BY <2>2 DEF KeepsJob
  <2> QED BY <2>1, <2>2
<1>2. "timeout" \in Result
  BY DEF Result, Error
<1> HIDE DEF expired
<1>3. told \in Machine /\ told.job = expired.job /\ told.next = m.next
  BY <1>1, <1>2, CompleteWaitersType
<1>4. DeadlineReached(m, operation) = IF m.queued # None /\ m.queued.operation = operation
                                      THEN [told EXCEPT !.queued = None] ELSE told
  BY DEF DeadlineReached, expired
<1> HIDE DEF told
<1> QED BY <1>1, <1>3, <1>4 DEF Machine, KeepsJob

\* Promotion renames what is active.
LEMMA PromoteType ==
    ASSUME NEW m \in Machine, NEW key \in Key
    PROVE  /\ Promote(m, key) \in Machine
           /\ Promote(m, key).job = m.job
           /\ Promote(m, key).next = m.next
<1>1. CASE ~Promotable(m, key)
  BY <1>1 DEF Promote
<1>2. CASE Promotable(m, key)
  <2>1. m.active \in ActiveGraph
    BY <1>2 DEF Promotable, ActiveHere, Machine
  <2>2. [m.active EXCEPT !.origin = Canonical] \in ActiveGraph
    BY <2>1 DEF ActiveGraph, Origin, Canonical
  <2>3. [key |-> key, graph |-> m.active.graph] \in Intent
    BY <2>1 DEF ActiveGraph, Intent
  <2>4. (IF m.active.origin # Canonical THEN m.active.origin ELSE m.operation) \in Nat
    BY <2>1 DEF ActiveGraph, Origin, Machine
  <2>5. Promote(m, key) =
          [m EXCEPT !.operation = IF m.active.origin # Canonical THEN m.active.origin ELSE m.operation,
                    !.target = key,
                    !.active = [m.active EXCEPT !.origin = Canonical],
                    !.canonical = [key |-> key, graph |-> m.active.graph],
                    !.error = None]
    BY <1>2, <2>1 DEF Promote, Machine, ActiveGraph
  <2> QED BY <2>2, <2>3, <2>4, <2>5 DEF Machine
<1> QED BY <1>1, <1>2

LEMMA SupersedeQueuedCanonicalType ==
    ASSUME NEW m \in Machine
    PROVE  /\ SupersedeQueuedCanonical(m) \in Machine
           /\ SupersedeQueuedCanonical(m).job = m.job
           /\ SupersedeQueuedCanonical(m).active = m.active
           /\ SupersedeQueuedCanonical(m).next = m.next
<1>1. CASE m.queued # None /\ m.queued.origin = Canonical
  <2> DEFINE dropped == [m EXCEPT !.queued = None]
  <2>1. /\ dropped \in Machine
        /\ dropped.job = m.job
        /\ dropped.active = m.active
        /\ dropped.next = m.next
    BY DEF Machine
  <2>2. SupersedeQueuedCanonical(m) = CompleteOperation(dropped, m.queued.operation, "superseded")
    BY <1>1 DEF SupersedeQueuedCanonical
  <2>3. "superseded" \in Result
    BY DEF Result, Error
  <2> HIDE DEF dropped
  <2>4. CompleteOperation(dropped, m.queued.operation, "superseded").active = dropped.active
    BY <2>1 DEF CompleteOperation, CompleteWaiters, Machine
  <2> QED BY <2>1, <2>2, <2>3, <2>4, CompleteOperationType
<1>2. CASE ~(m.queued # None /\ m.queued.origin = Canonical)
  BY <1>2 DEF SupersedeQueuedCanonical
<1> QED BY <1>1, <1>2

LEMMA EnqueueType ==
    ASSUME NEW m \in Machine, NEW request \in Request
    PROVE  /\ Enqueue(m, request) \in Machine
           /\ KeepsJob(m, Enqueue(m, request))
           /\ Enqueue(m, request).next = m.next
<1>1. CASE m.job = None
  BY <1>1, StartType DEF Enqueue, KeepsJob
<1>2. CASE m.job # None
  <2> DEFINE replaced == [m EXCEPT !.queued = request]
  <2>1. replaced \in Machine /\ replaced.job = m.job /\ replaced.next = m.next
    BY DEF Machine
  <2>2. Enqueue(m, request) =
          IF m.queued = None THEN replaced
          ELSE CompleteOperation(replaced, m.queued.operation, "superseded")
    BY <1>2 DEF Enqueue
  <2>3. "superseded" \in Result
    BY DEF Result, Error
  <2> HIDE DEF replaced
  <2>4. Enqueue(m, request) \in Machine /\ Enqueue(m, request).job = m.job
        /\ Enqueue(m, request).next = m.next
    BY <2>1, <2>2, <2>3, CompleteOperationType
  <2> QED BY <2>4 DEF KeepsJob
<1> QED BY <1>1, <1>2

\* Giving a waiter the operation of another submission.
LEMMA AliasType ==
    ASSUME NEW m \in Machine, NEW operation, NEW other \in Nat \ {0}
    PROVE  /\ Alias(m, operation, other) \in Machine
           /\ Alias(m, operation, other).job = m.job
           /\ Alias(m, operation, other).queued = m.queued
           /\ Alias(m, operation, other).next = m.next
<1> DEFINE renamed == {IF w.id = operation THEN [w EXCEPT !.operation = other] ELSE w : w \in m.waiters}
<1>1. renamed \subseteq Waiter
  <2> SUFFICES ASSUME NEW w \in m.waiters
               PROVE  (IF w.id = operation THEN [w EXCEPT !.operation = other] ELSE w) \in Waiter
    OBVIOUS
  <2> QED BY DEF Machine, Waiter
<1>2. Alias(m, operation, other) = [m EXCEPT !.waiters = renamed]
  BY DEF Alias
<1> HIDE DEF renamed
<1> QED BY <1>1, <1>2 DEF Machine

\* A canonical submission sets the intent and the counters, and leaves the
\* work alone.
SameWorkload(n, w) ==
    /\ n.next = w.next /\ n.waiters = w.waiters /\ n.stopped = w.stopped
    /\ n.job = w.job /\ n.queued = w.queued /\ n.active = w.active

LEMMA IntentSet ==
    ASSUME NEW w \in Machine, NEW intent \in Intent, NEW operation \in Nat, NEW key \in Key,
           NEW n, n = [w EXCEPT !.canonical = intent, !.error = None,
                                !.operation = operation, !.target = key]
    PROVE  n \in Machine /\ SameWorkload(n, w)
BY DEF Machine, SameWorkload

\* A submission numbers a new operation and leaves a running job alone,
\* whichever of its five outcomes it has.
LEMMA SubmitType ==
    ASSUME NEW m \in Machine, NEW key \in Key, NEW graph \in Graph,
           NEW timed \in BOOLEAN, NEW canonical \in BOOLEAN
    PROVE  /\ Submit(m, key, graph, timed, canonical) \in Machine
           /\ KeepsJob(m, Submit(m, key, graph, timed, canonical))
           /\ Submit(m, key, graph, timed, canonical).next = m.next + 1
<1> DEFINE operation == m.next + 1
           outcome == SubmitOutcome(m, key, graph, canonical)
           waiter == [id |-> operation, operation |-> operation, key |-> key, result |-> None]
           waiting == [m EXCEPT !.next = operation, !.waiters = m.waiters \union {waiter}]
           intended == IF canonical
                       THEN [waiting EXCEPT !.canonical = [key |-> key, graph |-> graph],
                                            !.error = None,
                                            !.operation = operation,
                                            !.target = key]
                       ELSE waiting
           request == [operation |-> operation, key |-> key, graph |-> graph,
                       origin |-> IF canonical THEN Canonical ELSE operation,
                       timed |-> timed]
           submitted == Submit(m, key, graph, timed, canonical)
<1>1. operation \in Nat \ {0}
  BY DEF Machine
<1>2. waiter \in Waiter
  BY <1>1 DEF Waiter
<1>3. /\ waiting \in Machine
      /\ waiting.job = m.job
      /\ waiting.queued = m.queued
      /\ waiting.active = m.active
      /\ waiting.next = operation
  <2> HIDE DEF operation, waiter
  <2> QED BY <1>1, <1>2 DEF Machine
<1>4. /\ intended \in Machine
      /\ intended.job = m.job
      /\ intended.queued = m.queued
      /\ intended.active = m.active
      /\ intended.next = operation
  <2>1. [key |-> key, graph |-> graph] \in Intent /\ operation \in Nat
    BY <1>1 DEF Intent
  <2>2. CASE canonical
    <3>1. intended = [waiting EXCEPT !.canonical = [key |-> key, graph |-> graph], !.error = None,
                                     !.operation = operation, !.target = key]
      BY <2>2
    <3>2. key \in Key /\ waiting \in Machine
      BY <1>3
    <3> HIDE DEF operation, waiting, waiter, intended
    <3>3. intended \in Machine /\ SameWorkload(intended, waiting)
      BY <2>1, <3>1, <3>2, IntentSet
    <3> QED BY <1>3, <3>3 DEF SameWorkload
  <2>3. CASE ~canonical
    BY <1>3, <2>3
  <2> QED BY <2>2, <2>3
<1>5. request \in Request
  BY <1>1 DEF Request, Origin, Canonical
<1>6. submitted = CASE outcome \in {"shuttingDown", "superseded"} ->
                         CompleteWaiters(waiting, {operation}, outcome)
                    [] outcome = "adopted" ->
                         CompleteWaiters(
                             [SupersedeQueuedCanonical(intended) EXCEPT !.active.key = key,
                                                                        !.active.origin = Canonical],
                             {operation}, "ok")
                    [] outcome = "joinsJob" ->
                         Alias(SupersedeQueuedCanonical(intended), operation, m.job.request.operation)
                    [] outcome = "joinsQueued" ->
                         [Alias(intended, operation, m.queued.operation) EXCEPT
                              !.queued.key = key, !.queued.origin = Canonical]
                    [] OTHER -> Enqueue(intended, request)
  BY DEF Submit
<1>7. outcome \in {"shuttingDown", "superseded", "adopted", "joinsJob", "joinsQueued", "queued"}
  BY DEF SubmitOutcome, CanonicalOutcome, Machine
<1>o. /\ outcome = "adopted" => m.active # None
      /\ outcome = "joinsJob" => m.job # None
      /\ outcome = "joinsQueued" => m.queued # None
  BY DEF SubmitOutcome, CanonicalOutcome, ActiveHere, Machine
<1>k. ASSUME NEW n \in Machine, n.job = m.job
      PROVE  KeepsJob(m, n)
  BY <1>k DEF KeepsJob
<1> HIDE DEF operation, outcome, waiting, intended, request, submitted
<1>8. CASE outcome \in {"shuttingDown", "superseded"}
  <2>1. outcome \in Result /\ submitted = CompleteWaiters(waiting, {operation}, outcome)
    BY <1>6, <1>8 DEF Result, Error
  <2> QED BY <2>1, <1>3, <1>k, CompleteWaitersType DEF operation, submitted
<1>9. CASE outcome = "adopted"
  <2> DEFINE base == SupersedeQueuedCanonical(intended)
             active == [base.active EXCEPT !.key = key, !.origin = Canonical]
             adopted == [base EXCEPT !.active = active]
  <2>1. base \in Machine /\ base.job = m.job /\ base.active = m.active /\ base.next = operation
    BY <1>4, SupersedeQueuedCanonicalType
  <2>2. submitted = CompleteWaiters([base EXCEPT !.active.key = key, !.active.origin = Canonical],
                                    {operation}, "ok")
    BY <1>6, <1>9
  <2> HIDE DEF base
  <2>3. base.active \in ActiveGraph
    BY <2>1, <1>9, <1>o DEF Machine
  <2>4. [base EXCEPT !.active.key = key, !.active.origin = Canonical] = adopted
    BY <2>1, <2>3 DEF Machine, ActiveGraph
  <2>5. active \in ActiveGraph
    BY <2>3 DEF ActiveGraph, Origin, Canonical
  <2>6. adopted \in Machine /\ adopted.job = m.job /\ adopted.next = operation
    BY <2>1, <2>5 DEF Machine
  <2>7. "ok" \in Result
    BY DEF Result
  <2>8. submitted = CompleteWaiters(adopted, {operation}, "ok")
    BY <2>2, <2>4, Zenon
  <2> HIDE DEF adopted, active
  <2>9. submitted \in Machine /\ submitted.job = m.job /\ submitted.next = operation
    BY <2>6, <2>7, <2>8, CompleteWaitersType
  <2> QED BY <2>9, <1>k DEF operation, submitted
<1>10. CASE outcome = "joinsJob"
  <2> DEFINE base == SupersedeQueuedCanonical(intended)
  <2>1. base \in Machine /\ base.job = m.job /\ base.next = operation
    BY <1>4, SupersedeQueuedCanonicalType
  <2>2. m.job.request.operation \in Nat \ {0}
    BY <1>10, <1>o DEF Machine, Job, Request
  <2>3. submitted = Alias(base, operation, m.job.request.operation)
    BY <1>6, <1>10
  <2> HIDE DEF base
  <2>4. submitted \in Machine /\ submitted.job = m.job /\ submitted.next = operation
    BY <2>1, <2>2, <2>3, AliasType
  <2> QED BY <2>4, <1>k DEF operation, submitted
<1>11. CASE outcome = "joinsQueued"
  <2> DEFINE base == Alias(intended, operation, m.queued.operation)
             queued == [m.queued EXCEPT !.key = key, !.origin = Canonical]
  <2>1. m.queued \in Request
    BY <1>11, <1>o DEF Machine
  <2>2. m.queued.operation \in Nat \ {0}
    BY <2>1 DEF Request
  <2>3. base \in Machine /\ base.job = m.job /\ base.queued = m.queued /\ base.next = operation
    BY <1>4, <2>2, AliasType
  <2>4. submitted = [base EXCEPT !.queued.key = key, !.queued.origin = Canonical]
    BY <1>6, <1>11
  <2> HIDE DEF base
  <2>5. queued \in Request
    BY <2>1 DEF Request, Origin, Canonical
  <2>6. submitted = [base EXCEPT !.queued = queued]
    BY <2>1, <2>3, <2>4 DEF Machine, Request
  <2>7. submitted \in Machine /\ submitted.job = m.job /\ submitted.next = operation
    BY <2>3, <2>5, <2>6 DEF Machine
  <2> QED BY <2>7, <1>k DEF operation, submitted
<1>12. CASE outcome = "queued"
  <2>1. submitted = Enqueue(intended, request)
    BY <1>6, <1>12
  <2>2. submitted \in Machine /\ KeepsJob(intended, submitted) /\ submitted.next = operation
    BY <2>1, <1>4, <1>5, EnqueueType
  <2> QED BY <2>2, <1>4 DEF KeepsJob, operation, submitted
<1> QED BY <1>7, <1>8, <1>9, <1>10, <1>11, <1>12

\* A prepared report ends the job, leaves it alone, or moves the very job the
\* worker asks to commit into its second phase.
LEMMA PreparedType ==
    ASSUME NEW m \in Machine, NEW operation, NEW result \in Result \union {"retryable"}, NEW expired
    PROVE  /\ Prepared(m, operation, result, expired) \in Machine
           /\ Prepared(m, operation, result, expired).next = m.next
           /\ PreparedEffect(m, operation, result, expired) \in {"none", "commit", "discard"}
           /\ PreparedEffect(m, operation, result, expired) = "commit" =>
                /\ result = "ok"
                /\ m.job # None
                /\ Prepared(m, operation, result, expired).job # None
                /\ Prepared(m, operation, result, expired).job.request = m.job.request
                /\ Prepared(m, operation, result, expired).job.phase = "committing"
<1> DEFINE reported == Prepared(m, operation, result, expired)
           runs == RunsOperation(m, operation)
           current == JobIsCurrent(m, expired)
<1>1. reported = CASE ~runs -> m
                   [] runs /\ ~current -> FinishError(m, "superseded")
                   [] OTHER -> CASE result = "ok" -> [m EXCEPT !.job.phase = "committing"]
                                 [] result = "retryable" -> m
                                 [] OTHER -> FinishError(m, result)
  BY DEF Prepared
<1>2. PreparedEffect(m, operation, result, expired) =
        IF result # "ok" THEN "none" ELSE IF runs /\ current THEN "commit" ELSE "discard"
  BY DEF PreparedEffect
<1>3. runs => m.job # None
  BY DEF RunsOperation
<1>4. "superseded" \in Error
  BY DEF Error
<1>5. runs \in BOOLEAN /\ current \in BOOLEAN
  BY DEF RunsOperation, JobIsCurrent
<1> HIDE DEF reported, runs, current
<1>6. CASE ~runs
  BY <1>1, <1>2, <1>6 DEF reported
<1>7. CASE runs /\ ~current
  <2>1. reported = FinishError(m, "superseded")
    BY <1>1, <1>7
  <2> QED BY <2>1, <1>2, <1>3, <1>4, <1>7, FinishErrorType DEF reported
<1>8. CASE runs /\ current
  <2>1. CASE result = "ok"
    <3> DEFINE job == [m.job EXCEPT !.phase = "committing"]
    <3>1. m.job \in Job
      BY <1>3, <1>8 DEF Machine
    <3>2. job \in Job /\ job.request = m.job.request /\ job.phase = "committing"
      BY <3>1 DEF Job
    <3>3. reported = [m EXCEPT !.job = job]
      BY <1>1, <1>8, <2>1
    <3> HIDE DEF job
    <3>4. reported \in Machine /\ reported.job = job /\ reported.next = m.next
      BY <3>2, <3>3 DEF Machine
    <3> QED BY <1>2, <1>3, <1>8, <2>1, <3>2, <3>4, NoneAssumption DEF reported
  <2>2. CASE result = "retryable"
    <3>1. reported = m
      BY <1>1, <1>8, <2>2
    <3> QED BY <1>2, <2>2, <3>1 DEF reported
  <2>3. CASE result \notin {"ok", "retryable"}
    <3>1. result \in Error
      BY <2>3 DEF Result
    <3>2. reported = FinishError(m, result)
      BY <1>1, <1>8, <2>3
    <3> QED BY <1>2, <1>3, <1>8, <2>3, <3>1, <3>2, FinishErrorType DEF reported
  <2> QED BY <2>1, <2>2, <2>3
<1> QED BY <1>5, <1>6, <1>7, <1>8

\* A committed report of the worker.
LEMMA CommittedType ==
    ASSUME NEW m \in Machine, NEW operation, NEW result \in Result \union {"retryable"}, NEW expired
    PROVE  /\ Committed(m, operation, result, expired) \in Machine
           /\ Committed(m, operation, result, expired).next = m.next
<1> DEFINE reported == Committed(m, operation, result, expired)
           runs == RunsOperation(m, operation)
           current == JobIsCurrent(m, expired)
<1>1. reported = CASE ~runs -> m
                   [] runs /\ result = "ok" ->
                        IF current THEN FinishOk(m)
                        ELSE FinishError(InstallCommitted(m), "superseded")
                   [] OTHER -> IF result = "retryable"
                               THEN IF current THEN [m EXCEPT !.job.phase = "preparing"]
                                    ELSE FinishError(m, "failed")
                               ELSE FinishError(m, result)
  BY DEF Committed
<1>2. runs => m.job # None
  BY DEF RunsOperation
<1>3. "superseded" \in Error /\ "failed" \in Error
  BY DEF Error
<1>4. runs \in BOOLEAN
  BY DEF RunsOperation
<1> HIDE DEF reported, runs, current
<1>5. CASE ~runs
  BY <1>1, <1>5 DEF reported
<1>6. CASE runs /\ result = "ok"
  <2>1. reported = IF current THEN FinishOk(m) ELSE FinishError(InstallCommitted(m), "superseded")
    BY <1>1, <1>6
  <2>2. /\ InstallCommitted(m) \in Machine
        /\ InstallCommitted(m).job # None
        /\ InstallCommitted(m).next = m.next
    BY <1>2, <1>6, InstallCommittedType
  <2>3. FinishOk(m) \in Machine /\ FinishOk(m).next = m.next
    BY <1>2, <1>6, FinishOkType
  <2>4. /\ FinishError(InstallCommitted(m), "superseded") \in Machine
        /\ FinishError(InstallCommitted(m), "superseded").next = InstallCommitted(m).next
    BY <1>3, <2>2, FinishErrorType
  <2> QED BY <2>1, <2>2, <2>3, <2>4 DEF reported
<1>7. CASE runs /\ result = "retryable"
  <2>1. reported = IF current THEN [m EXCEPT !.job.phase = "preparing"] ELSE FinishError(m, "failed")
    BY <1>1, <1>7
  <2>2. m.job \in Job
    BY <1>2, <1>7 DEF Machine
  <2>3. [m.job EXCEPT !.phase = "preparing"] \in Job
    BY <2>2 DEF Job
  <2>4. /\ [m EXCEPT !.job.phase = "preparing"] \in Machine
        /\ [m EXCEPT !.job.phase = "preparing"].next = m.next
    BY <2>3 DEF Machine
  <2>5. FinishError(m, "failed") \in Machine /\ FinishError(m, "failed").next = m.next
    BY <1>2, <1>3, <1>7, FinishErrorType
  <2> QED BY <2>1, <2>4, <2>5 DEF reported
<1>8. CASE runs /\ result \notin {"ok", "retryable"}
  <2>1. result \in Error
    BY <1>8 DEF Result
  <2>2. reported = FinishError(m, result)
    BY <1>1, <1>8
  <2> QED BY <1>2, <1>8, <2>1, <2>2, FinishErrorType DEF reported
<1> QED BY <1>4, <1>5, <1>6, <1>7, <1>8

-----------------------------------------------------------------------------
(* The inductive invariant.                                                *)

\* A busy worker carries a request, and a result once a native call returned.
WorkerCarries ==
    /\ worker.at \notin {"idle", "exited"} => worker.request \in Request
    /\ worker.at \in {"prepared", "decide", "committed", "conclude"} =>
         worker.result \in Result \union {"retryable"}

\* Whoever waits, waits for an operation that was issued.
WaitsForIssued ==
    \A c \in Caller : call[c].at \in {"waiting", "expiring"} => call[c].operation \in 1 .. machine.next

\* From a successful preparation to its commit nothing is left running in the
\* sidecar, and what is prepared there is the worker's graph, or nothing after
\* a restart.
PreparedIsWorkers ==
    \/ worker.at \in {"prepared", "decide"} /\ worker.result = "ok"
    \/ worker.at = "commit"
    => native.abandoned = None /\ native.prepared \in {None, worker.request.graph}

IInv == TypeOK /\ WorkerOwnsJob /\ WorkerCarries /\ WaitsForIssued /\ PreparedIsWorkers

\* The initial state satisfies the invariant.
LEMMA InitInv == Init => IInv
<1> SUFFICES ASSUME Init PROVE IInv
  OBVIOUS
<1>1. machine \in Machine
  BY NewMachineType DEF Init
<1>2. machine.next \in Nat
  BY <1>1 DEF Machine
<1>3. native \in [generation : Nat, prepared : Graph \union {None},
                  committed : Graph \union {None}, abandoned : {None, "commit"} \union Graph]
  BY DEF Init
<1>4. call \in [Caller -> Call \union {Idle}]
  BY DEF Init
<1>5. worker \in [at : WorkerAt, request : Request \union {None},
                  result : Result \union {"retryable", None}]
  BY DEF Init, WorkerAt
<1>6. TypeOK
  BY <1>1, <1>2, <1>3, <1>4, <1>5 DEF Init, TypeOK, StateOK
<1> QED BY <1>6 DEF Init, IInv, WorkerOwnsJob, WorkerCarries, WaitsForIssued, PreparedIsWorkers, Idle

-----------------------------------------------------------------------------
(* Steps that leave the worker and the sidecar alone.                      *)

\* Such a step keeps the worker's part of the invariant when it keeps the job.
LEMMA WorkerUntouched ==
    ASSUME IInv, machine' \in Machine, KeepsJob(machine, machine'), worker' = worker, native' = native
    PROVE  WorkerOwnsJob' /\ WorkerCarries' /\ PreparedIsWorkers'
<1>1. WorkerOwnsJob'
  BY DEF IInv, WorkerOwnsJob, KeepsJob
<1>2. WorkerCarries' /\ PreparedIsWorkers'
  BY DEF IInv, WorkerCarries, PreparedIsWorkers
<1> QED BY <1>1, <1>2

\* And the callers' part when no operation number is taken back.
LEMMA WaitsKept ==
    ASSUME IInv, machine' \in Machine, machine'.next >= machine.next,
           \A c \in Caller : call'[c].at \in {"waiting", "expiring"} =>
               \/ call[c].at \in {"waiting", "expiring"} /\ call'[c].operation = call[c].operation
               \/ call'[c].operation \in 1 .. machine'.next
    PROVE  WaitsForIssued'
<1> SUFFICES ASSUME NEW c \in Caller, call'[c].at \in {"waiting", "expiring"}
             PROVE  call'[c].operation \in 1 .. machine'.next
  BY DEF WaitsForIssued
<1>1. machine.next \in Nat /\ machine'.next \in Nat
  BY DEF IInv, TypeOK, StateOK, Machine
<1>2. call[c].at \in {"waiting", "expiring"} => call[c].operation \in 1 .. machine.next
  BY DEF IInv, WaitsForIssued
<1> QED BY <1>1, <1>2

\* A caller that has something on its hands has a well-formed call.
LEMMA BusyCall ==
    ASSUME IInv, NEW c \in Caller, call[c].at # "idle"
    PROVE  call[c] \in Call /\ call[c].purpose \in AllPurposes /\ call[c].key \in Key
           /\ call[c].graph \in Graph /\ call[c].operation \in Nat
BY DEF IInv, TypeOK, StateOK, Call, Idle

\* Moving on to a submission.
LEMMA ToSubmitType ==
    ASSUME IInv, NEW c \in Caller, NEW purpose \in AllPurposes, NEW next \in Intent,
           ToSubmit(c, purpose, next)
    PROVE  /\ call' \in [Caller -> Call \union {Idle}]
           /\ \A d \in Caller : call'[d].at \in {"waiting", "expiring"} => call'[d] = call[d]
<1> DEFINE submits == [at |-> "submit", purpose |-> purpose, key |-> next.key,
                       graph |-> next.graph, operation |-> 0]
<1>1. submits \in Call
  BY DEF Call, CallAt, Intent
<1>2. call \in [Caller -> Call \union {Idle}]
  BY DEF IInv, TypeOK, StateOK
<1>3. call' = [call EXCEPT ![c] = submits]
  BY DEF ToSubmit
<1>4. submits.at = "submit"
  OBVIOUS
<1> HIDE DEF submits
<1> QED BY <1>1, <1>2, <1>3, <1>4

\* Coming back from a submission.
LEMMA ReturnType ==
    ASSUME IInv, NEW c \in Caller, call[c].at # "idle", NEW ok \in BOOLEAN, Return(c, ok)
    PROVE  /\ call' \in [Caller -> Call \union {Idle}]
           /\ \A d \in Caller : call'[d].at \in {"waiting", "expiring"} => call'[d] = call[d]
           /\ writer' \in Caller \union {None}
<1> DEFINE this == call[c]
           failedTo == IF this.purpose = "device" THEN "resync" ELSE "restore"
           back == CASE this.purpose = "device" /\ ok -> [this EXCEPT !.at = "commit"]
                     [] this.purpose = "switch" /\ ok -> [this EXCEPT !.at = "promote"]
                     [] this.purpose \in Proposing /\ ~ok ->
                          [this EXCEPT !.at = "submit", !.purpose = failedTo,
                                       !.key = core.key, !.graph = core.graph, !.operation = 0]
                     [] OTHER -> Idle
<1>1. this \in Call
  BY BusyCall
<1>2. core.key \in Key /\ core.graph \in Graph /\ failedTo \in AllPurposes
  BY DEF IInv, TypeOK, StateOK, Intent, AllPurposes
<1>3. back \in Call \union {Idle} /\ back.at \notin {"waiting", "expiring"}
  BY <1>1, <1>2 DEF Call, CallAt, Proposing, Idle
<1>4. call' = [call EXCEPT ![c] = back]
  BY DEF Return
<1>5. call \in [Caller -> Call \union {Idle}] /\ writer \in Caller \union {None}
  BY DEF IInv, TypeOK, StateOK
<1>6. writer' \in {None, writer}
  BY DEF Return
<1> HIDE DEF back
<1> QED BY <1>3, <1>4, <1>5, <1>6

-----------------------------------------------------------------------------
(* One lemma per group of actions.                                         *)

\* What a step has to show: the types, and the three facts above.
LEMMA StepInv ==
    ASSUME IInv, machine' \in Machine, machine'.next >= machine.next,
           late' \subseteq 1 .. machine.next,
           worker' \in [at : WorkerAt, request : Request \union {None},
                        result : Result \union {"retryable", None}],
           native' \in [generation : Nat, prepared : Graph \union {None},
                        committed : Graph \union {None}, abandoned : {None, "commit"} \union Graph],
           core' \in Intent,
           writer' \in Caller \union {None},
           call' \in [Caller -> Call \union {Idle}],
           WorkerOwnsJob' /\ WorkerCarries' /\ PreparedIsWorkers',
           WaitsForIssued'
    PROVE  IInv'
<1>1. machine.next \in Nat /\ machine'.next \in Nat
  BY DEF IInv, TypeOK, StateOK, Machine
<1>2. late' \subseteq 1 .. machine'.next
  BY <1>1
<1> QED BY <1>2 DEF IInv, TypeOK, StateOK

\* The steps that begin something: the machine may change its environment.
LEMMA BeginInv ==
    ASSUME IInv, NEW c \in Caller,
           Edit(c) \/ Resync(c) \/ ChangeAudioDevice(c) \/ ProposeDevice(c) \/ OpenProject(c)
    PROVE  IInv'
<1>1. /\ machine \in Machine /\ core \in Intent /\ native.generation \in Nat
      /\ late \subseteq 1 .. machine.next /\ machine.next \in Nat
      /\ writer \in Caller \union {None}
  BY DEF IInv, TypeOK, StateOK, Machine
<1>2. \A key \in NextKeys, graph \in Graph : [key |-> key, graph |-> graph] \in Intent
  BY DEF NextKeys, Intent
<1>3. /\ worker' = worker /\ native' = native /\ late' = late
      /\ core' \in Intent /\ writer' \in {writer, c}
  BY <1>1, <1>2 DEF Edit, Resync, ChangeAudioDevice, ProposeDevice, OpenProject
<1>4. machine' \in Machine /\ machine'.job = machine.job /\ machine'.next = machine.next
  <2>1. CASE machine' = machine
    BY <1>1, <2>1
  <2>2. CASE machine' = AudioEnvironmentAdvanced(GenerationObserved(machine, native.generation))
    <3> DEFINE observed == GenerationObserved(machine, native.generation)
    <3>1. observed \in Machine /\ observed.job = machine.job /\ observed.next = machine.next
      BY <1>1, GenerationObservedType
    <3> HIDE DEF observed
    <3>2. machine' = AudioEnvironmentAdvanced(observed)
      BY <2>2 DEF observed
    <3> QED BY <3>1, <3>2, AudioEnvironmentAdvancedType
  <2> QED BY <2>1, <2>2 DEF Edit, Resync, ChangeAudioDevice, ProposeDevice, OpenProject
<1>5. \E purpose \in AllPurposes, next \in Intent : ToSubmit(c, purpose, next)
  BY <1>1, <1>2 DEF Edit, Resync, ChangeAudioDevice, ProposeDevice, OpenProject, AllPurposes
<1>6. /\ call' \in [Caller -> Call \union {Idle}]
      /\ \A d \in Caller : call'[d].at \in {"waiting", "expiring"} => call'[d] = call[d]
  BY <1>5, ToSubmitType
<1>7. WorkerOwnsJob' /\ WorkerCarries' /\ PreparedIsWorkers'
  BY <1>3, <1>4, WorkerUntouched DEF KeepsJob
<1>8. WaitsForIssued'
  BY <1>1, <1>4, <1>6, WaitsKept
<1> QED BY <1>1, <1>3, <1>4, <1>6, <1>7, <1>8, StepInv DEF IInv, TypeOK, StateOK

\* A submission issues the operation its caller waits for.
LEMMA SubmitInv ==
    ASSUME IInv, NEW c \in Caller, SubmitProjection(c)
    PROVE  IInv'
<1> DEFINE timed == call[c].purpose \notin Untimed
           canonical == call[c].purpose \notin Proposing
           observed == GenerationObserved(machine, native.generation)
           outcome == SubmitOutcome(observed, call[c].key, call[c].graph, canonical)
           submitted == Submit(observed, call[c].key, call[c].graph, timed, canonical)
           rejected == outcome \in {"shuttingDown", "superseded"}
<1>1. machine \in Machine /\ native.generation \in Nat /\ machine.next \in Nat
  BY DEF IInv, TypeOK, StateOK, Machine
<1>2. /\ call[c].at = "submit"
      /\ IF rejected \/ outcome = "adopted" \/ ~timed
         THEN machine' = RemoveWaiter(submitted, submitted.next) /\ Return(c, ~rejected)
         ELSE /\ machine' = submitted
              /\ call' = [call EXCEPT ![c].at = "waiting", ![c].operation = submitted.next]
              /\ writer' = writer
      /\ late' = late /\ worker' = worker /\ native' = native /\ core' = core
  BY DEF SubmitProjection
<1>3. call[c] \in Call /\ call[c].key \in Key /\ call[c].graph \in Graph
  BY <1>2, BusyCall
<1>4. observed \in Machine /\ observed.job = machine.job /\ observed.next = machine.next
  BY <1>1, GenerationObservedType
<1>5. /\ submitted \in Machine
      /\ KeepsJob(observed, submitted)
      /\ submitted.next = machine.next + 1
  <2>1. timed \in BOOLEAN /\ canonical \in BOOLEAN
    OBVIOUS
  <2> HIDE DEF observed, timed, canonical
  <2> QED BY <2>1, <1>3, <1>4, SubmitType
<1>6. KeepsJob(machine, submitted)
  BY <1>4, <1>5 DEF KeepsJob
<1>7. rejected \in BOOLEAN
  OBVIOUS
<1> HIDE DEF timed, canonical, observed, outcome, submitted, rejected
<1>8. machine' \in Machine /\ KeepsJob(machine, machine') /\ machine'.next = machine.next + 1
  BY <1>2, <1>5, <1>6, RemoveWaiterType DEF KeepsJob
<1>9. /\ call' \in [Caller -> Call \union {Idle}]
      /\ writer' \in Caller \union {None}
      /\ \A d \in Caller : call'[d].at \in {"waiting", "expiring"} =>
            call'[d] = call[d] \/ call'[d].operation = machine.next + 1
  <2>1. CASE rejected \/ outcome = "adopted" \/ ~timed
    <3>1. Return(c, ~rejected) /\ call[c].at # "idle" /\ (~rejected) \in BOOLEAN
      BY <1>2, <1>7, <2>1
    <3> QED BY <3>1, ReturnType
  <2>2. CASE ~(rejected \/ outcome = "adopted" \/ ~timed)
    <3> DEFINE next == submitted.next
               waits == [call[c] EXCEPT !.at = "waiting", !.operation = next]
    <3>0. next = machine.next + 1 /\ next \in Nat
      BY <1>1, <1>5
    <3> HIDE DEF next
    <3>1. waits \in Call /\ waits.operation = machine.next + 1
      BY <1>3, <3>0 DEF Call, CallAt
    <3>2. call \in [Caller -> Call \union {Idle}] /\ writer \in Caller \union {None}
      BY DEF IInv, TypeOK, StateOK
    <3>3. call' = [call EXCEPT ![c] = waits] /\ writer' = writer
      BY <1>2, <1>3, <2>2, <3>2 DEF Call, next
    <3> HIDE DEF waits
    <3> QED BY <3>1, <3>2, <3>3
  <2> QED BY <2>1, <2>2
<1>10. WorkerOwnsJob' /\ WorkerCarries' /\ PreparedIsWorkers'
  BY <1>2, <1>8, WorkerUntouched
<1>11. WaitsForIssued'
  <2>1. machine.next + 1 \in 1 .. machine'.next /\ machine'.next >= machine.next
    BY <1>1, <1>8
  <2> QED BY <1>8, <1>9, <2>1, WaitsKept
<1>12. machine'.next >= machine.next /\ late' \subseteq 1 .. machine.next
  BY <1>1, <1>2, <1>8 DEF IInv, TypeOK, StateOK
<1> QED BY <1>2, <1>8, <1>9, <1>10, <1>11, <1>12, StepInv DEF IInv, TypeOK, StateOK

\* Waiting: observing the generation, collecting a result, giving up.
LEMMA WaitInv ==
    ASSUME IInv, NEW c \in Caller,
           PollGeneration(c) \/ CollectResult(c) \/ GiveUp(c) \/ ReportDeadline(c)
    PROVE  IInv'
<1>1. /\ machine \in Machine /\ native.generation \in Nat /\ machine.next \in Nat
      /\ late \subseteq 1 .. machine.next /\ writer \in Caller \union {None}
      /\ call \in [Caller -> Call \union {Idle}]
  BY DEF IInv, TypeOK, StateOK, Machine
<1>2. worker' = worker /\ native' = native /\ core' = core /\ late' = late
  BY DEF PollGeneration, CollectResult, GiveUp, ReportDeadline
<1>3. call[c].at \in {"waiting", "expiring"} /\ call[c] \in Call
  <2>1. call[c].at \in {"waiting", "expiring"}
    BY DEF PollGeneration, CollectResult, GiveUp, ReportDeadline
  <2> QED BY <2>1, BusyCall
<1>4. machine' \in Machine /\ KeepsJob(machine, machine') /\ machine'.next = machine.next
  <2>1. CASE machine' = machine
    BY <1>1, <2>1 DEF KeepsJob
  <2>2. CASE machine' = GenerationObserved(machine, native.generation)
    BY <1>1, <2>2, GenerationObservedType DEF KeepsJob
  <2>3. CASE machine' = RemoveWaiter(machine, call[c].operation)
    BY <1>1, <2>3, RemoveWaiterType DEF KeepsJob
  <2>4. CASE machine' = DeadlineReached(machine, call[c].operation)
    BY <1>1, <2>4, DeadlineReachedType
  <2> QED BY <2>1, <2>2, <2>3, <2>4 DEF PollGeneration, CollectResult, GiveUp, ReportDeadline
<1>5. /\ call' \in [Caller -> Call \union {Idle}]
      /\ writer' \in Caller \union {None}
      /\ \A d \in Caller : call'[d].at \in {"waiting", "expiring"} =>
            call[d].at \in {"waiting", "expiring"} /\ call'[d].operation = call[d].operation
  <2>1. CASE CollectResult(c)
    <3>1. PICK ok \in BOOLEAN : Return(c, ok)
      BY <2>1 DEF CollectResult
    <3> QED BY <1>3, <3>1, ReturnType
  <2>2. CASE PollGeneration(c)
    BY <1>1, <2>2 DEF PollGeneration
  <2>3. CASE GiveUp(c) \/ ReportDeadline(c)
    <3>1. PICK at \in {"waiting", "expiring"} : call' = [call EXCEPT ![c].at = at] /\ writer' = writer
      BY <2>3 DEF GiveUp, ReportDeadline
    <3> DEFINE moved == [call[c] EXCEPT !.at = at]
    <3>2. moved \in Call /\ moved.operation = call[c].operation
      BY <1>3, <3>1 DEF Call, CallAt
    <3>3. call' = [call EXCEPT ![c] = moved]
      BY <1>1, <3>1
    <3> HIDE DEF moved
    <3> QED BY <1>1, <1>3, <3>1, <3>2, <3>3
  <2> QED BY <2>1, <2>2, <2>3
<1>6. WorkerOwnsJob' /\ WorkerCarries' /\ PreparedIsWorkers'
  BY <1>2, <1>4, WorkerUntouched
<1>7. WaitsForIssued'
  BY <1>1, <1>4, <1>5, WaitsKept
<1> QED BY <1>1, <1>2, <1>4, <1>5, <1>6, <1>7, StepInv DEF IInv, TypeOK, StateOK

\* A proposal becomes canonical or is repaired.
LEMMA ProposalInv ==
    ASSUME IInv, NEW c \in Caller, CommitDevice(c) \/ PromoteProject(c)
    PROVE  IInv'
<1>1. /\ machine \in Machine /\ core \in Intent /\ machine.next \in Nat
      /\ native.generation \in Nat
      /\ late \subseteq 1 .. machine.next /\ writer \in Caller \union {None}
  BY DEF IInv, TypeOK, StateOK, Machine
<1>2. call[c].at # "idle"
  BY DEF CommitDevice, PromoteProject
<1>3. call[c].key \in Key /\ call[c].graph \in Graph
  BY <1>2, BusyCall
<1>4. [key |-> call[c].key, graph |-> call[c].graph] \in Intent
  BY <1>3 DEF Intent
<1>5. /\ worker' = worker /\ native' = native /\ late' = late
      /\ core' \in Intent /\ writer' \in {writer, c}
  BY <1>1, <1>4 DEF CommitDevice, PromoteProject
<1>6. machine' \in Machine /\ machine'.job = machine.job /\ machine'.next = machine.next
  <2> DEFINE observed == GenerationObserved(machine, native.generation)
  <2>1. observed \in Machine /\ observed.job = machine.job /\ observed.next = machine.next
    BY <1>1, GenerationObservedType
  <2>2. machine' = machine \/ machine' = Promote(observed, call[c].key)
    BY DEF CommitDevice, PromoteProject
  <2> HIDE DEF observed
  <2> QED BY <1>1, <1>3, <2>1, <2>2, PromoteType
<1>7. \/ \E purpose \in AllPurposes, next \in Intent : ToSubmit(c, purpose, next)
      \/ call' = [call EXCEPT ![c] = Idle]
  <2>1. {"edit", "resync", "restore"} \subseteq AllPurposes
    BY DEF AllPurposes
  <2>2. \/ ToSubmit(c, "edit", core') \/ ToSubmit(c, "resync", core) \/ ToSubmit(c, "restore", core)
        \/ call' = [call EXCEPT ![c] = Idle]
    BY Zenon DEF CommitDevice, PromoteProject
  <2> QED BY <1>1, <1>5, <2>1, <2>2 DEF ToSubmit
<1>8. /\ call' \in [Caller -> Call \union {Idle}]
      /\ \A d \in Caller : call'[d].at \in {"waiting", "expiring"} => call'[d] = call[d]
  <2>1. CASE \E purpose \in AllPurposes, next \in Intent : ToSubmit(c, purpose, next)
    BY <2>1, ToSubmitType
  <2>2. CASE call' = [call EXCEPT ![c] = Idle]
    BY <2>2 DEF IInv, TypeOK, StateOK, Idle
  <2> QED BY <1>7, <2>1, <2>2
<1>9. WorkerOwnsJob' /\ WorkerCarries' /\ PreparedIsWorkers'
  BY <1>5, <1>6, WorkerUntouched DEF KeepsJob
<1>10. WaitsForIssued'
  BY <1>1, <1>6, <1>8, WaitsKept
<1> QED BY <1>1, <1>5, <1>6, <1>8, <1>9, <1>10, StepInv DEF IInv, TypeOK, StateOK

\* What a step of the worker does not touch, and what then remains to show.
LEMMA WorkerStepInv ==
    ASSUME IInv, machine' \in Machine, machine'.next = machine.next,
           worker' \in [at : WorkerAt, request : Request \union {None},
                        result : Result \union {"retryable", None}],
           native' \in [generation : Nat, prepared : Graph \union {None},
                        committed : Graph \union {None}, abandoned : {None, "commit"} \union Graph],
           UNCHANGED <<late, core, writer, call>>,
           WorkerOwnsJob' /\ WorkerCarries' /\ PreparedIsWorkers'
    PROVE  IInv'
<1>1. machine.next \in Nat
  BY DEF IInv, TypeOK, StateOK, Machine
<1>2. WaitsForIssued'
  BY <1>1, WaitsKept
<1> QED BY <1>1, <1>2, StepInv DEF IInv, TypeOK, StateOK

\* The worker takes the machine's job.
LEMMA TakeWorkInv ==
    ASSUME IInv, TakeWork PROVE IInv'
<1>1. machine \in Machine
  BY DEF IInv, TypeOK, StateOK
<1>2. worker \in [at : WorkerAt, request : Request \union {None},
                  result : Result \union {"retryable", None}]
  BY DEF IInv, TypeOK, StateOK
<1>3. UNCHANGED <<machine, late, native, core, writer, call>>
  BY DEF TakeWork
<1>4. CASE worker' = [worker EXCEPT !.at = "exited", !.request = None]
  <2>1. worker' \in [at : WorkerAt, request : Request \union {None},
                     result : Result \union {"retryable", None}]
    BY <1>2, <1>4 DEF WorkerAt
  <2>2. worker'.at = "exited"
    BY <1>2, <1>4
  <2>3. WorkerOwnsJob' /\ WorkerCarries' /\ PreparedIsWorkers'
    BY <2>2 DEF WorkerOwnsJob, WorkerCarries, PreparedIsWorkers
  <2> QED BY <1>1, <1>3, <2>1, <2>3, WorkerStepInv DEF IInv, TypeOK, StateOK
<1>5. CASE HasWork(machine) /\ worker' = [worker EXCEPT !.at = "prepare", !.request = machine.job.request]
  <2>1. machine.job # None /\ machine.job.phase = "preparing" /\ machine.job.request \in Request
    BY <1>1, <1>5 DEF HasWork, Machine, Job
  <2>2. worker' \in [at : WorkerAt, request : Request \union {None},
                     result : Result \union {"retryable", None}]
    BY <1>2, <1>5, <2>1 DEF WorkerAt
  <2>3. worker'.at = "prepare" /\ worker'.request = machine.job.request
    BY <1>2, <1>5
  <2>4. WorkerOwnsJob' /\ WorkerCarries' /\ PreparedIsWorkers'
    BY <1>3, <2>1, <2>3 DEF WorkerOwnsJob, WorkerCarries, PreparedIsWorkers
  <2> QED BY <1>1, <1>3, <2>2, <2>4, WorkerStepInv DEF IInv, TypeOK, StateOK
<1> QED BY <1>4, <1>5 DEF TakeWork

\* A native preparation: success leaves the worker's graph prepared and nothing
\* running.
LEMMA PrepareSnapshotInv ==
    ASSUME IInv, PrepareSnapshot PROVE IInv'
<1>1. /\ machine \in Machine
      /\ worker \in [at : WorkerAt, request : Request \union {None},
                     result : Result \union {"retryable", None}]
      /\ native \in [generation : Nat, prepared : Graph \union {None},
                     committed : Graph \union {None}, abandoned : {None, "commit"} \union Graph]
  BY DEF IInv, TypeOK, StateOK
<1>2. worker.at = "prepare" /\ worker.request \in Request /\ worker.request.graph \in Graph
  BY DEF PrepareSnapshot, IInv, WorkerCarries, Request
<1>3. PICK at \in {"rest", "prepared"}, result \in {"ok", "timeout", "retryable", "failed"} :
        worker' = [worker EXCEPT !.at = at, !.result = result]
  BY DEF PrepareSnapshot, WorkerTo
<1>4. /\ worker'.at = at /\ worker'.result = result /\ worker'.request = worker.request
      /\ worker' \in [at : WorkerAt, request : Request \union {None},
                      result : Result \union {"retryable", None}]
  BY <1>1, <1>3 DEF WorkerAt, Result, Error
<1>5. UNCHANGED <<machine, late, core, writer, call>>
  BY DEF PrepareSnapshot
<1>6. native' \in [generation : Nat, prepared : Graph \union {None},
                   committed : Graph \union {None}, abandoned : {None, "commit"} \union Graph]
  BY <1>1, <1>2 DEF PrepareSnapshot
<1>7. worker'.result = "ok" => native'.abandoned = None /\ native'.prepared = worker.request.graph
  BY <1>1, <1>4 DEF PrepareSnapshot, WorkerTo
<1>8. WorkerOwnsJob' /\ WorkerCarries'
  BY <1>2, <1>4, <1>5 DEF IInv, WorkerOwnsJob, WorkerCarries, Result, Error
<1>9. PreparedIsWorkers'
  BY <1>4, <1>7 DEF PreparedIsWorkers
<1> QED BY <1>1, <1>4, <1>5, <1>6, <1>8, <1>9, WorkerStepInv

\* The wait for a busy timeline ends in another attempt or in a timeout.
LEMMA WaitForIdleInv ==
    ASSUME IInv, WaitForIdle PROVE IInv'
<1>1. /\ machine \in Machine
      /\ worker \in [at : WorkerAt, request : Request \union {None},
                     result : Result \union {"retryable", None}]
  BY DEF IInv, TypeOK, StateOK
<1>2. worker.at = "rest" /\ UNCHANGED <<late, native, core, writer, call>>
  BY DEF WaitForIdle
<1>3. CASE WorkerTo("prepared", "retryable") /\ machine' = machine
  <2>1. /\ worker'.at = "prepared" /\ worker'.result = "retryable"
        /\ worker'.request = worker.request
        /\ worker' \in [at : WorkerAt, request : Request \union {None},
                        result : Result \union {"retryable", None}]
    BY <1>1, <1>3 DEF WorkerTo, WorkerAt
  <2>2. WorkerOwnsJob' /\ WorkerCarries' /\ PreparedIsWorkers'
    BY <1>2, <1>3, <2>1 DEF IInv, WorkerOwnsJob, WorkerCarries, PreparedIsWorkers
  <2> QED BY <1>1, <1>2, <1>3, <2>1, <2>2, WorkerStepInv DEF IInv, TypeOK, StateOK
<1>4. CASE /\ \E result \in {"timeout", "failed"} :
                machine' = Prepared(machine, worker.request.operation, result, late)
           /\ worker' = [worker EXCEPT !.at = "idle", !.request = None, !.result = None]
  <2>1. {"timeout", "failed"} \subseteq Result \union {"retryable"}
    BY DEF Result, Error
  <2>2. machine' \in Machine /\ machine'.next = machine.next
    BY <1>1, <1>4, <2>1, PreparedType
  <2>3. /\ worker'.at = "idle"
        /\ worker' \in [at : WorkerAt, request : Request \union {None},
                        result : Result \union {"retryable", None}]
    BY <1>1, <1>4 DEF WorkerAt
  <2>4. WorkerOwnsJob' /\ WorkerCarries' /\ PreparedIsWorkers'
    BY <2>3 DEF WorkerOwnsJob, WorkerCarries, PreparedIsWorkers
  <2> QED BY <1>2, <2>2, <2>3, <2>4, WorkerStepInv DEF IInv, TypeOK, StateOK
<1> QED BY <1>3, <1>4 DEF WaitForIdle

\* Observing the generation between a native result and its report.
LEMMA ObserveBeforeReportInv ==
    ASSUME IInv, ObserveBeforeReport PROVE IInv'
<1>1. /\ machine \in Machine /\ native.generation \in Nat
      /\ worker \in [at : WorkerAt, request : Request \union {None},
                     result : Result \union {"retryable", None}]
  BY DEF IInv, TypeOK, StateOK
<1>2. machine' \in Machine /\ machine'.job = machine.job /\ machine'.next = machine.next
  BY <1>1, GenerationObservedType DEF ObserveBeforeReport
<1>3. UNCHANGED <<late, native, core, writer, call>>
  BY DEF ObserveBeforeReport
<1>4. /\ \/ worker.at = "prepared" /\ worker'.at = "decide"
         \/ worker.at = "committed" /\ worker'.at = "conclude"
      /\ worker'.request = worker.request /\ worker'.result = worker.result
      /\ worker' \in [at : WorkerAt, request : Request \union {None},
                      result : Result \union {"retryable", None}]
  BY <1>1 DEF ObserveBeforeReport, WorkerTo, WorkerAt
<1>5. WorkerOwnsJob' /\ WorkerCarries' /\ PreparedIsWorkers'
  BY <1>2, <1>3, <1>4 DEF IInv, WorkerOwnsJob, WorkerCarries, PreparedIsWorkers
<1> QED BY <1>2, <1>3, <1>4, <1>5, WorkerStepInv DEF IInv, TypeOK, StateOK

\* A prepared graph goes on to its commit only as the machine's job.
LEMMA ReportPreparedInv ==
    ASSUME IInv, ReportPrepared PROVE IInv'
<1> DEFINE effect == PreparedEffect(machine, worker.request.operation, worker.result, late)
<1>1. /\ machine \in Machine
      /\ worker \in [at : WorkerAt, request : Request \union {None},
                     result : Result \union {"retryable", None}]
  BY DEF IInv, TypeOK, StateOK
<1>2. worker.at = "decide" /\ worker.result \in Result \union {"retryable"}
  BY DEF ReportPrepared, IInv, WorkerCarries
<1>3. /\ machine' = Prepared(machine, worker.request.operation, worker.result, late)
      /\ IF effect = "none"
         THEN worker' = [worker EXCEPT !.at = "idle", !.request = None, !.result = None]
         ELSE worker' = [worker EXCEPT !.at = effect, !.result = None]
      /\ UNCHANGED <<late, native, core, writer, call>>
  BY DEF ReportPrepared, WorkerTo
<1>4. /\ machine' \in Machine /\ machine'.next = machine.next
      /\ effect \in {"none", "commit", "discard"}
      /\ effect = "commit" =>
           /\ worker.result = "ok"
           /\ machine'.job # None
           /\ machine'.job.request = machine.job.request
           /\ machine'.job.phase = "committing"
  BY <1>1, <1>2, <1>3, PreparedType
<1>5. machine.job.request.operation = worker.request.operation
      /\ machine.job.request.graph = worker.request.graph /\ worker.request \in Request
  BY <1>2 DEF IInv, WorkerOwnsJob, WorkerCarries
<1> HIDE DEF effect
<1>6. worker' \in [at : WorkerAt, request : Request \union {None},
                   result : Result \union {"retryable", None}]
  BY <1>1, <1>3, <1>4 DEF WorkerAt
<1>7. /\ effect = "none" => worker'.at = "idle"
      /\ effect # "none" => worker'.at = effect /\ worker'.request = worker.request
  BY <1>1, <1>3
<1>8. WorkerOwnsJob' /\ WorkerCarries'
  BY <1>4, <1>5, <1>7 DEF WorkerOwnsJob, WorkerCarries
<1>9. PreparedIsWorkers'
  BY <1>2, <1>3, <1>4, <1>7 DEF IInv, PreparedIsWorkers
<1> QED BY <1>3, <1>4, <1>6, <1>8, <1>9, WorkerStepInv DEF IInv, TypeOK, StateOK

\* A native commit.
LEMMA CommitSnapshotInv ==
    ASSUME IInv, CommitSnapshot PROVE IInv'
<1>1. /\ machine \in Machine
      /\ worker \in [at : WorkerAt, request : Request \union {None},
                     result : Result \union {"retryable", None}]
      /\ native \in [generation : Nat, prepared : Graph \union {None},
                     committed : Graph \union {None}, abandoned : {None, "commit"} \union Graph]
  BY DEF IInv, TypeOK, StateOK
<1>2. worker.at = "commit" /\ UNCHANGED <<machine, late, core, writer, call>>
  BY DEF CommitSnapshot
<1>3. PICK result \in {"ok", "timeout", "retryable", "failed"} :
        worker' = [worker EXCEPT !.at = "committed", !.result = result]
  BY DEF CommitSnapshot, WorkerTo
<1>4. /\ worker'.at = "committed" /\ worker'.result = result /\ worker'.request = worker.request
      /\ worker' \in [at : WorkerAt, request : Request \union {None},
                      result : Result \union {"retryable", None}]
  BY <1>1, <1>3 DEF WorkerAt, Result, Error
<1>5. native' \in [generation : Nat, prepared : Graph \union {None},
                   committed : Graph \union {None}, abandoned : {None, "commit"} \union Graph]
  BY <1>1 DEF CommitSnapshot
<1>6. WorkerOwnsJob' /\ WorkerCarries' /\ PreparedIsWorkers'
  BY <1>2, <1>4 DEF IInv, WorkerOwnsJob, WorkerCarries, PreparedIsWorkers, Result, Error
<1> QED BY <1>1, <1>2, <1>4, <1>5, <1>6, WorkerStepInv

\* After the report of a commit the worker is free, or discards.
LEMMA ReportCommittedInv ==
    ASSUME IInv, ReportCommitted PROVE IInv'
<1>1. /\ machine \in Machine
      /\ worker \in [at : WorkerAt, request : Request \union {None},
                     result : Result \union {"retryable", None}]
  BY DEF IInv, TypeOK, StateOK
<1>2. /\ worker.result \in Result \union {"retryable"} /\ worker.request \in Request
      /\ UNCHANGED <<late, native, core, writer, call>>
  BY DEF ReportCommitted, IInv, WorkerCarries
<1>3. machine' \in Machine /\ machine'.next = machine.next
  BY <1>1, <1>2, CommittedType DEF ReportCommitted
<1>4. \/ worker' = [worker EXCEPT !.at = "discard", !.result = None]
      \/ worker' = [worker EXCEPT !.at = "idle", !.request = None, !.result = None]
  BY DEF ReportCommitted, WorkerTo
<1>5. /\ worker'.at \in {"idle", "discard"}
      /\ worker'.at = "discard" => worker'.request = worker.request
      /\ worker' \in [at : WorkerAt, request : Request \union {None},
                      result : Result \union {"retryable", None}]
  BY <1>1, <1>4 DEF WorkerAt
<1>6. WorkerOwnsJob' /\ WorkerCarries' /\ PreparedIsWorkers'
  BY <1>2, <1>5 DEF WorkerOwnsJob, WorkerCarries, PreparedIsWorkers
<1> QED BY <1>2, <1>3, <1>5, <1>6, WorkerStepInv DEF IInv, TypeOK, StateOK

\* A discard.
LEMMA DiscardSnapshotInv ==
    ASSUME IInv, DiscardSnapshot PROVE IInv'
<1>1. /\ machine \in Machine
      /\ worker \in [at : WorkerAt, request : Request \union {None},
                     result : Result \union {"retryable", None}]
      /\ native \in [generation : Nat, prepared : Graph \union {None},
                     committed : Graph \union {None}, abandoned : {None, "commit"} \union Graph]
  BY DEF IInv, TypeOK, StateOK
<1>2. UNCHANGED <<machine, late, core, writer, call>>
  BY DEF DiscardSnapshot
<1>3. /\ worker'.at = "idle"
      /\ worker' \in [at : WorkerAt, request : Request \union {None},
                      result : Result \union {"retryable", None}]
  BY <1>1 DEF DiscardSnapshot, WorkerAt
<1>4. native' \in [generation : Nat, prepared : Graph \union {None},
                   committed : Graph \union {None}, abandoned : {None, "commit"} \union Graph]
  BY <1>1 DEF DiscardSnapshot
<1>5. WorkerOwnsJob' /\ WorkerCarries' /\ PreparedIsWorkers'
  BY <1>3 DEF WorkerOwnsJob, WorkerCarries, PreparedIsWorkers
<1> QED BY <1>1, <1>2, <1>3, <1>4, <1>5, WorkerStepInv

\* The sidecar, the clock, the rest of the Host and shutdown.
LEMMA EnvironmentInv ==
    ASSUME IInv,
           Expire \/ FinishAbandoned \/ RestartSidecar \/ QueryStatus \/ ReportTransportFailure \/ Shutdown
    PROVE  IInv'
<1>1. /\ machine \in Machine /\ machine.next \in Nat /\ late \subseteq 1 .. machine.next
      /\ native \in [generation : Nat, prepared : Graph \union {None},
                     committed : Graph \union {None}, abandoned : {None, "commit"} \union Graph]
  BY DEF IInv, TypeOK, StateOK, Machine
<1>2. UNCHANGED <<worker, core, writer, call>>
  BY DEF Expire, FinishAbandoned, RestartSidecar, QueryStatus, ReportTransportFailure, Shutdown
<1>3. machine' \in Machine /\ machine'.job = machine.job /\ machine'.next = machine.next
  BY <1>1, GenerationObservedType, MarkFailedType, StoppedType
     DEF Expire, FinishAbandoned, RestartSidecar, QueryStatus, ReportTransportFailure, Shutdown
<1>4. late' \subseteq 1 .. machine.next
  BY <1>1 DEF Expire, FinishAbandoned, RestartSidecar, QueryStatus, ReportTransportFailure, Shutdown,
              IInv, WaitsForIssued
<1>5. native' \in [generation : Nat, prepared : Graph \union {None},
                   committed : Graph \union {None}, abandoned : {None, "commit"} \union Graph]
  <2>1. CASE FinishAbandoned
    BY <1>1, <2>1 DEF FinishAbandoned
  <2>2. CASE RestartSidecar
    BY <1>1, <2>2 DEF RestartSidecar
  <2>3. CASE native' = native
    BY <1>1, <2>3
  <2> QED BY <2>1, <2>2, <2>3 DEF Expire, QueryStatus, ReportTransportFailure, Shutdown
<1>6. PreparedIsWorkers'
  <2>1. CASE FinishAbandoned
    BY <1>2, <2>1 DEF FinishAbandoned, IInv, PreparedIsWorkers
  <2>2. CASE RestartSidecar
    BY <1>2, <2>2 DEF RestartSidecar, IInv, PreparedIsWorkers
  <2>3. CASE native' = native
    BY <1>2, <2>3 DEF IInv, PreparedIsWorkers
  <2> QED BY <2>1, <2>2, <2>3 DEF Expire, QueryStatus, ReportTransportFailure, Shutdown
<1>7. WorkerOwnsJob' /\ WorkerCarries'
  BY <1>2, <1>3 DEF IInv, WorkerOwnsJob, WorkerCarries
<1>8. WaitsForIssued'
  BY <1>1, <1>2, <1>3, WaitsKept
<1> QED BY <1>1, <1>2, <1>3, <1>4, <1>5, <1>6, <1>7, <1>8, StepInv DEF IInv, TypeOK, StateOK

\* A step that changes nothing.
LEMMA StutterInv ==
    ASSUME IInv, UNCHANGED vars PROVE IInv'
BY DEF vars, IInv, TypeOK, StateOK, WorkerOwnsJob, WorkerCarries, WaitsForIssued, PreparedIsWorkers

-----------------------------------------------------------------------------
(* The theorems.                                                           *)

\* IInv is inductive, so every reachable state satisfies it.
THEOREM Invariance == Spec => []IInv
<1>1. IInv /\ [Next]_vars => IInv'
  <2> SUFFICES ASSUME IInv, [Next]_vars PROVE IInv'
    OBVIOUS
  <2>1. ASSUME NEW c \in Caller, CallerStep(c) PROVE IInv'
    BY <2>1, BeginInv, SubmitInv, WaitInv, ProposalInv DEF CallerStep
  <2>2. CASE WorkerStep
    BY <2>2, TakeWorkInv, PrepareSnapshotInv, WaitForIdleInv, ObserveBeforeReportInv,
       ReportPreparedInv, CommitSnapshotInv, ReportCommittedInv, DiscardSnapshotInv DEF WorkerStep
  <2>3. CASE Expire \/ FinishAbandoned \/ RestartSidecar \/ QueryStatus \/ ReportTransportFailure
             \/ Shutdown
    BY <2>3, EnvironmentInv
  <2>4. CASE UNCHANGED vars
    BY <2>4, StutterInv
  <2> QED BY <2>1, <2>2, <2>3, <2>4 DEF Next
<1> QED BY <1>1, InitInv, PTL DEF Spec

\* TypeOK: every reachable state of the coordinator is well formed.
THEOREM TypeCorrect == Spec => []TypeOK
BY Invariance, PTL DEF IInv

\* WorkerOwnsJob: whatever callers, deadlines, restarts and shutdown do while
\* the worker is inside the sidecar, the job it comes back to is the job it
\* took, in the phase it reached.
THEOREM WorkerOwnership == Spec => []WorkerOwnsJob
BY Invariance, PTL DEF IInv

\* CommitPublishesJob: a native commit never publishes a graph that an earlier
\* request prepared, also with calls that outlive their timeouts and restarts
\* between the two native calls.
THEOREM CommitPublication == Spec => CommitPublishesJob
<1>1. IInv /\ [Next]_vars =>
        [CommitSnapshot /\ worker'.result = "ok" =>
            machine.job # None /\ native'.committed = machine.job.request.graph]_vars
  <2> SUFFICES ASSUME IInv, CommitSnapshot, worker'.result = "ok"
               PROVE  machine.job # None /\ native'.committed = machine.job.request.graph
    OBVIOUS
  <2>1. /\ worker \in [at : WorkerAt, request : Request \union {None},
                       result : Result \union {"retryable", None}]
        /\ native \in [generation : Nat, prepared : Graph \union {None},
                       committed : Graph \union {None}, abandoned : {None, "commit"} \union Graph]
    BY DEF IInv, TypeOK, StateOK
  <2>2. native.prepared # None /\ native'.committed = native.prepared
    BY <2>1 DEF CommitSnapshot, WorkerTo
  <2>3. worker.at = "commit"
    BY DEF CommitSnapshot
  <2>4. native.prepared = worker.request.graph
    BY <2>2, <2>3 DEF IInv, PreparedIsWorkers
  <2>5. machine.job # None /\ machine.job.request.graph = worker.request.graph
    BY <2>3 DEF IInv, WorkerOwnsJob
  <2> QED BY <2>2, <2>4, <2>5
<1> QED BY <1>1, Invariance, PTL DEF Spec, CommitPublishesJob

-----------------------------------------------------------------------------
(* What plays.  The active graph of the machine is the graph the sidecar   *)
(* committed, as long as the Host gives up on no commit: it may give up on *)
(* preparations, and the sidecar may restart, at any time.                 *)

Active(m) == m.active # None /\ m.active.environment.generation = native.generation

ActivePlays == Active(machine) => native.committed = machine.active.graph

\* What the machine knows of a generation came after its start.
GenerationsPast ==
    /\ machine.environment.generation <= native.generation
    /\ machine.active # None => machine.active.environment.generation <= native.generation
    /\ machine.job # None => machine.job.environment.generation <= native.generation

\* A commit the machine has not heard of plays the worker's graph, if its
\* generation still runs.
CommitPlays ==
    worker.at \in {"committed", "conclude"} /\ worker.result = "ok" =>
        /\ machine.job # None
        /\ machine.job.environment.generation = native.generation
               => native.committed = worker.request.graph

\* The inductive invariant, beyond IInv.
LiveInv ==
    /\ GenerationsPast /\ CommitPlays
    /\ ~(worker.at \in {"committed", "conclude"} /\ worker.result = "ok") => ActivePlays

\* From m to n the active graph stays or goes, and a job stays in the
\* environment it was started in.
Stays(m, n) ==
    /\ n.environment = m.environment
    /\ n.active # None => /\ m.active # None
                          /\ n.active.graph = m.active.graph
                          /\ n.active.environment = m.active.environment
    /\ m.job # None => n.job # None /\ n.job.environment = m.job.environment
    /\ m.job = None /\ n.job # None => n.job.environment = m.environment

LEMMA StaysAgain ==
    ASSUME NEW m, NEW k, NEW n, Stays(m, k), Stays(k, n) PROVE Stays(m, n)
BY DEF Stays

LEMMA AnswersStay ==
    ASSUME NEW m \in Machine, NEW ids, NEW result
    PROVE  LET n == CompleteWaiters(m, ids, result)
           IN n.environment = m.environment /\ n.active = m.active /\ n.job = m.job /\ Stays(m, n)
<1> DEFINE n == CompleteWaiters(m, ids, result)
<1>1. n.environment = m.environment /\ n.active = m.active /\ n.job = m.job
  BY DEF CompleteWaiters, Machine
<1> HIDE DEF n
<1>2. Stays(m, n)
  BY <1>1 DEF Stays
<1> QED BY <1>1, <1>2 DEF n

LEMMA EventsStay ==
    ASSUME NEW m \in Machine
    PROVE  /\ \A id : Stays(m, RemoveWaiter(m, id))
           /\ Stays(m, MarkFailed(m))
           /\ \A key : Stays(m, Promote(m, key))
           /\ Stays(m, Stopped(m))
           /\ \A operation : Stays(m, DeadlineReached(m, operation))
<1>1. ASSUME NEW id PROVE Stays(m, RemoveWaiter(m, id))
  <2>1. /\ RemoveWaiter(m, id).environment = m.environment
        /\ RemoveWaiter(m, id).active = m.active /\ RemoveWaiter(m, id).job = m.job
    BY DEF RemoveWaiter, Machine
  <2> QED BY <2>1 DEF Stays
<1>2. Stays(m, MarkFailed(m))
  <2>1. /\ MarkFailed(m).environment = m.environment
        /\ MarkFailed(m).active = m.active /\ MarkFailed(m).job = m.job
    BY DEF MarkFailed, Machine
  <2> QED BY <2>1 DEF Stays
<1>3. ASSUME NEW key PROVE Stays(m, Promote(m, key))
  <2> DEFINE n == Promote(m, key)
  <2>1. CASE Promotable(m, key)
    <3>1. m.active \in ActiveGraph /\ m.active # None
      BY <2>1 DEF Promotable, ActiveHere, Machine
    <3>2. /\ n.environment = m.environment /\ n.job = m.job
          /\ n.active = [m.active EXCEPT !.origin = Canonical]
      BY <2>1 DEF Promote, Machine
    <3>3. n.active.graph = m.active.graph /\ n.active.environment = m.active.environment
      BY <3>1, <3>2 DEF ActiveGraph
    <3> HIDE DEF n
    <3>4. Stays(m, n)
      BY <3>1, <3>2, <3>3 DEF Stays
    <3> QED BY <3>4 DEF n
  <2>2. CASE ~Promotable(m, key)
    BY <2>2 DEF Promote, Stays
  <2> QED BY <2>1, <2>2
<1>4. Stays(m, Stopped(m))
  <2> DEFINE closed == [m EXCEPT !.stopped = TRUE, !.queued = None]
  <2>1. /\ closed \in Machine /\ closed.environment = m.environment
        /\ closed.active = m.active /\ closed.job = m.job
    BY DEF Machine
  <2>2. Stopped(m) = CompleteWaiters(closed, WaiterIds(m), "shuttingDown")
    BY DEF Stopped
  <2> HIDE DEF closed
  <2>3. Stays(m, closed)
    BY <2>1 DEF Stays
  <2> QED BY <2>1, <2>2, <2>3, AnswersStay, StaysAgain
<1>5. ASSUME NEW operation PROVE Stays(m, DeadlineReached(m, operation))
  <2> DEFINE expired == IF RunsOperation(m, operation) THEN [m EXCEPT !.job.request.timed = TRUE] ELSE m
             told == CompleteWaiters(expired, {operation}, "timeout")
             n == DeadlineReached(m, operation)
  <2>1. expired \in Machine /\ Stays(m, expired)
    <3>1. CASE RunsOperation(m, operation)
      <4> DEFINE job == [m.job EXCEPT !.request.timed = TRUE]
      <4>1. m.job \in Job /\ m.job # None
        BY <3>1 DEF RunsOperation, Machine
      <4>2. job \in Job /\ job.environment = m.job.environment
        BY <4>1 DEF Job, Request
      <4>3. expired = [m EXCEPT !.job = job]
        BY <3>1 DEF Machine
      <4> HIDE DEF job, expired
      <4>4. expired \in Machine /\ expired.environment = m.environment /\ expired.active = m.active
            /\ expired.job = job /\ job # None
        BY <4>2, <4>3, NoneAssumption DEF Machine
      <4> QED BY <4>1, <4>2, <4>4 DEF Stays
    <3>2. CASE ~RunsOperation(m, operation)
      BY <3>2 DEF Stays
    <3> QED BY <3>1, <3>2
  <2>2. n \in {[told EXCEPT !.queued = None], told}
    BY DEF DeadlineReached
  <2> HIDE DEF expired, n
  <2>3. told \in Machine /\ Stays(expired, told)
    BY <2>1, CompleteWaitersType, AnswersStay DEF Result, Error
  <2> HIDE DEF told
  <2>4. n.environment = told.environment /\ n.active = told.active /\ n.job = told.job
    BY <2>2, <2>3 DEF Machine
  <2>5. Stays(told, n)
    BY <2>4 DEF Stays
  <2>6. Stays(m, n)
    BY <2>1, <2>3, <2>5, StaysAgain
  <2> QED BY <2>6 DEF n
<1> QED BY <1>1, <1>2, <1>3, <1>4, <1>5

\* A new environment takes the active graph away, and nothing else does.
LEMMA EnvironmentLeaves ==
    ASSUME NEW m \in Machine, NEW generation \in Nat
    PROVE  /\ LET n == GenerationObserved(m, generation)
              IN n.job = m.job /\ n.active \in {m.active, None} /\ n.environment.generation = generation
           /\ LET n == AudioEnvironmentAdvanced(m)
              IN n.job = m.job /\ n.active = None /\ n.environment.generation = m.environment.generation
<1>1. ASSUME NEW k \in Machine, NEW error
      PROVE  LET n == Invalidate(k, error)
             IN n.job = k.job /\ n.active = None /\ n.environment = k.environment
  <2> DEFINE cleared == [k EXCEPT !.active = None, !.queued = None, !.error = None, !.target = None]
  <2>1. cleared \in Machine /\ cleared.job = k.job /\ cleared.active = None /\ cleared.environment = k.environment
    BY DEF Machine
  <2>2. Invalidate(k, error) = CompleteWaiters(cleared, WaiterIds(k), error)
    BY DEF Invalidate
  <2> HIDE DEF cleared
  <2> QED BY <2>1, <2>2, AnswersStay
<1>2. m.environment \in Environment
  BY DEF Machine
<1>3. ASSUME NEW e \in Environment, NEW error
      PROVE  LET n == Invalidate([m EXCEPT !.environment = e], error)
             IN n.job = m.job /\ n.active = None /\ n.environment = e
  <2> DEFINE k == [m EXCEPT !.environment = e]
  <2>1. k \in Machine /\ k.job = m.job /\ k.environment = e
    BY <1>3 DEF Machine
  <2> HIDE DEF k
  <2>2. LET n == Invalidate(k, error) IN n.job = m.job /\ n.active = None /\ n.environment = e
    BY <1>1, <2>1
  <2> QED BY <2>2 DEF k
<1>4. LET n == GenerationObserved(m, generation)
      IN n.job = m.job /\ n.active \in {m.active, None} /\ n.environment.generation = generation
  <2> DEFINE e == [generation |-> generation, revision |-> m.environment.revision + 1]
  <2>1. e \in Environment /\ e.generation = generation
    BY <1>2 DEF Environment
  <2>2. GenerationObserved(m, generation)
          = IF generation = m.environment.generation THEN m
            ELSE Invalidate([m EXCEPT !.environment = e], "generationChanged")
    BY DEF GenerationObserved
  <2> HIDE DEF e
  <2> QED BY <1>3, <2>1, <2>2
<1>5. LET n == AudioEnvironmentAdvanced(m)
      IN n.job = m.job /\ n.active = None /\ n.environment.generation = m.environment.generation
  <2> DEFINE e == [m.environment EXCEPT !.revision = @ + 1]
  <2>1. e \in Environment /\ e.generation = m.environment.generation
    BY <1>2 DEF Environment
  <2>2. AudioEnvironmentAdvanced(m) = Invalidate([m EXCEPT !.environment = e], "cancelled")
    BY DEF AudioEnvironmentAdvanced, Machine
  <2> HIDE DEF e
  <2> QED BY <1>3, <2>1, <2>2
<1> QED BY <1>4, <1>5

\* What a report leaves: the next job belongs to the present environment, and
\* the active graph changes with a commit alone.
LEMMA StartQueuedLeaves ==
    ASSUME NEW m \in Machine
    PROVE  LET n == StartQueued(m)
           IN /\ n.environment = m.environment /\ n.active = m.active
              /\ n.job # None => n.job.environment = m.environment
<1> DEFINE n == StartQueued(m)
<1>1. CASE ~m.stopped /\ m.queued # None
  <2> DEFINE job == [request |-> m.queued, phase |-> "preparing", environment |-> m.environment]
  <2>1. n = [m EXCEPT !.queued = None, !.job = job]
    BY <1>1 DEF StartQueued, Start, Machine
  <2>2. job.environment = m.environment
    OBVIOUS
  <2> HIDE DEF job
  <2>3. n.environment = m.environment /\ n.active = m.active /\ n.job = job
    BY <2>1 DEF Machine
  <2> QED BY <2>2, <2>3
<1>2. CASE ~(~m.stopped /\ m.queued # None)
  BY <1>2 DEF StartQueued, Machine
<1> QED BY <1>1, <1>2

LEMMA FinishLeaves ==
    ASSUME NEW m \in Machine, m.job # None
    PROVE  /\ \A error \in Error : LET n == FinishError(m, error)
              IN /\ n.environment = m.environment /\ n.active = m.active
                 /\ n.job # None => n.job.environment = m.environment
           /\ \A n \in {FinishOk(m), FinishError(InstallCommitted(m), "superseded")} :
                 /\ n.environment = m.environment /\ n.active # None
                 /\ n.active.graph = m.job.request.graph
                 /\ n.active.environment = m.job.environment
                 /\ n.job # None => n.job.environment = m.environment
<1> DEFINE installed == InstallCommitted(m)
<1>1. ASSUME NEW k \in Machine, NEW operation, NEW result \in Result
      PROVE  LET n == StartQueued(CompleteOperation(k, operation, result))
             IN /\ n.environment = k.environment /\ n.active = k.active
                /\ n.job # None => n.job.environment = k.environment
  <2> DEFINE told == CompleteOperation(k, operation, result)
  <2>1. told \in Machine
    BY CompleteOperationType
  <2>2. \E ids : told = CompleteWaiters(k, ids, result)
    BY DEF CompleteOperation
  <2> HIDE DEF told
  <2>3. told.environment = k.environment /\ told.active = k.active
    BY <2>2, AnswersStay
  <2>4. LET n == StartQueued(told)
        IN /\ n.environment = k.environment /\ n.active = k.active
           /\ n.job # None => n.job.environment = k.environment
    BY <2>1, <2>3, StartQueuedLeaves
  <2> QED BY <2>4 DEF told
<1>2. ASSUME NEW k \in Machine, NEW error \in Error
      PROVE  LET n == FinishError(k, error)
             IN /\ n.environment = k.environment /\ n.active = k.active
                /\ n.job # None => n.job.environment = k.environment
  <2> DEFINE recorded == IF /\ \/ k.job.request.origin = Canonical
                               \/ IsIntended(k, k.job.request.graph)
                            /\ k.queued = None
                            /\ k.job.environment = k.environment
                            /\ error # "superseded"
                         THEN [k EXCEPT !.error = error] ELSE k
  <2>1. recorded \in Machine /\ recorded.environment = k.environment /\ recorded.active = k.active
    BY DEF Machine
  <2>2. FinishError(k, error) = StartQueued(CompleteOperation(recorded, k.job.request.operation, error))
    BY DEF FinishError
  <2>3. error \in Result
    BY DEF Result
  <2> HIDE DEF recorded
  <2> QED BY <1>1, <2>1, <2>2, <2>3
<1>3. /\ installed \in Machine /\ installed.environment = m.environment /\ installed.active # None
      /\ installed.active.graph = m.job.request.graph /\ installed.active.environment = m.job.environment
  <2>1. installed.environment = m.environment
        /\ installed.active.graph = m.job.request.graph /\ installed.active.environment = m.job.environment
    BY DEF InstallCommitted, Machine
  <2> QED BY <2>1, InstallCommittedType
<1>4. LET n == FinishOk(m)
      IN /\ n.environment = m.environment /\ n.active = installed.active
         /\ n.job # None => n.job.environment = m.environment
  <2> DEFINE recorded == IF installed.active.origin = Canonical THEN [installed EXCEPT !.error = None] ELSE installed
  <2>1. FinishOk(m) = StartQueued(CompleteOperation(recorded, m.job.request.operation, "ok"))
    BY DEF FinishOk
  <2> HIDE DEF installed
  <2>2. recorded \in Machine /\ recorded.environment = m.environment /\ recorded.active = installed.active
    BY <1>3 DEF Machine
  <2>3. "ok" \in Result
    BY DEF Result
  <2> HIDE DEF recorded
  <2> QED BY <1>1, <2>1, <2>2, <2>3
<1>5. LET n == FinishError(installed, "superseded")
      IN /\ n.environment = m.environment /\ n.active = installed.active
         /\ n.job # None => n.job.environment = m.environment
  <2> HIDE DEF installed
  <2>1. "superseded" \in Error
    BY DEF Error
  <2> QED BY <1>2, <1>3, <2>1
<1>6. \A error \in Error : LET n == FinishError(m, error)
        IN /\ n.environment = m.environment /\ n.active = m.active
           /\ n.job # None => n.job.environment = m.environment
  BY <1>2
<1> QED BY <1>3, <1>4, <1>5, <1>6

LEMMA ReportsLeave ==
    ASSUME NEW m \in Machine, NEW operation, NEW result \in Result \union {"retryable"}, NEW passed
    PROVE  /\ LET n == Prepared(m, operation, result, passed)
              IN /\ n.environment = m.environment /\ n.active = m.active
                 /\ n.job # None => \/ n.job.environment = m.environment
                                    \/ m.job # None /\ n.job.environment = m.job.environment
           /\ LET n == Committed(m, operation, result, passed)
              IN /\ n.environment = m.environment
                 /\ IF RunsOperation(m, operation) /\ result = "ok"
                    THEN /\ n.active # None
                         /\ n.active.graph = m.job.request.graph
                         /\ n.active.environment = m.job.environment
                    ELSE n.active = m.active
                 /\ n.job # None => \/ n.job.environment = m.environment
                                    \/ m.job # None /\ n.job.environment = m.job.environment
<1>1. CASE ~RunsOperation(m, operation)
  BY <1>1 DEF Prepared, Committed
<1>2. CASE RunsOperation(m, operation)
  <2>1. m.job # None
    BY <1>2 DEF RunsOperation
  <2>2. ASSUME NEW phase \in {"preparing", "committing"}
        PROVE  LET n == [m EXCEPT !.job.phase = phase]
               IN n.environment = m.environment /\ n.active = m.active /\ n.job.environment = m.job.environment
    <3> DEFINE job == [m.job EXCEPT !.phase = phase]
               n == [m EXCEPT !.job.phase = phase]
    <3>1. m.job \in Job
      BY <2>1 DEF Machine
    <3>2. job.environment = m.job.environment
      BY <3>1 DEF Job
    <3>3. n = [m EXCEPT !.job = job]
      BY DEF Machine
    <3> HIDE DEF n, job
    <3>4. n.environment = m.environment /\ n.active = m.active /\ n.job.environment = m.job.environment
      BY <3>2, <3>3 DEF Machine
    <3> QED BY <3>4 DEF n
  <2>3. {"superseded", "failed"} \subseteq Error /\ (result \notin {"ok", "retryable"} => result \in Error)
    BY DEF Result, Error
  <2>4. Prepared(m, operation, result, passed)
          \in {m, [m EXCEPT !.job.phase = "committing"]} \union {FinishError(m, error) : error \in Error}
    BY <1>2, <2>3 DEF Prepared
  <2>5. Committed(m, operation, result, passed)
          \in IF result = "ok" THEN {FinishOk(m), FinishError(InstallCommitted(m), "superseded")}
              ELSE {[m EXCEPT !.job.phase = "preparing"]} \union {FinishError(m, error) : error \in Error}
    BY <1>2, <2>3 DEF Committed
  <2>6. \A error \in Error : LET n == FinishError(m, error)
          IN /\ n.environment = m.environment /\ n.active = m.active
             /\ n.job # None => n.job.environment = m.environment
    BY <2>1, FinishLeaves
  <2>7. \A n \in {FinishOk(m), FinishError(InstallCommitted(m), "superseded")} :
                 /\ n.environment = m.environment /\ n.active # None
                 /\ n.active.graph = m.job.request.graph
                 /\ n.active.environment = m.job.environment
                 /\ n.job # None => n.job.environment = m.environment
    BY <2>1, FinishLeaves
  <2>8. LET n == Prepared(m, operation, result, passed)
        IN /\ n.environment = m.environment /\ n.active = m.active
           /\ n.job # None => \/ n.job.environment = m.environment
                              \/ m.job # None /\ n.job.environment = m.job.environment
    BY <2>1, <2>2, <2>4, <2>6
  <2>9. LET n == Committed(m, operation, result, passed)
        IN /\ n.environment = m.environment
           /\ IF result = "ok"
              THEN /\ n.active # None
                   /\ n.active.graph = m.job.request.graph
                   /\ n.active.environment = m.job.environment
              ELSE n.active = m.active
           /\ n.job # None => \/ n.job.environment = m.environment
                              \/ m.job # None /\ n.job.environment = m.job.environment
    <3>1. CASE result = "ok"
      BY <2>5, <2>7, <3>1
    <3>2. CASE result # "ok"
      BY <2>1, <2>2, <2>5, <2>6, <3>2
    <3> QED BY <3>1, <3>2
  <2> QED BY <1>2, <2>8, <2>9
<1> QED BY <1>1, <1>2

\* A submission starts a job only where none runs.
LEMMA SubmitStays ==
    ASSUME NEW m \in Machine, NEW key \in Key, NEW graph \in Graph, NEW timed \in BOOLEAN,
           NEW canonical \in BOOLEAN
    PROVE  Stays(m, Submit(m, key, graph, timed, canonical))
<1> DEFINE operation == m.next + 1
           outcome == SubmitOutcome(m, key, graph, canonical)
           waiter == [id |-> operation, operation |-> operation, key |-> key, result |-> None]
           waiting == [m EXCEPT !.next = operation, !.waiters = m.waiters \union {waiter}]
           intended == IF canonical
                       THEN [waiting EXCEPT !.canonical = [key |-> key, graph |-> graph],
                                            !.error = None,
                                            !.operation = operation,
                                            !.target = key]
                       ELSE waiting
           request == [operation |-> operation, key |-> key, graph |-> graph,
                       origin |-> IF canonical THEN Canonical ELSE operation,
                       timed |-> timed]
           base == SupersedeQueuedCanonical(intended)
           submitted == Submit(m, key, graph, timed, canonical)
<1>1. operation \in Nat \ {0} /\ waiter \in Waiter
  BY DEF Machine, Waiter
<1>2. /\ waiting \in Machine /\ waiting.environment = m.environment
      /\ waiting.active = m.active /\ waiting.job = m.job
  <2>1. m.waiters \union {waiter} \in SUBSET Waiter
    BY <1>1 DEF Machine
  <2> HIDE DEF operation, waiter
  <2> QED BY <1>1, <2>1 DEF Machine
<1>3. /\ intended \in Machine /\ intended.environment = m.environment
      /\ intended.active = m.active /\ intended.job = m.job
  <2> DEFINE intent == [key |-> key, graph |-> graph]
             canonized == [waiting EXCEPT !.canonical = intent, !.error = None,
                                          !.operation = operation, !.target = key]
  <2>1. intent \in Intent
    BY DEF Intent
  <2> HIDE DEF operation, waiting, waiter, intent
  <2>2. canonized \in Machine
    BY <1>1, <1>2, <2>1 DEF Machine
  <2>3. /\ canonized.environment = m.environment
        /\ canonized.active = m.active /\ canonized.job = m.job
    BY <1>2 DEF Machine
  <2>4. intended \in {canonized, waiting}
    BY DEF intent
  <2> HIDE DEF canonized, intended
  <2> QED BY <1>2, <2>2, <2>3, <2>4
<1>4. request \in Request
  BY <1>1 DEF Request, Origin, Canonical
<1>5. submitted = CASE outcome \in {"shuttingDown", "superseded"} ->
                         CompleteWaiters(waiting, {operation}, outcome)
                    [] outcome = "adopted" ->
                         CompleteWaiters([base EXCEPT !.active.key = key, !.active.origin = Canonical],
                                         {operation}, "ok")
                    [] outcome = "joinsJob" -> Alias(base, operation, m.job.request.operation)
                    [] outcome = "joinsQueued" ->
                         [Alias(intended, operation, m.queued.operation) EXCEPT
                              !.queued.key = key, !.queued.origin = Canonical]
                    [] OTHER -> Enqueue(intended, request)
  BY DEF Submit
<1>6. outcome = "adopted" => m.active # None
  BY DEF SubmitOutcome, CanonicalOutcome, ActiveHere, Machine
<1> SUFFICES Stays(m, submitted)
  OBVIOUS
<1> HIDE DEF operation, outcome, waiter, waiting, intended, request, submitted
<1>7. Stays(m, waiting) /\ Stays(m, intended)
  BY <1>2, <1>3 DEF Stays
<1>8. base \in Machine /\ base.environment = m.environment /\ base.active = m.active /\ base.job = m.job
  <2> DEFINE dropped == [intended EXCEPT !.queued = None]
  <2>1. /\ dropped \in Machine /\ dropped.environment = m.environment
        /\ dropped.active = m.active /\ dropped.job = m.job
    BY <1>3 DEF Machine
  <2> HIDE DEF dropped
  <2>2. base = intended \/ \E ids : base = CompleteWaiters(dropped, ids, "superseded")
    BY DEF SupersedeQueuedCanonical, CompleteOperation, dropped
  <2>3. base \in Machine
    BY <1>3, SupersedeQueuedCanonicalType
  <2> HIDE DEF base
  <2> QED BY <1>3, <2>1, <2>2, <2>3, AnswersStay
<1> HIDE DEF base
<1>9. Stays(m, base)
  BY <1>8 DEF Stays
<1>10. CASE outcome \in {"shuttingDown", "superseded"}
  <2>1. submitted = CompleteWaiters(waiting, {operation}, outcome)
    BY <1>5, <1>10
  <2> QED BY <1>2, <1>7, <2>1, AnswersStay, StaysAgain
<1>11. CASE outcome = "adopted"
  <2> DEFINE active == [base.active EXCEPT !.key = key, !.origin = Canonical]
             adopted == [base EXCEPT !.active = active]
  <2>1. base.active \in ActiveGraph /\ base.active # None
    BY <1>6, <1>8, <1>11 DEF Machine
  <2>2. [base EXCEPT !.active.key = key, !.active.origin = Canonical] = adopted
    BY <1>8, <2>1 DEF Machine, ActiveGraph
  <2>3. /\ active \in ActiveGraph
        /\ active.graph = base.active.graph /\ active.environment = base.active.environment
    BY <2>1 DEF ActiveGraph, Origin, Canonical
  <2> HIDE DEF active
  <2>4. /\ adopted \in Machine /\ adopted.environment = base.environment
        /\ adopted.active = active /\ adopted.job = base.job
    BY <1>8, <2>3 DEF Machine
  <2>5. submitted = CompleteWaiters([base EXCEPT !.active.key = key, !.active.origin = Canonical],
                                    {operation}, "ok")
    BY <1>5, <1>11
  <2>6. submitted = CompleteWaiters(adopted, {operation}, "ok")
    BY <2>2, <2>5, Zenon
  <2> HIDE DEF adopted
  <2>7. Stays(base, adopted)
    BY <2>1, <2>3, <2>4 DEF Stays
  <2>8. Stays(adopted, submitted)
    BY <2>4, <2>6, AnswersStay
  <2> QED BY <1>9, <2>7, <2>8, StaysAgain
<1>12. CASE outcome \in {"joinsJob", "joinsQueued"}
  <2>1. ASSUME NEW k \in Machine, NEW id, NEW joined
        PROVE  LET n == Alias(k, id, joined)
               IN n.environment = k.environment /\ n.active = k.active /\ n.job = k.job
    BY DEF Alias, Machine
  <2>2. CASE outcome = "joinsJob"
    <3>1. submitted = Alias(base, operation, m.job.request.operation)
      BY <1>5, <2>2
    <3>2. submitted.environment = m.environment /\ submitted.active = m.active /\ submitted.job = m.job
      BY <1>8, <2>1, <3>1
    <3> QED BY <3>2 DEF Stays
  <2>3. CASE outcome = "joinsQueued"
    <3> DEFINE aliased == Alias(intended, operation, m.queued.operation)
    <3>1. submitted = [aliased EXCEPT !.queued.key = key, !.queued.origin = Canonical]
      BY <1>5, <2>3
    <3>2. aliased = [intended EXCEPT !.waiters = aliased.waiters]
      BY <1>3 DEF Alias, Machine
    <3>3. /\ submitted.environment = intended.environment /\ submitted.active = intended.active
          /\ submitted.job = intended.job
      <4> HIDE DEF aliased
      <4>1. aliased.environment = intended.environment /\ aliased.active = intended.active
            /\ aliased.job = intended.job
            /\ DOMAIN aliased = DOMAIN intended
        BY <1>3, <3>2 DEF Machine
      <4> QED BY <1>3, <3>1, <4>1 DEF Machine
    <3> QED BY <1>3, <3>3 DEF Stays
  <2> QED BY <1>12, <2>2, <2>3
<1>13. CASE outcome \notin {"shuttingDown", "superseded", "adopted", "joinsJob", "joinsQueued"}
  <2>1. submitted = Enqueue(intended, request)
    BY <1>5, <1>13
  <2>2. CASE m.job = None
    <3> DEFINE job == [request |-> request, phase |-> "preparing", environment |-> intended.environment]
    <3>1. submitted = [intended EXCEPT !.job = job]
      BY <1>3, <2>1, <2>2 DEF Enqueue, Start
    <3>2. job.environment = m.environment
      BY <1>3
    <3> HIDE DEF job
    <3>3. submitted.environment = m.environment /\ submitted.active = m.active /\ submitted.job = job
      BY <1>3, <3>1 DEF Machine
    <3> QED BY <2>2, <3>2, <3>3 DEF Stays
  <2>3. CASE m.job # None
    <3> DEFINE replaced == [intended EXCEPT !.queued = request]
    <3>1. /\ replaced \in Machine /\ replaced.environment = m.environment
          /\ replaced.active = m.active /\ replaced.job = m.job
      BY <1>3, <1>4 DEF Machine
    <3> HIDE DEF replaced
    <3>2. submitted = replaced \/ \E ids : submitted = CompleteWaiters(replaced, ids, "superseded")
      BY <1>3, <2>1, <2>3 DEF Enqueue, CompleteOperation, replaced
    <3>3. submitted.environment = m.environment /\ submitted.active = m.active /\ submitted.job = m.job
      BY <3>1, <3>2, AnswersStay
    <3> QED BY <3>3 DEF Stays
  <2> QED BY <2>2, <2>3
<1> QED BY <1>10, <1>11, <1>12, <1>13

-----------------------------------------------------------------------------
(* Steps.                                                                  *)

\* Whatever comes from outside the worker leaves what plays alone.
Rests ==
    /\ GenerationsPast'
    /\ machine'.active # None => /\ machine.active # None
                                 /\ machine'.active.graph = machine.active.graph
                                 /\ machine'.active.environment = machine.active.environment
    /\ machine.job # None => machine'.job # None /\ machine'.job.environment = machine.job.environment

LEMMA MachineRests ==
    ASSUME IInv, LiveInv, native'.generation = native.generation,
           NEW k \in {machine, GenerationObserved(machine, native.generation),
                      AudioEnvironmentAdvanced(GenerationObserved(machine, native.generation))},
           Stays(k, machine')
    PROVE  Rests
<1> DEFINE observed == GenerationObserved(machine, native.generation)
           advanced == AudioEnvironmentAdvanced(observed)
<1>1. machine \in Machine /\ native.generation \in Nat /\ GenerationsPast
  BY DEF IInv, TypeOK, StateOK, LiveInv
<1>2. /\ observed \in Machine /\ observed.job = machine.job /\ observed.active \in {machine.active, None}
      /\ observed.environment.generation = native.generation
  BY <1>1, GenerationObservedType, EnvironmentLeaves
<1> HIDE DEF observed
<1>3. /\ advanced.job = machine.job /\ advanced.active = None
      /\ advanced.environment.generation = native.generation
  BY <1>1, <1>2, EnvironmentLeaves
<1> HIDE DEF advanced
<1>4. /\ k.job = machine.job /\ k.active \in {machine.active, None}
      /\ k.environment.generation <= native.generation
  BY <1>1, <1>2, <1>3 DEF GenerationsPast, observed, advanced
<1> QED BY <1>1, <1>4 DEF Rests, Stays, GenerationsPast

LEMMA LiveRests ==
    ASSUME LiveInv, Rests, native'.generation = native.generation, native'.committed = native.committed,
           worker'.at \in {"committed", "conclude"} /\ worker'.result = "ok"
               <=> worker.at \in {"committed", "conclude"} /\ worker.result = "ok",
           worker'.at \in {"committed", "conclude"} => worker'.request = worker.request
    PROVE  LiveInv'
BY DEF LiveInv, Rests, CommitPlays, ActivePlays, Active

LEMMA CallerLives ==
    ASSUME IInv, LiveInv, NEW c \in Caller, CallerStep(c)
    PROVE  LiveInv'
<1> DEFINE observed == GenerationObserved(machine, native.generation)
           advanced == AudioEnvironmentAdvanced(observed)
<1>1. machine \in Machine /\ native.generation \in Nat /\ observed \in Machine
  BY GenerationObservedType DEF IInv, TypeOK, StateOK
<1>2. worker' = worker /\ native' = native
  BY DEF CallerStep, Edit, Resync, ChangeAudioDevice, ProposeDevice, OpenProject, SubmitProjection,
         PollGeneration, CollectResult, GiveUp, ReportDeadline, CommitDevice, PromoteProject
<1>3. \A m : Stays(m, m)
  BY DEF Stays
<1> HIDE DEF observed
<1>4. \E k \in {machine, observed, advanced} : Stays(k, machine')
  <2>1. CASE SubmitProjection(c)
    <3> DEFINE timed == call[c].purpose \notin Untimed
               canonical == call[c].purpose \notin Proposing
               submitted == Submit(observed, call[c].key, call[c].graph, timed, canonical)
    <3>1. call[c].key \in Key /\ call[c].graph \in Graph
      BY <2>1, BusyCall DEF SubmitProjection
    <3>2. machine' \in {RemoveWaiter(submitted, submitted.next), submitted}
      BY <2>1 DEF SubmitProjection, observed
    <3>3. timed \in BOOLEAN /\ canonical \in BOOLEAN
      OBVIOUS
    <3> HIDE DEF timed, canonical
    <3>4. submitted \in Machine /\ Stays(observed, submitted)
      BY <1>1, <3>1, <3>3, SubmitType, SubmitStays
    <3> HIDE DEF submitted
    <3>5. Stays(submitted, machine')
      BY <1>3, <3>2, <3>4, EventsStay
    <3> QED BY <3>4, <3>5, StaysAgain
  <2>2. CASE Edit(c) \/ Resync(c) \/ ChangeAudioDevice(c) \/ ProposeDevice(c) \/ OpenProject(c)
             \/ PollGeneration(c) \/ GiveUp(c) \/ CommitDevice(c)
    <3>1. machine' \in {machine, observed, advanced}
      BY <2>2 DEF Edit, Resync, ChangeAudioDevice, ProposeDevice, OpenProject,
                  PollGeneration, GiveUp, CommitDevice, observed
    <3> QED BY <1>3, <3>1
  <2>3. CASE CollectResult(c)
    BY <1>1, <2>3, EventsStay DEF CollectResult
  <2>4. CASE ReportDeadline(c)
    BY <1>1, <2>4, EventsStay DEF ReportDeadline
  <2>5. CASE PromoteProject(c)
    <3>1. machine' = Promote(observed, call[c].key)
      BY <2>5 DEF PromoteProject, observed
    <3> QED BY <1>1, <3>1, EventsStay
  <2> QED BY <2>1, <2>2, <2>3, <2>4, <2>5 DEF CallerStep
<1>5. Rests
  BY <1>2, <1>4, MachineRests DEF observed
<1> QED BY <1>2, <1>5, LiveRests

\* The worker's reports to the machine.
LEMMA ReportLives ==
    ASSUME IInv, LiveInv, ReportPrepared \/ ReportCommitted \/ WaitForIdle
    PROVE  LiveInv'
<1>1. /\ machine \in Machine /\ native.generation \in Nat /\ GenerationsPast /\ native' = native
      /\ worker \in [at : WorkerAt, request : Request \union {None}, result : Result \union {"retryable", None}]
  BY DEF IInv, TypeOK, StateOK, LiveInv, ReportPrepared, ReportCommitted, WaitForIdle
<1>2. worker.at \in {"rest", "decide", "conclude"}
  BY DEF ReportPrepared, ReportCommitted, WaitForIdle
<1>3. worker.at \in {"decide", "conclude"} => worker.result \in Result \union {"retryable"}
  BY DEF IInv, WorkerCarries
<1>4. /\ machine.job # None /\ RunsOperation(machine, worker.request.operation)
      /\ machine.job.request.graph = worker.request.graph
  BY <1>2 DEF IInv, WorkerOwnsJob, RunsOperation
<1>5. worker'.at \notin {"committed", "conclude"}
  <2>1. PreparedEffect(machine, worker.request.operation, worker.result, late) \in {"none", "commit", "discard"}
    BY DEF PreparedEffect
  <2>2. \E at \in {"idle", "prepared", "commit", "discard"} :
          \/ \E result : worker' = [worker EXCEPT !.at = at, !.result = result]
          \/ worker' = [worker EXCEPT !.at = at, !.request = None, !.result = None]
    BY <2>1 DEF ReportPrepared, ReportCommitted, WaitForIdle, WorkerTo
  <2> QED BY <1>1, <2>2
<1>6. SUFFICES GenerationsPast' /\ ActivePlays'
  BY <1>5 DEF LiveInv, CommitPlays
<1>7. CASE ReportPrepared \/ WaitForIdle
  <2>1. ActivePlays
    BY <1>7 DEF LiveInv, ReportPrepared, WaitForIdle
  <2>2. \/ machine' = machine
        \/ \E result \in Result \union {"retryable"} :
             machine' = Prepared(machine, worker.request.operation, result, late)
    <3>1. {"timeout", "failed"} \subseteq Result
      BY DEF Result, Error
    <3> QED BY <1>3, <1>7, <3>1 DEF ReportPrepared, WaitForIdle
  <2>3. /\ machine'.environment = machine.environment /\ machine'.active = machine.active
        /\ machine'.job # None => \/ machine'.job.environment = machine.environment
                                  \/ machine.job # None /\ machine'.job.environment = machine.job.environment
    BY <1>1, <2>2, ReportsLeave
  <2> QED BY <1>1, <2>1, <2>3 DEF GenerationsPast, ActivePlays, Active
<1>8. CASE ReportCommitted
  <2>1. /\ machine' = Committed(machine, worker.request.operation, worker.result, late)
        /\ worker.at = "conclude" /\ worker.result \in Result \union {"retryable"}
    BY <1>3, <1>8 DEF ReportCommitted
  <2>2. /\ machine'.environment = machine.environment
        /\ IF worker.result = "ok"
           THEN /\ machine'.active # None
                /\ machine'.active.graph = worker.request.graph
                /\ machine'.active.environment = machine.job.environment
           ELSE machine'.active = machine.active
        /\ machine'.job # None => \/ machine'.job.environment = machine.environment
                                  \/ machine'.job.environment = machine.job.environment
    BY <1>1, <1>4, <2>1, ReportsLeave
  <2>3. CASE worker.result = "ok"
    BY <1>1, <1>4, <2>1, <2>2, <2>3 DEF LiveInv, CommitPlays, GenerationsPast, ActivePlays, Active
  <2>4. CASE worker.result # "ok"
    <3>1. ActivePlays
      BY <2>4 DEF LiveInv
    <3> QED BY <1>1, <1>4, <2>2, <2>4, <3>1 DEF GenerationsPast, ActivePlays, Active
  <2> QED BY <2>3, <2>4
<1> QED BY <1>7, <1>8

\* The other steps of the worker.
LEMMA WorkerLives ==
    ASSUME IInv, LiveInv, TakeWork \/ PrepareSnapshot \/ DiscardSnapshot \/ ObserveBeforeReport
    PROVE  LiveInv'
<1>1. /\ machine \in Machine /\ native.generation \in Nat
      /\ worker \in [at : WorkerAt, request : Request \union {None}, result : Result \union {"retryable", None}]
      /\ native \in [generation : Nat, prepared : Graph \union {None}, committed : Graph \union {None},
                      abandoned : {None, "commit"} \union Graph]
  BY DEF IInv, TypeOK, StateOK
<1>2. native'.generation = native.generation /\ native'.committed = native.committed
  BY <1>1 DEF TakeWork, PrepareSnapshot, DiscardSnapshot, ObserveBeforeReport
<1>3. /\ worker'.at \in {"committed", "conclude"} /\ worker'.result = "ok"
          <=> worker.at \in {"committed", "conclude"} /\ worker.result = "ok"
      /\ worker'.at \in {"committed", "conclude"} => worker'.request = worker.request
  BY <1>1 DEF TakeWork, PrepareSnapshot, DiscardSnapshot, ObserveBeforeReport, WorkerTo
<1>4. machine' \in {machine, GenerationObserved(machine, native.generation)}
  BY DEF TakeWork, PrepareSnapshot, DiscardSnapshot, ObserveBeforeReport
<1>5. Stays(machine', machine')
  BY DEF Stays
<1>6. Rests
  BY <1>2, <1>4, <1>5, MachineRests
<1> QED BY <1>2, <1>3, <1>6, LiveRests

\* A commit that succeeds plays the worker's graph; one that fails leaves what
\* played before.
LEMMA CommitLives ==
    ASSUME IInv, LiveInv, CommitSnapshot
    PROVE  LiveInv'
<1>1. /\ native.generation \in Nat /\ machine' = machine
      /\ worker \in [at : WorkerAt, request : Request \union {None}, result : Result \union {"retryable", None}]
      /\ native \in [generation : Nat, prepared : Graph \union {None}, committed : Graph \union {None},
                      abandoned : {None, "commit"} \union Graph]
      /\ worker.at = "commit"
  BY DEF IInv, TypeOK, StateOK, CommitSnapshot
<1>2. GenerationsPast /\ ActivePlays /\ machine.job # None
  BY <1>1 DEF LiveInv, IInv, WorkerOwnsJob
<1>3. native'.generation = native.generation /\ worker'.at = "committed" /\ worker'.request = worker.request
  BY <1>1 DEF CommitSnapshot, WorkerTo
<1>4. GenerationsPast'
  BY <1>1, <1>2, <1>3 DEF GenerationsPast
<1>5. CASE worker'.result = "ok"
  <2>1. native'.committed = native.prepared /\ native.prepared # None
    BY <1>1, <1>5 DEF CommitSnapshot, WorkerTo
  <2>2. native.prepared = worker.request.graph
    BY <1>1, <2>1 DEF IInv, PreparedIsWorkers
  <2> QED BY <1>1, <1>2, <1>3, <1>4, <1>5, <2>1, <2>2 DEF LiveInv, CommitPlays
<1>6. CASE worker'.result # "ok"
  <2>1. native'.committed = native.committed
    BY <1>1, <1>6 DEF CommitSnapshot, WorkerTo
  <2> QED BY <1>1, <1>2, <1>3, <1>4, <1>6, <2>1 DEF LiveInv, CommitPlays, ActivePlays, Active
<1> QED BY <1>5, <1>6

\* The sidecar and the rest of the Host.  A restart leaves nothing active of
\* its own generation.
LEMMA SurroundingsLive ==
    ASSUME IInv, LiveInv, native.abandoned # "commit",
           Expire \/ FinishAbandoned \/ RestartSidecar \/ QueryStatus \/ ReportTransportFailure
           \/ Shutdown
    PROVE  LiveInv'
<1>1. /\ machine \in Machine /\ native.generation \in Nat
      /\ native \in [generation : Nat, prepared : Graph \union {None}, committed : Graph \union {None},
                      abandoned : {None, "commit"} \union Graph]
  BY DEF IInv, TypeOK, StateOK
<1>2. worker' = worker
  BY DEF Expire, FinishAbandoned, RestartSidecar, QueryStatus, ReportTransportFailure, Shutdown
<1>3. CASE ~RestartSidecar
  <2>1. native'.generation = native.generation /\ native'.committed = native.committed
    BY <1>1, <1>3 DEF Expire, FinishAbandoned, QueryStatus, ReportTransportFailure, Shutdown
  <2>2. Stays(machine, machine) /\ Stays(machine', machine')
    BY DEF Stays
  <2>3. \E k \in {machine, GenerationObserved(machine, native.generation)} : Stays(k, machine')
    BY <1>1, <1>3, <2>2, EventsStay
       DEF Expire, FinishAbandoned, QueryStatus, ReportTransportFailure, Shutdown
  <2>4. Rests
    BY <2>1, <2>3, MachineRests
  <2> QED BY <1>2, <2>1, <2>4, LiveRests
<1>4. CASE RestartSidecar
  <2>1. machine' = machine /\ native'.generation = native.generation + 1
    BY <1>4 DEF RestartSidecar
  <2>2. GenerationsPast /\ (worker.at \in {"committed", "conclude"} => machine.job # None)
    BY DEF LiveInv, IInv, WorkerOwnsJob
  <2>3. /\ machine.environment.generation \in Nat
        /\ machine.active # None => machine.active.environment.generation \in Nat
        /\ machine.job # None => machine.job.environment.generation \in Nat
    BY <1>1 DEF Machine, ActiveGraph, Job, Environment
  <2> QED BY <1>1, <1>2, <2>1, <2>2, <2>3
             DEF LiveInv, GenerationsPast, CommitPlays, ActivePlays, Active
<1> QED BY <1>3, <1>4

\* ActiveIsLive: whatever callers submit, withdraw or promote, however often
\* the sidecar restarts or outlives the Host's patience with a preparation,
\* the graph the machine calls active is the graph that plays, in every
\* behaviour in which the Host gives up on no commit.
THEOREM ActiveIsPlayed == Spec /\ [](native.abandoned # "commit") => []ActiveIsLive
<1>1. Init => LiveInv
  <2> SUFFICES ASSUME Init PROVE LiveInv
    OBVIOUS
  <2>1. /\ machine.environment.generation = 1 /\ machine.active = None /\ machine.job = None
        /\ native.generation = 1 /\ worker.at = "idle"
    BY DEF Init, NewMachine
  <2> QED BY <2>1 DEF LiveInv, GenerationsPast, CommitPlays, ActivePlays, Active
<1>2. IInv /\ LiveInv /\ native.abandoned # "commit" /\ [Next]_vars => LiveInv'
  <2> SUFFICES ASSUME IInv, LiveInv, native.abandoned # "commit", [Next]_vars PROVE LiveInv'
    OBVIOUS
  <2>1. ASSUME NEW c \in Caller, CallerStep(c) PROVE LiveInv'
    BY <2>1, CallerLives
  <2>2. CASE WorkerStep
    BY <2>2, ReportLives, WorkerLives, CommitLives DEF WorkerStep
  <2>3. CASE Expire \/ FinishAbandoned \/ RestartSidecar \/ QueryStatus \/ ReportTransportFailure
             \/ Shutdown
    BY <2>3, SurroundingsLive
  <2>4. CASE UNCHANGED vars
    BY <2>4 DEF vars, LiveInv, GenerationsPast, CommitPlays, ActivePlays, Active
  <2> QED BY <2>1, <2>2, <2>3, <2>4 DEF Next
<1>3. LiveInv => ActiveIsLive
  BY DEF LiveInv, ActivePlays, Active, ActiveIsLive
<1> QED BY <1>1, <1>2, <1>3, Invariance, PTL DEF Spec

\* The case a run checks: a Host whose native calls never outlive their
\* timeouts gives up on no commit.
THEOREM ActiveIsPlayedInTime == ~Abandonment /\ Spec => []ActiveIsLive
<1> DEFINE Patient == ~Abandonment /\ native.abandoned = None
<1>1. ~Abandonment /\ Init => Patient
  BY DEF Init
<1>2. IInv /\ Patient /\ [Next]_vars => Patient'
  <2> SUFFICES ASSUME IInv, Patient, [Next]_vars PROVE Patient'
    OBVIOUS
  <2>1. native \in [generation : Nat, prepared : Graph \union {None}, committed : Graph \union {None},
                    abandoned : {None, "commit"} \union Graph]
    BY DEF IInv, TypeOK, StateOK
  <2>2. ASSUME NEW c \in Caller, CallerStep(c) PROVE native'.abandoned = None
    BY <2>2 DEF CallerStep, Edit, Resync, ChangeAudioDevice, ProposeDevice, OpenProject, SubmitProjection,
                PollGeneration, CollectResult, GiveUp, ReportDeadline, CommitDevice, PromoteProject
  <2>3. CASE WorkerStep
    BY <2>1, <2>3 DEF WorkerStep, TakeWork, PrepareSnapshot, WaitForIdle, ObserveBeforeReport,
                      ReportPrepared, CommitSnapshot, ReportCommitted, DiscardSnapshot
  <2>4. CASE Expire \/ FinishAbandoned \/ RestartSidecar \/ QueryStatus \/ ReportTransportFailure
             \/ Shutdown
    BY <2>1, <2>4 DEF Expire, FinishAbandoned, RestartSidecar, QueryStatus, ReportTransportFailure,
                      Shutdown
  <2> QED BY <2>2, <2>3, <2>4 DEF Next, vars
<1>3. Patient => native.abandoned # "commit"
  BY AbandonedAssumption
<1> QED BY <1>1, <1>2, <1>3, Invariance, ActiveIsPlayed, PTL DEF Spec
=============================================================================

-------------------------- MODULE ProjectionCallerProofs --------------------------
(***************************************************************************)
(* What the callers of the projection coordinator can rely on, for any     *)
(* number of callers, Projects, keys, operations, restarts and shutdowns.  *)
(*                                                                         *)
(* The canonical intent of the machine never gives way to an older         *)
(* canonical state.  A submission is compared with the canonical intent,   *)
(* but a promotion is not: Input::PromoteCandidate makes whatever          *)
(* candidate is active canonical.  That it is no step back follows from    *)
(* the writer lock, which the promoting thread has held since it chose the *)
(* candidate's key.                                                        *)
(*                                                                         *)
(* Nobody is forgotten: a waiter that has no answer yet waits for work     *)
(* that is running or queued, or has a deadline of its own behind it.      *)
(* Every operator that drops a request, replaces it or finishes it answers *)
(* those who wait for it, aliases included; the exception is a deadline,   *)
(* which drops the queued request of the one caller that reports it.       *)
(*                                                                         *)
(* Nobody is misled: a request keeps its graph from its submission to its  *)
(* end, an alias joins only work for the graph submitted, and success is   *)
(* told only by the step that makes a job's graph active.                  *)
(*                                                                         *)
(* No proposal is left playing: while nobody's deadline passes and nobody  *)
(* opens another Project, a proposal at work is one that a caller waits    *)
(* for, and what plays without being canonical has a caller that decides   *)
(* about it, or that is about to submit what is canonical instead.         *)
(***************************************************************************)
EXTENDS ProjectionCoordinatorProofs

\* A canonical state is submitted after it became canonical, and the machine is
\* ahead of it by no more than a promotion that is still to be committed.
NotAhead ==
    /\ machine.canonical # None => machine.canonical.key.sequence <= core.key.sequence + 1
    /\ \A c \in Caller :
           call[c].at = "submit" /\ call[c].purpose \notin Proposing
               => call[c].key.sequence <= core.key.sequence

\* A Project switch keeps the writer lock, and so the next key is its own.
SwitchIsNext ==
    \A c \in Caller :
        /\ call[c].at # "idle" /\ call[c].purpose = "switch"
               => writer = c /\ call[c].key.sequence = core.key.sequence + 1
        /\ call[c].at = "promote" => call[c].purpose = "switch"

OrderInv == NotAhead /\ SwitchIsNext

-----------------------------------------------------------------------------
(* What the operators of the machine do to the canonical intent.           *)

\* n is m with the canonical intent it had.
Keeps(m, n) == "canonical" \in DOMAIN n /\ n.canonical = m.canonical

LEMMA AnswersKeep ==
    ASSUME NEW m, "canonical" \in DOMAIN m, NEW ids, NEW result
    PROVE  /\ Keeps(m, CompleteWaiters(m, ids, result))
           /\ Keeps(m, CompleteOperation(m, ids, result))
           /\ Keeps(m, RemoveWaiter(m, ids))
           /\ Keeps(m, Alias(m, ids, result))
BY DEF Keeps, CompleteWaiters, CompleteOperation, RemoveWaiter, Alias

LEMMA JobsKeep ==
    ASSUME NEW m, "canonical" \in DOMAIN m, NEW request
    PROVE  /\ Keeps(m, Start(m, request))
           /\ Keeps(m, InstallCommitted(m))
           /\ Keeps(m, StartQueued(m))
<1>1. ASSUME NEW n, "canonical" \in DOMAIN n, NEW next PROVE Keeps(n, Start(n, next))
  BY <1>1 DEF Keeps, Start
<1>2. Keeps(m, InstallCommitted(m))
  BY DEF Keeps, InstallCommitted
<1>3. Keeps(m, StartQueued(m))
  <2>1. Keeps(m, [m EXCEPT !.queued = None]) /\ Keeps(m, [m EXCEPT !.job = None])
    BY DEF Keeps
  <2> QED BY <1>1, <2>1 DEF StartQueued, Keeps
<1> QED BY <1>1, <1>2, <1>3

\* A finished job leaves the canonical intent alone.
LEMMA FinishKeeps ==
    ASSUME NEW m, "canonical" \in DOMAIN m, NEW error
    PROVE  Keeps(m, FinishOk(m)) /\ Keeps(m, FinishError(m, error))
<1>1. ASSUME NEW n, Keeps(m, n), NEW operation, NEW result
      PROVE  Keeps(m, StartQueued(CompleteOperation(n, operation, result)))
  BY <1>1, AnswersKeep, JobsKeep DEF Keeps
<1>2. ASSUME NEW n, Keeps(m, n), NEW e PROVE Keeps(m, [n EXCEPT !.error = e])
  BY <1>2 DEF Keeps
<1>3. Keeps(m, m) /\ Keeps(m, InstallCommitted(m))
  BY JobsKeep DEF Keeps
<1> QED BY <1>1, <1>2, <1>3 DEF FinishOk, FinishError

\* So do a result of the worker,
LEMMA ReportsKeep ==
    ASSUME NEW m, "canonical" \in DOMAIN m, NEW operation, NEW result, NEW passed
    PROVE  /\ Keeps(m, Prepared(m, operation, result, passed))
           /\ Keeps(m, Committed(m, operation, result, passed))
<1>1. Keeps(m, m)
  BY DEF Keeps
<1>2. ASSUME NEW phase PROVE Keeps(m, [m EXCEPT !.job.phase = phase])
  BY DEF Keeps
<1>3. ASSUME NEW error
      PROVE  /\ Keeps(m, FinishError(m, error)) /\ Keeps(m, FinishOk(m))
             /\ Keeps(m, FinishError(InstallCommitted(m), error))
  BY JobsKeep, FinishKeeps DEF Keeps
<1>4. Keeps(m, Prepared(m, operation, result, passed))
  BY <1>1, <1>2, <1>3 DEF Prepared
<1>5. Keeps(m, Committed(m, operation, result, passed))
  BY <1>1, <1>2, <1>3 DEF Committed
<1> QED BY <1>4, <1>5

\* and everything that happens to the machine from outside.
LEMMA EventsKeep ==
    ASSUME NEW m, "canonical" \in DOMAIN m, NEW value
    PROVE  /\ Keeps(m, GenerationObserved(m, value))
           /\ Keeps(m, AudioEnvironmentAdvanced(m))
           /\ Keeps(m, MarkFailed(m))
           /\ Keeps(m, DeadlineReached(m, value))
           /\ Keeps(m, Stopped(m))
<1>1. Keeps(m, m)
  BY DEF Keeps
<1>2. ASSUME NEW n, Keeps(m, n), NEW error PROVE Keeps(m, Invalidate(n, error))
  <2>1. Keeps(m, [n EXCEPT !.active = None, !.queued = None, !.error = None, !.target = None])
    BY <1>2 DEF Keeps
  <2>2. ASSUME NEW k, Keeps(m, k), NEW ids PROVE Keeps(m, CompleteWaiters(k, ids, error))
    BY <2>2, AnswersKeep DEF Keeps
  <2> QED BY <2>1, <2>2 DEF Invalidate
<1>3. ASSUME NEW e PROVE Keeps(m, [m EXCEPT !.environment = e])
  BY DEF Keeps
<1>4. Keeps(m, GenerationObserved(m, value))
  BY <1>1, <1>2, <1>3 DEF GenerationObserved
<1>5. Keeps(m, AudioEnvironmentAdvanced(m))
  <2>1. Keeps(m, [m EXCEPT !.environment.revision = @ + 1])
    BY DEF Keeps
  <2> QED BY <1>2, <2>1 DEF AudioEnvironmentAdvanced
<1>6. Keeps(m, MarkFailed(m))
  BY DEF MarkFailed, Keeps
<1>7. Keeps(m, DeadlineReached(m, value))
  <2>1. Keeps(m, [m EXCEPT !.job.request.timed = TRUE])
    BY DEF Keeps
  <2>2. ASSUME NEW n, Keeps(m, n)
        PROVE  LET told == CompleteWaiters(n, {value}, "timeout")
               IN Keeps(m, told) /\ Keeps(m, [told EXCEPT !.queued = None])
    BY <2>2, AnswersKeep DEF Keeps
  <2> QED BY <1>1, <2>1, <2>2 DEF DeadlineReached
<1>8. Keeps(m, Stopped(m))
  <2>1. Keeps(m, [m EXCEPT !.stopped = TRUE, !.queued = None])
    BY DEF Keeps
  <2>2. ASSUME NEW n, Keeps(m, n), NEW ids PROVE Keeps(m, CompleteWaiters(n, ids, "shuttingDown"))
    BY <2>2, AnswersKeep DEF Keeps
  <2> QED BY <2>1, <2>2 DEF Stopped
<1> QED BY <1>4, <1>5, <1>6, <1>7, <1>8

\* A submission keeps the canonical intent, or replaces it by one that is not
\* older; a candidate keeps it.
LEMMA SubmitOrders ==
    ASSUME NEW m, "canonical" \in DOMAIN m, NEW key, NEW graph, NEW timed, NEW canonical \in BOOLEAN
    PROVE  LET n == Submit(m, key, graph, timed, canonical) IN
           /\ "canonical" \in DOMAIN n
           /\ \/ n.canonical = m.canonical
              \/ /\ canonical
                 /\ n.canonical = [key |-> key, graph |-> graph]
                 /\ m.canonical = None \/ ~(key.sequence < m.canonical.key.sequence)
<1> DEFINE operation == m.next + 1
           outcome == SubmitOutcome(m, key, graph, canonical)
           waiting == [m EXCEPT !.next = operation,
                                !.waiters = @ \union {[id |-> operation, operation |-> operation,
                                                       key |-> key, result |-> None]}]
           intended == IF canonical
                       THEN [waiting EXCEPT !.canonical = [key |-> key, graph |-> graph],
                                            !.error = None,
                                            !.operation = operation,
                                            !.target = key]
                       ELSE waiting
           request == [operation |-> operation, key |-> key, graph |-> graph,
                       origin |-> IF canonical THEN Canonical ELSE operation, timed |-> timed]
           n == Submit(m, key, graph, timed, canonical)
           Ordered(v) == /\ "canonical" \in DOMAIN v
                         /\ \/ v.canonical = m.canonical
                            \/ /\ canonical
                               /\ v.canonical = [key |-> key, graph |-> graph]
                               /\ m.canonical = None \/ ~(key.sequence < m.canonical.key.sequence)
<1> SUFFICES Ordered(n)
  OBVIOUS
<1>1. Keeps(m, waiting)
  BY DEF Keeps
<1>2. "canonical" \in DOMAIN intended
      /\ intended.canonical = IF canonical THEN [key |-> key, graph |-> graph] ELSE m.canonical
  <2> HIDE DEF waiting
  <2> QED BY <1>1 DEF Keeps
<1>3. n = CASE outcome \in {"shuttingDown", "superseded"} ->
                 CompleteWaiters(waiting, {operation}, outcome)
            [] outcome = "adopted" ->
                 CompleteWaiters([SupersedeQueuedCanonical(intended) EXCEPT !.active.key = key,
                                                                            !.active.origin = Canonical],
                                 {operation}, "ok")
            [] outcome = "joinsJob" ->
                 Alias(SupersedeQueuedCanonical(intended), operation, m.job.request.operation)
            [] outcome = "joinsQueued" ->
                 [Alias(intended, operation, m.queued.operation) EXCEPT !.queued.key = key,
                                                                        !.queued.origin = Canonical]
            [] OTHER -> Enqueue(intended, request)
  BY DEF Submit
<1>4. outcome \notin {"shuttingDown", "superseded"}
        => m.canonical = None \/ ~(key.sequence < m.canonical.key.sequence)
  BY DEF SubmitOutcome
<1> HIDE DEF waiting, intended, outcome, n, request
<1>5. Keeps(m, CompleteWaiters(waiting, {operation}, outcome))
  BY <1>1, AnswersKeep DEF Keeps
<1>6. Keeps(intended, SupersedeQueuedCanonical(intended))
  <2>1. Keeps(intended, intended) /\ Keeps(intended, [intended EXCEPT !.queued = None])
    BY <1>2 DEF Keeps
  <2> QED BY <2>1, AnswersKeep DEF SupersedeQueuedCanonical, Keeps
<1>7. ASSUME NEW v, Keeps(intended, v), NEW ids, NEW answer
      PROVE  /\ Keeps(intended, Alias(v, ids, answer))
             /\ Keeps(intended, CompleteWaiters([v EXCEPT !.active.key = key, !.active.origin = Canonical],
                                                ids, answer))
             /\ Keeps(intended, [Alias(v, ids, answer) EXCEPT !.queued.key = key, !.queued.origin = Canonical])
  <2>1. ASSUME NEW u, Keeps(intended, u)
        PROVE  /\ Keeps(intended, [u EXCEPT !.active.key = key, !.active.origin = Canonical])
               /\ Keeps(intended, [u EXCEPT !.queued.key = key, !.queued.origin = Canonical])
    BY <2>1 DEF Keeps
  <2>2. ASSUME NEW u, Keeps(intended, u)
        PROVE  Keeps(intended, Alias(u, ids, answer)) /\ Keeps(intended, CompleteWaiters(u, ids, answer))
    BY <2>2, AnswersKeep DEF Keeps
  <2> QED BY <1>7, <2>1, <2>2
<1>8. Keeps(intended, Enqueue(intended, request))
  <2>1. Keeps(intended, [intended EXCEPT !.queued = request])
    BY <1>2 DEF Keeps
  <2> QED BY <1>2, <2>1, AnswersKeep, JobsKeep DEF Enqueue, Keeps
<1>9. Keeps(intended, intended)
  BY <1>2 DEF Keeps
<1>10. CASE outcome \in {"shuttingDown", "superseded"}
  BY <1>3, <1>5, <1>10 DEF Keeps
<1>11. CASE outcome \notin {"shuttingDown", "superseded"}
  <2>1. Keeps(intended, n)
    BY <1>3, <1>6, <1>7, <1>8, <1>9, <1>11
  <2> QED BY <1>2, <1>4, <1>11, <2>1 DEF Keeps
<1> QED BY <1>10, <1>11

\* A promotion gives the canonical intent the key of the promoted candidate.
LEMMA PromoteOrders ==
    ASSUME NEW m \in Machine, NEW key \in Key
    PROVE  /\ ~Promotable(m, key) => Promote(m, key) = m
           /\ Promotable(m, key) => Promote(m, key).canonical.key = key /\ Promote(m, key).canonical # None
<1>1. ASSUME Promotable(m, key)
      PROVE  Promote(m, key).canonical = [key |-> key, graph |-> m.active.graph]
  <2>1. "canonical" \in DOMAIN m
    BY DEF Machine
  <2> QED BY <1>1, <2>1 DEF Promote
<1>2. ASSUME Promotable(m, key)
      PROVE  [key |-> key, graph |-> m.active.graph] \in Intent
  <2>1. m.active \in ActiveGraph
    BY <1>2 DEF Promotable, ActiveHere, Machine
  <2> QED BY <2>1 DEF ActiveGraph, Intent
<1>3. ~Promotable(m, key) => Promote(m, key) = m
  BY DEF Promote
<1>4. [key |-> key, graph |-> m.active.graph].key = key
  OBVIOUS
<1> QED BY <1>1, <1>2, <1>3, <1>4, NoneAssumption

-----------------------------------------------------------------------------
(* Steps.                                                                  *)

\* The step leaves no older canonical intent.
Advances ==
    machine.canonical # None =>
        /\ machine'.canonical # None
        /\ machine'.canonical.key.sequence >= machine.canonical.key.sequence

LEMMA SequencesAreTyped ==
    ASSUME IInv
    PROVE  /\ "canonical" \in DOMAIN machine
           /\ core.key.sequence \in Nat
           /\ machine.canonical # None => machine.canonical.key.sequence \in Nat
           /\ call \in [Caller -> Call \union {Idle}]
           /\ \A c \in Caller : call[c].at # "idle" => call[c] \in Call /\ call[c].key.sequence \in Nat
<1>1. machine \in Machine /\ core \in Intent /\ call \in [Caller -> Call \union {Idle}]
  BY DEF IInv, TypeOK, StateOK
<1>2. \A key \in Key : key.sequence \in Nat
  BY KeyAssumption
<1>3. "canonical" \in DOMAIN machine /\ machine.canonical \in Intent \union {None}
  BY <1>1 DEF Machine
<1>4. \A intent \in Intent : intent.key \in Key
  BY DEF Intent
<1>5. \A c \in Caller : call[c].at # "idle" => call[c] \in Call /\ call[c].key \in Key
  BY BusyCall
<1> QED BY <1>1, <1>2, <1>3, <1>4, <1>5

\* No thread of the Host moves.
LEMMA OthersMove ==
    ASSUME OrderInv, IInv, Keeps(machine, machine'), UNCHANGED <<core, writer, call>>
    PROVE  OrderInv' /\ Advances
<1>1. machine'.canonical = machine.canonical
  BY DEF Keeps
<1>2. NotAhead' /\ SwitchIsNext'
  BY <1>1 DEF OrderInv, NotAhead, SwitchIsNext
<1> QED BY <1>1, <1>2, SequencesAreTyped DEF OrderInv, Advances

\* Thread c goes on as x, which changes the canonical state and the lock only
\* while no other thread holds the lock.
LEMMA CallMoves ==
    ASSUME IInv, OrderInv, NEW c \in Caller, NEW x, call' = [call EXCEPT ![c] = x],
           core' = core \/ (writer \in {None, c} /\ core'.key.sequence = core.key.sequence + 1),
           writer' = writer \/ writer \in {None, c},
           machine'.canonical # None => machine'.canonical.key.sequence <= core'.key.sequence + 1,
           x.at = "submit" /\ x.purpose \notin Proposing => x.key.sequence <= core'.key.sequence,
           x.at # "idle" /\ x.purpose = "switch"
               => writer' = c /\ x.key.sequence = core'.key.sequence + 1,
           x.at = "promote" => x.purpose = "switch"
    PROVE  OrderInv'
<1>1. call'[c] = x /\ \A d \in Caller \ {c} : call'[d] = call[d]
  BY SequencesAreTyped
<1>2. core.key.sequence \in Nat /\ core'.key.sequence \in Nat /\ core'.key.sequence >= core.key.sequence
  BY SequencesAreTyped
<1>3. NotAhead'
  <2>1. ASSUME NEW d \in Caller \ {c}, call[d].at = "submit", call[d].purpose \notin Proposing
        PROVE  call[d].key.sequence <= core'.key.sequence
    <3>1. call[d].key.sequence \in Nat /\ call[d].key.sequence <= core.key.sequence
      BY <2>1, SequencesAreTyped DEF OrderInv, NotAhead
    <3> QED BY <1>2, <3>1
  <2> QED BY <1>1, <2>1 DEF NotAhead
<1>4. SwitchIsNext'
  <2>1. ASSUME NEW d \in Caller \ {c}, call[d].at # "idle", call[d].purpose = "switch"
        PROVE  writer' = d /\ call[d].key.sequence = core'.key.sequence + 1
    <3>1. writer = d /\ call[d].key.sequence = core.key.sequence + 1
      BY <2>1 DEF OrderInv, SwitchIsNext
    <3>2. writer \notin {None, c}
      BY <3>1, CallerAssumption
    <3> QED BY <3>1, <3>2
  <2> QED BY <1>1, <2>1 DEF OrderInv, SwitchIsNext
<1> QED BY <1>3, <1>4 DEF OrderInv

\* Thread c submits an intent that is canonical already.
LEMMA CanonicalSubmits ==
    ASSUME IInv, OrderInv, NEW c \in Caller, NEW purpose, purpose # "switch", NEW intent,
           ToSubmit(c, purpose, intent), intent.key.sequence = core'.key.sequence,
           core' = core \/ (writer \in {None, c} /\ core'.key.sequence = core.key.sequence + 1),
           writer' = writer \/ writer \in {None, c},
           machine'.canonical # None => machine'.canonical.key.sequence <= core'.key.sequence + 1
    PROVE  OrderInv'
<1> DEFINE x == [at |-> "submit", purpose |-> purpose, key |-> intent.key,
                 graph |-> intent.graph, operation |-> 0]
<1>1. call' = [call EXCEPT ![c] = x]
  BY DEF ToSubmit
<1>2. x.purpose = purpose /\ x.key.sequence = core'.key.sequence /\ x.at = "submit"
  OBVIOUS
<1>3. core'.key.sequence \in Nat
  BY SequencesAreTyped
<1> HIDE DEF x
<1>4. x.key.sequence <= core'.key.sequence
  BY <1>2, <1>3
<1> QED BY <1>1, <1>2, <1>4, CallMoves

\* Thread c proposes the next state.
LEMMA NextSubmits ==
    ASSUME IInv, OrderInv, NEW c \in Caller, NEW purpose \in Proposing, NEW intent,
           ToSubmit(c, purpose, intent), core' = core, machine' = machine,
           writer' = writer \/ writer \in {None, c},
           purpose = "switch" => writer' = c /\ intent.key.sequence = core.key.sequence + 1
    PROVE  OrderInv'
<1> DEFINE x == [at |-> "submit", purpose |-> purpose, key |-> intent.key,
                 graph |-> intent.graph, operation |-> 0]
<1>1. call' = [call EXCEPT ![c] = x]
  BY DEF ToSubmit
<1>2. x.purpose = purpose /\ x.key = intent.key /\ x.at = "submit"
  OBVIOUS
<1> HIDE DEF x
<1>3. machine'.canonical # None => machine'.canonical.key.sequence <= core'.key.sequence + 1
  BY DEF OrderInv, NotAhead
<1> QED BY <1>1, <1>2, <1>3, CallMoves

\* Thread c comes back from a submission.
LEMMA ReturnOrders ==
    ASSUME IInv, OrderInv, NEW c \in Caller, call[c].at # "idle", NEW ok \in BOOLEAN, Return(c, ok),
           core' = core, machine'.canonical # None => machine'.canonical.key.sequence <= core.key.sequence + 1
    PROVE  OrderInv'
<1> DEFINE this == call[c]
           failedTo == IF this.purpose = "device" THEN "resync" ELSE "restore"
           back == CASE this.purpose = "device" /\ ok -> [this EXCEPT !.at = "commit"]
                     [] this.purpose = "switch" /\ ok -> [this EXCEPT !.at = "promote"]
                     [] this.purpose \in Proposing /\ ~ok ->
                          [this EXCEPT !.at = "submit", !.purpose = failedTo,
                                       !.key = core.key, !.graph = core.graph, !.operation = 0]
                     [] OTHER -> Idle
<1>1. this \in Call /\ core.key.sequence \in Nat
  BY SequencesAreTyped
<1>2. call' = [call EXCEPT ![c] = back]
        /\ writer' = IF this.purpose \in {"edit", "restore"} /\ writer = c THEN None ELSE writer
  BY DEF Return
<1>3. back.at = "submit" => back.key = core.key
  BY <1>1 DEF Call, Idle
<1>4. back.at # "idle" /\ back.purpose = "switch" => this.purpose = "switch" /\ back.key = this.key
  BY <1>1 DEF Call, Idle
<1>5. this.purpose = "switch" => writer' = c /\ this.key.sequence = core.key.sequence + 1
  BY <1>2 DEF OrderInv, SwitchIsNext
<1>6. writer' = writer \/ writer \in {None, c}
  BY <1>2
<1>9. back.at = "promote" => back.purpose = "switch"
  BY <1>1 DEF Call, Idle
<1> HIDE DEF back, this
<1>7. back.at = "submit" => back.key.sequence <= core'.key.sequence
  BY <1>1, <1>3
<1>8. back.at # "idle" /\ back.purpose = "switch" => writer' = c /\ back.key.sequence = core'.key.sequence + 1
  BY <1>4, <1>5
<1> QED BY <1>2, <1>6, <1>7, <1>8, <1>9, CallMoves

\* What a thread of the Host does to the canonical intent.
LEMMA CallerOrders ==
    ASSUME IInv, OrderInv, NEW c \in Caller, CallerStep(c)
    PROVE  OrderInv' /\ Advances
<1> USE SequencesAreTyped
<1>1. Keeps(machine, machine) /\ Keeps(machine, GenerationObserved(machine, native.generation))
  BY EventsKeep DEF Keeps
<1>2. ASSUME machine'.canonical = machine.canonical
      PROVE  /\ Advances
             /\ machine'.canonical # None => machine'.canonical.key.sequence <= core.key.sequence + 1
             /\ core'.key.sequence = core.key.sequence + 1
                  => (machine'.canonical # None => machine'.canonical.key.sequence <= core'.key.sequence + 1)
  BY <1>2 DEF Advances, OrderInv, NotAhead
<1>3. CASE Edit(c)
  <2>1. PICK key \in NextKeys, graph \in Graph :
          core' = [key |-> key, graph |-> graph] /\ ToSubmit(c, "edit", [key |-> key, graph |-> graph])
    BY <1>3 DEF Edit
  <2>2. core'.key.sequence = core.key.sequence + 1 /\ writer = None /\ machine' = machine
    BY <1>3, <2>1 DEF Edit, NextKeys
  <2>3. [key |-> key, graph |-> graph].key.sequence = core'.key.sequence
    BY <2>1
  <2> QED BY <1>2, <2>1, <2>2, <2>3, CanonicalSubmits
<1>4. CASE Resync(c) \/ ChangeAudioDevice(c)
  <2>1. ToSubmit(c, "resync", core) /\ core' = core /\ writer' = writer
    BY <1>4 DEF Resync, ChangeAudioDevice
  <2>2. machine'.canonical = machine.canonical
    <3>1. Keeps(machine, AudioEnvironmentAdvanced(GenerationObserved(machine, native.generation)))
      BY <1>1, EventsKeep DEF Keeps
    <3> QED BY <1>4, <3>1 DEF Resync, ChangeAudioDevice, Keeps
  <2> QED BY <1>2, <2>1, <2>2, CanonicalSubmits
<1>5. CASE ProposeDevice(c) \/ OpenProject(c)
  <2>1. PICK key \in NextKeys, graph \in Graph, purpose \in Proposing :
          /\ ToSubmit(c, purpose, [key |-> key, graph |-> graph])
          /\ purpose = "switch" => writer' = c
    BY <1>5 DEF ProposeDevice, OpenProject, Proposing
  <2>2. core' = core /\ machine' = machine /\ (writer' = writer \/ writer = None)
    BY <1>5 DEF ProposeDevice, OpenProject
  <2>3. [key |-> key, graph |-> graph].key.sequence = core.key.sequence + 1
    BY DEF NextKeys
  <2> QED BY <1>2, <2>1, <2>2, <2>3, NextSubmits
<1>6. CASE SubmitProjection(c)
  <2> DEFINE canonical == call[c].purpose \notin Proposing
             timed == call[c].purpose \notin Untimed
             observed == GenerationObserved(machine, native.generation)
             submitted == Submit(observed, call[c].key, call[c].graph, timed, canonical)
  <2>1. call[c].at = "submit" /\ call[c] \in Call /\ call[c].key.sequence \in Nat /\ core' = core
    BY <1>6 DEF SubmitProjection
  <2>2. \/ machine' = RemoveWaiter(submitted, submitted.next) /\ \E ok \in BOOLEAN : Return(c, ok)
        \/ /\ machine' = submitted /\ writer' = writer
           /\ call' = [call EXCEPT ![c].at = "waiting", ![c].operation = submitted.next]
    BY <1>6 DEF SubmitProjection
  <2>3. "canonical" \in DOMAIN observed /\ observed.canonical = machine.canonical
    BY <1>1 DEF Keeps
  <2>4. /\ "canonical" \in DOMAIN submitted
        /\ \/ submitted.canonical = machine.canonical
           \/ /\ canonical
              /\ submitted.canonical = [key |-> call[c].key, graph |-> call[c].graph]
              /\ machine.canonical = None \/ ~(call[c].key.sequence < machine.canonical.key.sequence)
    <3> HIDE DEF observed
    <3>1. canonical \in BOOLEAN
      OBVIOUS
    <3> HIDE DEF canonical, timed
    <3> QED BY <2>3, <3>1, SubmitOrders
  <2> HIDE DEF submitted, observed
  <2>5. machine'.canonical = submitted.canonical
    BY <2>2, <2>4, AnswersKeep DEF Keeps
  <2>6. canonical => call[c].key.sequence <= core.key.sequence
    BY <2>1 DEF OrderInv, NotAhead
  <2>8. machine'.canonical # None => machine'.canonical.key.sequence <= core.key.sequence + 1
    <3>1. CASE machine'.canonical # machine.canonical
      <4>1. canonical /\ machine'.canonical.key = call[c].key
        BY <2>4, <2>5, <3>1
      <4> QED BY <2>1, <2>6, <4>1
    <3> QED BY <1>2, <3>1
  <2>9. Advances
    <3>1. CASE machine'.canonical # machine.canonical
      <4>1. /\ machine'.canonical = [key |-> call[c].key, graph |-> call[c].graph]
            /\ machine'.canonical.key = call[c].key
            /\ machine.canonical = None \/ ~(call[c].key.sequence < machine.canonical.key.sequence)
        BY <2>4, <2>5, <3>1
      <4>2. machine'.canonical # None
        BY <2>1, <4>1, NoneAssumption DEF Call, Intent
      <4> QED BY <2>1, <4>1, <4>2 DEF Advances
    <3> QED BY <1>2, <3>1
  <2>10. ASSUME call' = [call EXCEPT ![c].at = "waiting", ![c].operation = submitted.next], writer' = writer
         PROVE  OrderInv'
    <3> DEFINE x == [call[c] EXCEPT !.at = "waiting", !.operation = submitted.next]
    <3>1. x.at = "waiting" /\ x.purpose = call[c].purpose /\ x.key = call[c].key
      BY <2>1 DEF Call
    <3>2. call' = [call EXCEPT ![c] = x]
      BY <2>10
    <3> HIDE DEF x
    <3>3. x.purpose = "switch" => writer' = c /\ x.key.sequence = core'.key.sequence + 1
      BY <2>1, <2>10, <3>1 DEF OrderInv, SwitchIsNext
    <3> QED BY <2>1, <2>8, <2>10, <3>1, <3>2, <3>3, CallMoves
  <2>11. ASSUME NEW ok \in BOOLEAN, Return(c, ok) PROVE OrderInv'
    BY <2>1, <2>8, <2>11, ReturnOrders
  <2> QED BY <2>2, <2>9, <2>10, <2>11
<1>7. CASE PollGeneration(c)
  BY <1>1, <1>7, OthersMove DEF PollGeneration
<1>8. CASE CollectResult(c)
  <2>1. machine'.canonical = machine.canonical
    BY <1>8, AnswersKeep DEF CollectResult, Keeps
  <2>2. PICK ok \in BOOLEAN : Return(c, ok)
    BY <1>8 DEF CollectResult
  <2>3. call[c].at # "idle" /\ core' = core
    BY <1>8 DEF CollectResult
  <2> QED BY <1>2, <2>1, <2>2, <2>3, ReturnOrders
<1>9. CASE GiveUp(c) \/ ReportDeadline(c)
  <2>1. PICK at \in {"waiting", "expiring"} : call' = [call EXCEPT ![c].at = at]
    BY <1>9 DEF GiveUp, ReportDeadline
  <2>2. call[c].at # "idle" /\ core' = core /\ writer' = writer
    BY <1>9 DEF GiveUp, ReportDeadline
  <2>3. machine'.canonical = machine.canonical
    <3>1. machine' \in {machine, DeadlineReached(machine, call[c].operation)}
      BY <1>9 DEF GiveUp, ReportDeadline
    <3> QED BY <3>1, EventsKeep DEF Keeps
  <2> DEFINE x == [call[c] EXCEPT !.at = at]
  <2>4. x.at = at /\ x.purpose = call[c].purpose /\ x.key = call[c].key
    BY <2>2 DEF Call
  <2>5. call' = [call EXCEPT ![c] = x]
    BY <2>1
  <2> HIDE DEF x
  <2>6. x.purpose = "switch" => writer' = c /\ x.key.sequence = core'.key.sequence + 1
    BY <2>2, <2>4 DEF OrderInv, SwitchIsNext
  <2> QED BY <1>2, <2>2, <2>3, <2>4, <2>5, <2>6, CallMoves
<1>10. CASE CommitDevice(c)
  <2>1. machine' = machine /\ writer = None /\ call[c].at # "idle"
    BY <1>10 DEF CommitDevice
  <2>2. CASE core' = [key |-> call[c].key, graph |-> call[c].graph] /\ ToSubmit(c, "edit", core')
             /\ core.key.sequence + 1 = call[c].key.sequence
    <3>1. core'.key.sequence = core.key.sequence + 1
      BY <2>2
    <3> QED BY <1>2, <2>1, <2>2, <3>1, CanonicalSubmits
  <2>3. CASE core' = core /\ ToSubmit(c, "resync", core)
    BY <1>2, <2>1, <2>3, CanonicalSubmits
  <2>4. CASE core' = core /\ call' = [call EXCEPT ![c] = Idle]
    <3>1. Idle.at = "idle"
      BY DEF Idle
    <3> QED BY <1>2, <2>1, <2>4, <3>1, CallMoves
  <2> QED BY <1>10, <2>2, <2>3, <2>4 DEF CommitDevice
<1>11. CASE PromoteProject(c)
  <2> DEFINE observed == GenerationObserved(machine, native.generation)
             key == call[c].key
  <2>1. call[c].at = "promote" /\ call[c] \in Call /\ writer' = writer /\ machine' = Promote(observed, key)
    BY <1>11 DEF PromoteProject
  <2>2. call[c].purpose = "switch" /\ writer = c /\ key.sequence = core.key.sequence + 1
    BY <2>1 DEF OrderInv, SwitchIsNext
  <2>3. observed \in Machine /\ observed.canonical = machine.canonical /\ key \in Key
    <3>1. machine \in Machine /\ native.generation \in Nat
      BY DEF IInv, TypeOK, StateOK
    <3> QED BY <1>1, <2>1, <3>1, GenerationObservedType DEF Keeps, Call
  <2>4. \/ Promotable(observed, key) /\ core' = [key |-> key, graph |-> call[c].graph] /\ ToSubmit(c, "edit", core')
        \/ core' = core /\ ToSubmit(c, "restore", core)
    BY <1>11 DEF PromoteProject
  <2> HIDE DEF observed, key
  <2>5. \/ machine'.canonical = machine.canonical /\ ~Promotable(observed, key)
        \/ machine'.canonical # None /\ machine'.canonical.key = key
    BY <2>1, <2>3, PromoteOrders
  <2>6. Advances
    <3>1. CASE machine'.canonical # None /\ machine'.canonical.key = key
      BY <2>2, <3>1 DEF Advances, OrderInv, NotAhead
    <3> QED BY <1>2, <2>5, <3>1
  <2>7. machine'.canonical # None => machine'.canonical.key.sequence <= core.key.sequence + 1
    BY <1>2, <2>2, <2>5
  <2>8. CASE Promotable(observed, key) /\ core' = [key |-> key, graph |-> call[c].graph] /\ ToSubmit(c, "edit", core')
    <3>1. core'.key.sequence = core.key.sequence + 1
      BY <2>2, <2>8
    <3>2. machine'.canonical # None => machine'.canonical.key.sequence <= core'.key.sequence + 1
      BY <2>7, <2>5, <2>2, <2>8, <3>1
    <3> QED BY <2>1, <2>2, <2>6, <2>8, <3>1, <3>2, CanonicalSubmits
  <2>9. CASE core' = core /\ ToSubmit(c, "restore", core)
    BY <2>1, <2>6, <2>7, <2>9, CanonicalSubmits
  <2> QED BY <2>4, <2>8, <2>9
<1> QED BY <1>3, <1>4, <1>5, <1>6, <1>7, <1>8, <1>9, <1>10, <1>11 DEF CallerStep

\* What the worker, the sidecar and the clock do to it: nothing.
LEMMA EnvironmentOrders ==
    ASSUME IInv, OrderInv,
           WorkerStep \/ Expire \/ FinishAbandoned \/ RestartSidecar \/ QueryStatus
               \/ ReportTransportFailure \/ Shutdown \/ UNCHANGED vars
    PROVE  OrderInv' /\ Advances
<1>1. "canonical" \in DOMAIN machine
  BY SequencesAreTyped
<1>2. UNCHANGED <<core, writer, call>>
  BY DEF WorkerStep, TakeWork, PrepareSnapshot, WaitForIdle, ObserveBeforeReport, ReportPrepared,
         CommitSnapshot, ReportCommitted, DiscardSnapshot, Expire, FinishAbandoned, RestartSidecar,
         QueryStatus, ReportTransportFailure, Shutdown, vars
<1>3. \/ machine' = machine
      \/ \E value : machine' \in {GenerationObserved(machine, value), MarkFailed(machine), Stopped(machine)}
      \/ \E operation, result, passed :
            machine' \in {Prepared(machine, operation, result, passed),
                          Committed(machine, operation, result, passed)}
  BY DEF WorkerStep, TakeWork, PrepareSnapshot, WaitForIdle, ObserveBeforeReport, ReportPrepared,
         CommitSnapshot, ReportCommitted, DiscardSnapshot, Expire, FinishAbandoned, RestartSidecar,
         QueryStatus, ReportTransportFailure, Shutdown, vars
<1>4. Keeps(machine, machine')
  <2>1. Keeps(machine, machine)
    BY <1>1 DEF Keeps
  <2> QED BY <1>1, <1>3, <2>1, EventsKeep, ReportsKeep
<1> QED BY <1>2, <1>4, OthersMove

-----------------------------------------------------------------------------
(* Theorems.                                                               *)

\* Nothing is canonical for the machine at first, and nobody submits.
LEMMA OrderInit == Init => OrderInv
<1>1. NewMachine(1).canonical = None
  BY DEF NewMachine
<1>2. Idle.at = "idle"
  BY DEF Idle
<1> QED BY <1>1, <1>2 DEF Init, OrderInv, NotAhead, SwitchIsNext

LEMMA OrderStep == IInv /\ OrderInv /\ [Next]_vars => OrderInv' /\ Advances
<1> QED BY CallerOrders, EnvironmentOrders DEF Next

\* The order of the keys holds in every state.
THEOREM OrderInvariance == Spec => []OrderInv
<1> QED BY Invariance, OrderInit, OrderStep, PTL DEF Spec

\* CanonicalAdvances: no submission, promotion, restored Project or repair makes
\* an older canonical state the machine's intent.
THEOREM CanonicalOrder == Spec => CanonicalAdvances
<1>1. Advances => [machine.canonical # None =>
                      /\ machine'.canonical # None
                      /\ machine'.canonical.key.sequence >= machine.canonical.key.sequence]_vars
  BY DEF Advances
<1> QED BY <1>1, Invariance, OrderInvariance, OrderStep, PTL DEF Spec, CanonicalAdvances
-----------------------------------------------------------------------------
(* Waiters.                                                                *)

\* What keeps waiter w of m waiting, when the deadlines of `passed` have passed.
Served(m, w, passed) ==
    \/ w.result # None
    \/ RunsOperation(m, w.operation)
    \/ m.queued # None /\ m.queued.operation = w.operation
    \/ w.operation # w.id /\ w.operation \in passed

\* All waiters of m but those of `but` are served, and a stopped machine queues
\* nothing.
ServedBut(m, but, passed) ==
    /\ \A w \in m.waiters : w \in but \/ Served(m, w, passed)
    /\ m.stopped => m.queued = None

\* Whoever reports a deadline has passed it.
ExpiringIsLate == \A c \in Caller : call[c].at = "expiring" => call[c].operation \in late

WaiterInv == ServedBut(machine, {}, late) /\ ExpiringIsLate

-----------------------------------------------------------------------------
(* Operators that only answer.                                             *)

\* n has the work of m, and its waiters: the unanswered ones are unanswered
\* waiters of m outside `answered`.
Answers(m, n, answered) ==
    /\ n.job = m.job /\ n.queued = m.queued /\ n.stopped = m.stopped
    /\ \A w \in n.waiters : w.result # None \/ (w \in m.waiters /\ w \notin answered)

LEMMA CompleteWaitersAnswers ==
    ASSUME NEW m \in Machine, NEW ids, NEW result \in Result
    PROVE  Answers(m, CompleteWaiters(m, ids, result), {w \in m.waiters : w.id \in ids})
<1> DEFINE n == CompleteWaiters(m, ids, result)
<1>1. n.job = m.job /\ n.queued = m.queued /\ n.stopped = m.stopped
  BY CompleteWaitersType
<1>2. n.waiters = {IF w.id \in ids /\ w.result = None THEN [w EXCEPT !.result = result] ELSE w : w \in m.waiters}
  BY DEF CompleteWaiters, Machine
<1>3. ASSUME NEW w \in m.waiters PROVE [w EXCEPT !.result = result].result # None
  <2>1. w \in Waiter
    BY DEF Machine
  <2>2. result # None
    BY NoneAssumption
  <2> QED BY <2>1, <2>2 DEF Waiter
<1>4. ASSUME NEW w \in n.waiters, w.result = None
      PROVE  w \in m.waiters /\ w.id \notin ids
  <2>1. PICK v \in m.waiters : w = IF v.id \in ids /\ v.result = None THEN [v EXCEPT !.result = result] ELSE v
    BY <1>2, <1>4
  <2> QED BY <1>3, <1>4, <2>1
<1> HIDE DEF n
<1> SUFFICES Answers(m, n, {w \in m.waiters : w.id \in ids})
  BY DEF n
<1> QED BY <1>1, <1>4 DEF Answers

LEMMA CompleteOperationAnswers ==
    ASSUME NEW m \in Machine, NEW operation, NEW result \in Result
    PROVE  Answers(m, CompleteOperation(m, operation, result), {w \in m.waiters : w.operation = operation})
<1> DEFINE ids == {w.id : w \in {v \in m.waiters : v.operation = operation}}
<1>1. Answers(m, CompleteWaiters(m, ids, result), {w \in m.waiters : w.id \in ids})
  BY CompleteWaitersAnswers
<1>2. \A w \in m.waiters : w.operation = operation => w.id \in ids
  OBVIOUS
<1> QED BY <1>1, <1>2 DEF Answers, CompleteOperation

\* Answering leaves everybody else served.
LEMMA AnswersServe ==
    ASSUME NEW m, NEW n, NEW answered, Answers(m, n, answered), NEW but, NEW passed,
           ServedBut(m, but, passed)
    PROVE  ServedBut(n, but \ answered, passed)
BY DEF Answers, ServedBut, Served, RunsOperation

\* Only the work counts.
LEMMA WorkServes ==
    ASSUME NEW m, NEW n, NEW but, NEW passed, ServedBut(m, but, passed),
           n.waiters \subseteq m.waiters, n.stopped = m.stopped,
           m.job # None => n.job # None /\ n.job.request.operation = m.job.request.operation,
           m.queued # None => n.queued # None /\ n.queued.operation = m.queued.operation,
           m.queued = None => n.queued = None
    PROVE  ServedBut(n, but, passed)
BY DEF ServedBut, Served, RunsOperation

-----------------------------------------------------------------------------
(* Jobs.                                                                   *)

\* The next job is the queued request, and those who waited for the finished
\* one are answered.
LEMMA FinishServes ==
    ASSUME NEW m \in Machine, m.job # None, NEW passed, ServedBut(m, {}, passed),
           NEW result \in Result, NEW r \in Machine, r.waiters = m.waiters,
           r.queued = m.queued, r.stopped = m.stopped
    PROVE  ServedBut(StartQueued(CompleteOperation(r, m.job.request.operation, result)), {}, passed)
<1> DEFINE operation == m.job.request.operation
           told == CompleteOperation(r, operation, result)
           n == StartQueued(told)
<1>1. told \in Machine /\ told.queued = m.queued /\ told.stopped = m.stopped
  BY CompleteOperationType
<1>2. Answers(r, told, {w \in r.waiters : w.operation = operation})
  BY CompleteOperationAnswers
<1> SUFFICES ServedBut(n, {}, passed)
  OBVIOUS
<1> HIDE DEF told
<1>3. ASSUME NEW w \in told.waiters, w.result = None
      PROVE  \/ told.queued # None /\ told.queued.operation = w.operation
             \/ w.operation # w.id /\ w.operation \in passed
  <2>1. w \in m.waiters /\ w.operation # operation
    BY <1>2, <1>3 DEF Answers
  <2>2. ~RunsOperation(m, w.operation)
    BY <2>1 DEF RunsOperation
  <2> QED BY <1>1, <1>3, <2>1, <2>2 DEF ServedBut, Served
<1>4. CASE ~told.stopped /\ told.queued # None
  <2>1. /\ n.waiters = told.waiters /\ n.queued = None
        /\ n.job # None /\ n.job.request = told.queued
    <3> DEFINE taken == [told EXCEPT !.queued = None]
    <3>1. taken \in Machine /\ told.queued \in Request
          /\ taken.waiters = told.waiters /\ taken.queued = None
      BY <1>1, <1>4 DEF Machine
    <3>2. n = Start(taken, told.queued)
      BY <1>4 DEF StartQueued
    <3> HIDE DEF taken, n
    <3>3. n.job # None
      BY <3>1, <3>2, StartType
    <3>4. n.waiters = taken.waiters /\ n.queued = taken.queued /\ n.job.request = told.queued
      BY <3>1, <3>2 DEF Start, Machine
    <3> QED BY <3>1, <3>3, <3>4
  <2> HIDE DEF n
  <2> QED BY <1>3, <2>1 DEF ServedBut, Served, RunsOperation
<1>5. CASE told.stopped \/ told.queued = None
  <2>1. told.queued = None
    BY <1>1, <1>5 DEF ServedBut
  <2>2. n.waiters = told.waiters /\ n.queued = told.queued
    BY <1>1, <1>5 DEF StartQueued, Machine
  <2> HIDE DEF n
  <2> QED BY <1>3, <2>1, <2>2 DEF ServedBut, Served
<1> QED BY <1>4, <1>5

LEMMA FinishOkServes ==
    ASSUME NEW m \in Machine, m.job # None, NEW passed, ServedBut(m, {}, passed)
    PROVE  ServedBut(FinishOk(m), {}, passed)
<1> DEFINE installed == InstallCommitted(m)
           recorded == IF installed.active.origin = Canonical THEN [installed EXCEPT !.error = None] ELSE installed
<1>1. /\ installed \in Machine /\ installed.queued = m.queued
      /\ installed.waiters = m.waiters /\ installed.stopped = m.stopped
  BY InstallCommittedType DEF InstallCommitted, Machine
<1> HIDE DEF installed
<1>2. /\ recorded \in Machine /\ recorded.queued = m.queued
      /\ recorded.waiters = m.waiters /\ recorded.stopped = m.stopped
  BY <1>1 DEF Machine
<1>3. FinishOk(m) = StartQueued(CompleteOperation(recorded, m.job.request.operation, "ok"))
  BY DEF FinishOk, installed
<1> HIDE DEF recorded
<1>4. "ok" \in Result
  BY DEF Result
<1> QED BY <1>2, <1>3, <1>4, FinishServes

LEMMA FinishErrorServes ==
    ASSUME NEW m \in Machine, m.job # None, NEW passed, ServedBut(m, {}, passed), NEW error \in Error
    PROVE  /\ ServedBut(FinishError(m, error), {}, passed)
           /\ ServedBut(FinishError(InstallCommitted(m), error), {}, passed)
<1>1. ASSUME NEW k \in Machine, k.job = m.job, k.queued = m.queued, k.waiters = m.waiters, k.stopped = m.stopped
      PROVE  ServedBut(FinishError(k, error), {}, passed)
  <2> DEFINE recorded == IF /\ \/ k.job.request.origin = Canonical
                               \/ IsIntended(k, k.job.request.graph)
                            /\ k.queued = None
                            /\ k.job.environment = k.environment
                            /\ error # "superseded"
                         THEN [k EXCEPT !.error = error] ELSE k
  <2>1. /\ recorded \in Machine /\ recorded.queued = k.queued
        /\ recorded.waiters = k.waiters /\ recorded.stopped = k.stopped
    BY DEF Machine
  <2>2. FinishError(k, error) = StartQueued(CompleteOperation(recorded, k.job.request.operation, error))
    BY DEF FinishError
  <2>3. error \in Result /\ ServedBut(k, {}, passed)
    BY <1>1, WorkServes DEF Result
  <2> HIDE DEF recorded
  <2> QED BY <1>1, <2>1, <2>2, <2>3, FinishServes
<1>2. /\ InstallCommitted(m) \in Machine
      /\ InstallCommitted(m).job = m.job /\ InstallCommitted(m).queued = m.queued
      /\ InstallCommitted(m).waiters = m.waiters /\ InstallCommitted(m).stopped = m.stopped
  BY InstallCommittedType DEF InstallCommitted, Machine
<1> QED BY <1>1, <1>2

-----------------------------------------------------------------------------
(* The other operators.                                                    *)

\* A machine that queues nothing and has answered everybody forgets nobody.
LEMMA AllAnswered ==
    ASSUME NEW m \in Machine, m.queued = None, NEW result \in Result, NEW passed
    PROVE  ServedBut(CompleteWaiters(m, WaiterIds(m), result), {}, passed)
<1> DEFINE ids == WaiterIds(m)
<1>1. Answers(m, CompleteWaiters(m, ids, result), {w \in m.waiters : w.id \in ids})
  BY CompleteWaitersAnswers
<1>2. \A w \in m.waiters : w.id \in ids
  BY DEF WaiterIds
<1> QED BY <1>1, <1>2 DEF Answers, ServedBut, Served

LEMMA InvalidateServes ==
    ASSUME NEW m \in Machine, NEW error \in Error, NEW passed
    PROVE  ServedBut(Invalidate(m, error), {}, passed)
<1> DEFINE cleared == [m EXCEPT !.active = None, !.queued = None, !.error = None, !.target = None]
<1>1. cleared \in Machine /\ cleared.queued = None /\ WaiterIds(cleared) = WaiterIds(m)
  BY DEF Machine, WaiterIds
<1>2. Invalidate(m, error) = CompleteWaiters(cleared, WaiterIds(m), error)
  BY DEF Invalidate
<1> HIDE DEF cleared
<1>3. error \in Result
  BY DEF Result
<1> QED BY <1>1, <1>2, <1>3, AllAnswered

LEMMA EnvironmentServes ==
    ASSUME NEW m \in Machine, NEW passed, ServedBut(m, {}, passed), NEW generation \in Nat
    PROVE  /\ ServedBut(GenerationObserved(m, generation), {}, passed)
           /\ ServedBut(AudioEnvironmentAdvanced(m), {}, passed)
<1> DEFINE moved(e) == [m EXCEPT !.environment = e]
<1>1. m.environment \in Environment
  BY DEF Machine
<1>2. ASSUME NEW e \in Environment PROVE moved(e) \in Machine
  BY <1>2 DEF Machine
<1>3. ServedBut(GenerationObserved(m, generation), {}, passed)
  <2> DEFINE e == [generation |-> generation, revision |-> m.environment.revision + 1]
  <2>1. e \in Environment
    BY <1>1 DEF Environment
  <2>2. GenerationObserved(m, generation) \in {m, Invalidate(moved(e), "generationChanged")}
    BY DEF GenerationObserved
  <2>3. moved(e) \in Machine
    BY <1>2, <2>1
  <2>4. "generationChanged" \in Error
    BY DEF Error
  <2> HIDE DEF moved, e
  <2> QED BY <2>2, <2>3, <2>4, InvalidateServes
<1>4. ServedBut(AudioEnvironmentAdvanced(m), {}, passed)
  <2> DEFINE n == [m EXCEPT !.environment.revision = @ + 1]
  <2>1. [m.environment EXCEPT !.revision = @ + 1] \in Environment
    BY <1>1 DEF Environment
  <2>2. n \in Machine
    BY <2>1 DEF Machine
  <2>3. AudioEnvironmentAdvanced(m) = Invalidate(n, "cancelled")
    BY DEF AudioEnvironmentAdvanced
  <2>4. "cancelled" \in Error
    BY DEF Error
  <2> HIDE DEF n
  <2> QED BY <2>2, <2>3, <2>4, InvalidateServes
<1> QED BY <1>3, <1>4

LEMMA EventsServe ==
    ASSUME NEW m \in Machine, NEW passed, ServedBut(m, {}, passed)
    PROVE  /\ \A id : ServedBut(RemoveWaiter(m, id), {}, passed)
           /\ ServedBut(MarkFailed(m), {}, passed)
           /\ \A key : ServedBut(Promote(m, key), {}, passed)
           /\ ServedBut(Stopped(m), {}, passed)
<1>1. ASSUME NEW id PROVE ServedBut(RemoveWaiter(m, id), {}, passed)
  <2>1. /\ RemoveWaiter(m, id).waiters \subseteq m.waiters /\ RemoveWaiter(m, id).stopped = m.stopped
        /\ RemoveWaiter(m, id).job = m.job /\ RemoveWaiter(m, id).queued = m.queued
    BY DEF RemoveWaiter, Machine
  <2> QED BY <2>1, WorkServes
<1>2. ServedBut(MarkFailed(m), {}, passed)
  <2>1. /\ MarkFailed(m).waiters = m.waiters /\ MarkFailed(m).stopped = m.stopped
        /\ MarkFailed(m).job = m.job /\ MarkFailed(m).queued = m.queued
    BY DEF MarkFailed, Machine
  <2> QED BY <2>1, WorkServes
<1>3. ASSUME NEW key PROVE ServedBut(Promote(m, key), {}, passed)
  <2>1. /\ Promote(m, key).waiters = m.waiters /\ Promote(m, key).stopped = m.stopped
        /\ Promote(m, key).job = m.job /\ Promote(m, key).queued = m.queued
    BY DEF Promote, Machine
  <2> QED BY <2>1, WorkServes
<1>4. ServedBut(Stopped(m), {}, passed)
  <2> DEFINE closed == [m EXCEPT !.stopped = TRUE, !.queued = None]
  <2>1. closed \in Machine /\ closed.queued = None /\ WaiterIds(closed) = WaiterIds(m)
    BY DEF Machine, WaiterIds
  <2>2. Stopped(m) = CompleteWaiters(closed, WaiterIds(m), "shuttingDown")
    BY DEF Stopped
  <2>3. "shuttingDown" \in Result
    BY DEF Result, Error
  <2> HIDE DEF closed
  <2> QED BY <2>1, <2>2, <2>3, AllAnswered
<1> QED BY <1>1, <1>2, <1>3, <1>4

\* A deadline answers its own waiter, and drops the queued request of others
\* only when theirs has passed.
LEMMA DeadlineServes ==
    ASSUME NEW m \in Machine, NEW passed, ServedBut(m, {}, passed), NEW operation \in passed
    PROVE  ServedBut(DeadlineReached(m, operation), {}, passed)
<1> DEFINE expired == IF RunsOperation(m, operation) THEN [m EXCEPT !.job.request.timed = TRUE] ELSE m
           told == CompleteWaiters(expired, {operation}, "timeout")
           n == DeadlineReached(m, operation)
<1>1. /\ expired \in Machine /\ expired.waiters = m.waiters
      /\ expired.queued = m.queued /\ expired.stopped = m.stopped
      /\ m.job # None => expired.job # None /\ expired.job.request.operation = m.job.request.operation
  <2>1. CASE RunsOperation(m, operation)
    <3> DEFINE job == [m.job EXCEPT !.request.timed = TRUE]
    <3>1. m.job \in Job
      BY <2>1 DEF RunsOperation, Machine
    <3>2. job \in Job /\ job.request.operation = m.job.request.operation
      BY <3>1 DEF Job, Request
    <3>3. expired = [m EXCEPT !.job = job]
      BY <2>1 DEF Machine
    <3> HIDE DEF job, expired
    <3>4. job # None
      BY <3>2, NoneAssumption
    <3> QED BY <3>2, <3>3, <3>4 DEF Machine
  <2>2. CASE ~RunsOperation(m, operation)
    BY <2>2
  <2> QED BY <2>1, <2>2
<1>2. "timeout" \in Result
  BY DEF Result, Error
<1>3. ServedBut(expired, {}, passed)
  <2> HIDE DEF expired
  <2> QED BY <1>1, WorkServes
<1> HIDE DEF expired
<1>4. told \in Machine /\ Answers(expired, told, {w \in expired.waiters : w.id \in {operation}})
  BY <1>1, <1>2, CompleteWaitersType, CompleteWaitersAnswers
<1>5. ServedBut(told, {}, passed)
  BY <1>3, <1>4, AnswersServe
<1>6. CASE ~(m.queued # None /\ m.queued.operation = operation)
  BY <1>5, <1>6 DEF DeadlineReached, expired
<1>7. CASE m.queued # None /\ m.queued.operation = operation
  <2>1. n = [told EXCEPT !.queued = None]
    BY <1>7 DEF DeadlineReached, expired
  <2>2. told.queued = m.queued /\ told.job = expired.job
    BY <1>1, <1>4 DEF Answers
  <2>3. \A w \in told.waiters : w.result # None \/ w.id # operation
    BY <1>4 DEF Answers
  <2>4. n.waiters = told.waiters /\ n.queued = None /\ n.job = told.job
    BY <1>4, <2>1 DEF Machine
  <2> HIDE DEF told, n
  <2>5. ASSUME NEW w \in n.waiters PROVE Served(n, w, passed)
    BY <1>5, <1>7, <2>2, <2>3, <2>4 DEF ServedBut, Served, RunsOperation
  <2>6. ServedBut(n, {}, passed)
    BY <2>4, <2>5 DEF ServedBut
  <2> QED BY <2>6 DEF n
<1> QED BY <1>6, <1>7

\* A native result ends the job, or leaves it running.
LEMMA ReportsServe ==
    ASSUME NEW m \in Machine, NEW passed, ServedBut(m, {}, passed),
           NEW operation, NEW result \in Result \union {"retryable"}
    PROVE  /\ ServedBut(Prepared(m, operation, result, passed), {}, passed)
           /\ ServedBut(Committed(m, operation, result, passed), {}, passed)
<1>1. CASE ~RunsOperation(m, operation)
  BY <1>1 DEF Prepared, Committed
<1>2. CASE RunsOperation(m, operation)
  <2>1. m.job # None
    BY <1>2 DEF RunsOperation
  <2>2. ASSUME NEW phase \in {"preparing", "committing"}
        PROVE  ServedBut([m EXCEPT !.job.phase = phase], {}, passed)
    <3> DEFINE job == [m.job EXCEPT !.phase = phase]
               n == [m EXCEPT !.job.phase = phase]
    <3>1. m.job \in Job
      BY <2>1 DEF Machine
    <3>2. job.request = m.job.request /\ job \in Job
      BY <3>1 DEF Job
    <3>3. n = [m EXCEPT !.job = job]
      BY DEF Machine
    <3> HIDE DEF n, job
    <3>4. job # None
      BY <3>2, NoneAssumption
    <3>5. n.waiters = m.waiters /\ n.queued = m.queued /\ n.stopped = m.stopped /\ n.job = job
      BY <3>3 DEF Machine
    <3>6. ServedBut(n, {}, passed)
      BY <3>2, <3>4, <3>5, WorkServes
    <3> QED BY <3>6 DEF n
  <2>3. ASSUME NEW error \in Error
        PROVE  ServedBut(FinishError(m, error), {}, passed)
               /\ ServedBut(FinishError(InstallCommitted(m), error), {}, passed)
    BY <2>1, FinishErrorServes
  <2>4. ServedBut(FinishOk(m), {}, passed)
    BY <2>1, FinishOkServes
  <2>5. {"superseded", "failed"} \subseteq Error /\ (result \notin {"ok", "retryable"} => result \in Error)
    BY DEF Result, Error
  <2>6. Prepared(m, operation, result, passed)
          \in {m, [m EXCEPT !.job.phase = "committing"], FinishError(m, "superseded")}
              \union {FinishError(m, error) : error \in Error}
    BY <1>2, <2>5 DEF Prepared
  <2>7. Committed(m, operation, result, passed)
          \in {FinishOk(m), FinishError(InstallCommitted(m), "superseded"), [m EXCEPT !.job.phase = "preparing"]}
              \union {FinishError(m, error) : error \in Error}
    BY <1>2, <2>5 DEF Committed
  <2> QED BY <2>2, <2>3, <2>4, <2>5, <2>6, <2>7
<1> QED BY <1>1, <1>2

-----------------------------------------------------------------------------
(* Submissions.                                                            *)

\* The canonical request that waits is dropped, its waiters are answered.
LEMMA SupersedeServes ==
    ASSUME NEW m \in Machine, NEW but, NEW passed, ServedBut(m, but, passed)
    PROVE  ServedBut(SupersedeQueuedCanonical(m), but, passed)
<1>1. CASE m.queued # None /\ m.queued.origin = Canonical
  <2> DEFINE dropped == [m EXCEPT !.queued = None]
             operation == m.queued.operation
             n == CompleteOperation(dropped, operation, "superseded")
  <2>1. /\ dropped \in Machine /\ dropped.waiters = m.waiters /\ dropped.queued = None
        /\ dropped.job = m.job /\ dropped.stopped = m.stopped
    BY DEF Machine
  <2>2. "superseded" \in Result
    BY DEF Result, Error
  <2> HIDE DEF dropped
  <2>3. Answers(dropped, n, {w \in dropped.waiters : w.operation = operation})
    BY <2>1, <2>2, CompleteOperationAnswers
  <2> HIDE DEF n
  <2>4. ServedBut(n, but, passed)
    BY <2>1, <2>3 DEF Answers, ServedBut, Served, RunsOperation
  <2> QED BY <1>1, <2>4 DEF SupersedeQueuedCanonical, n, dropped
<1>2. CASE ~(m.queued # None /\ m.queued.origin = Canonical)
  BY <1>2 DEF SupersedeQueuedCanonical
<1> QED BY <1>1, <1>2

\* An alias waits for the request it joined.
LEMMA AliasServes ==
    ASSUME NEW m \in Machine, NEW id, NEW operation, NEW passed,
           NEW but, \A w \in but : w.id = id, ServedBut(m, but, passed),
           RunsOperation(m, operation) \/ (m.queued # None /\ m.queued.operation = operation)
    PROVE  ServedBut(Alias(m, id, operation), {}, passed)
<1> DEFINE n == Alias(m, id, operation)
<1>1. n.job = m.job /\ n.queued = m.queued /\ n.stopped = m.stopped
      /\ n.waiters = {IF w.id = id THEN [w EXCEPT !.operation = operation] ELSE w : w \in m.waiters}
  BY DEF Alias, Machine
<1>2. \A w \in m.waiters : [w EXCEPT !.operation = operation].operation = operation
  BY DEF Machine, Waiter
<1> SUFFICES ServedBut(n, {}, passed)
  OBVIOUS
<1> HIDE DEF n
<1>3. ASSUME NEW w \in n.waiters PROVE Served(n, w, passed)
  <2>1. PICK v \in m.waiters : w = IF v.id = id THEN [v EXCEPT !.operation = operation] ELSE v
    BY <1>1
  <2> QED BY <1>1, <1>2, <2>1 DEF ServedBut, Served, RunsOperation
<1> QED BY <1>1, <1>3 DEF ServedBut

\* A request becomes the job, or waits in the place of the one it supersedes.
LEMMA EnqueueServes ==
    ASSUME NEW m \in Machine, NEW request \in Request, NEW passed, ~m.stopped,
           NEW but, \A w \in but : w.operation = request.operation, ServedBut(m, but, passed)
    PROVE  ServedBut(Enqueue(m, request), {}, passed)
<1>1. CASE m.job = None
  <2>1. /\ Start(m, request).waiters = m.waiters /\ Start(m, request).queued = m.queued
        /\ Start(m, request).stopped = m.stopped /\ Start(m, request).job.request = request
    BY DEF Start, Machine
  <2>2. Start(m, request).job # None
    BY StartType
  <2> QED BY <1>1, <2>1, <2>2 DEF Enqueue, ServedBut, Served, RunsOperation
<1>2. CASE m.job # None
  <2> DEFINE replaced == [m EXCEPT !.queued = request]
  <2>1. /\ replaced \in Machine /\ replaced.waiters = m.waiters /\ replaced.queued = request
        /\ replaced.job = m.job /\ replaced.stopped = m.stopped
    BY DEF Machine
  <2>2. request # None
    BY NoneAssumption
  <2>3. "superseded" \in Result
    BY DEF Result, Error
  <2> HIDE DEF replaced
  <2>4. CASE m.queued = None
    <3>1. ServedBut(replaced, {}, passed)
      BY <2>1, <2>2, <2>4 DEF ServedBut, Served, RunsOperation
    <3> QED BY <1>2, <2>4, <3>1 DEF Enqueue, replaced
  <2>5. CASE m.queued # None
    <3> DEFINE operation == m.queued.operation
               n == CompleteOperation(replaced, operation, "superseded")
    <3>1. Answers(replaced, n, {w \in replaced.waiters : w.operation = operation})
      BY <2>1, <2>3, CompleteOperationAnswers
    <3> HIDE DEF n
    <3>2. ServedBut(n, {}, passed)
      BY <2>1, <2>2, <3>1 DEF Answers, ServedBut, Served, RunsOperation
    <3> QED BY <1>2, <2>5, <3>2 DEF Enqueue, replaced, n
  <2> QED BY <2>4, <2>5
<1> QED BY <1>1, <1>2

\* A submission adds one waiter, and serves or answers it.
LEMMA SubmitServes ==
    ASSUME NEW m \in Machine, NEW key \in Key, NEW graph \in Graph, NEW timed \in BOOLEAN,
           NEW canonical \in BOOLEAN, NEW passed, ServedBut(m, {}, passed)
    PROVE  ServedBut(Submit(m, key, graph, timed, canonical), {}, passed)
<1> DEFINE operation == m.next + 1
           outcome == SubmitOutcome(m, key, graph, canonical)
           waiter == [id |-> operation, operation |-> operation, key |-> key, result |-> None]
           waiting == [m EXCEPT !.next = operation, !.waiters = m.waiters \union {waiter}]
           intended == IF canonical
                       THEN [waiting EXCEPT !.canonical = [key |-> key, graph |-> graph],
                                            !.error = None,
                                            !.operation = operation,
                                            !.target = key]
                       ELSE waiting
           request == [operation |-> operation, key |-> key, graph |-> graph,
                       origin |-> IF canonical THEN Canonical ELSE operation,
                       timed |-> timed]
           base == SupersedeQueuedCanonical(intended)
           submitted == Submit(m, key, graph, timed, canonical)
<1>1. operation \in Nat \ {0} /\ waiter \in Waiter
  BY DEF Machine, Waiter
<1>2. /\ waiting \in Machine /\ waiting.waiters = m.waiters \union {waiter}
      /\ waiting.job = m.job /\ waiting.queued = m.queued /\ waiting.stopped = m.stopped
  <2>1. m.waiters \union {waiter} \in SUBSET Waiter
    BY <1>1 DEF Machine
  <2> HIDE DEF operation, waiter
  <2> QED BY <1>1, <2>1 DEF Machine
<1>3. /\ intended \in Machine /\ intended.waiters = m.waiters \union {waiter}
      /\ intended.job = m.job /\ intended.queued = m.queued /\ intended.stopped = m.stopped
  <2>1. [key |-> key, graph |-> graph] \in Intent /\ operation \in Nat
    BY <1>1 DEF Intent
  <2>2. CASE canonical
    <3>1. intended = [waiting EXCEPT !.canonical = [key |-> key, graph |-> graph], !.error = None,
                                     !.operation = operation, !.target = key]
      BY <2>2
    <3>2. key \in Key /\ waiting \in Machine
      BY <1>2
    <3> HIDE DEF operation, waiting, waiter, intended
    <3>3. intended \in Machine /\ SameWorkload(intended, waiting)
      BY <2>1, <3>1, <3>2, IntentSet
    <3> QED BY <1>2, <3>3 DEF SameWorkload
  <2>3. CASE ~canonical
    BY <1>2, <2>3
  <2> QED BY <2>2, <2>3
<1>4. request \in Request /\ request.operation = operation
  BY <1>1 DEF Request, Origin, Canonical
<1>5. waiter.id = operation /\ waiter.operation = operation
  OBVIOUS
<1>6. submitted = CASE outcome \in {"shuttingDown", "superseded"} ->
                         CompleteWaiters(waiting, {operation}, outcome)
                    [] outcome = "adopted" ->
                         CompleteWaiters([base EXCEPT !.active.key = key, !.active.origin = Canonical],
                                         {operation}, "ok")
                    [] outcome = "joinsJob" -> Alias(base, operation, m.job.request.operation)
                    [] outcome = "joinsQueued" ->
                         [Alias(intended, operation, m.queued.operation) EXCEPT
                              !.queued.key = key, !.queued.origin = Canonical]
                    [] OTHER -> Enqueue(intended, request)
  BY DEF Submit
<1>7. outcome \in {"shuttingDown", "superseded", "adopted", "joinsJob", "joinsQueued", "queued"}
  BY DEF SubmitOutcome, CanonicalOutcome, Machine
<1>8. /\ outcome = "adopted" => m.active # None
      /\ outcome = "joinsJob" => m.job # None
      /\ outcome = "joinsQueued" => m.queued # None
      /\ outcome = "queued" => ~m.stopped
  BY DEF SubmitOutcome, CanonicalOutcome, ActiveHere, Machine
<1> SUFFICES ServedBut(submitted, {}, passed)
  OBVIOUS
<1> HIDE DEF operation, outcome, waiter, waiting, intended, request, submitted
<1>9. ServedBut(waiting, {waiter}, passed) /\ ServedBut(intended, {waiter}, passed)
  BY <1>2, <1>3 DEF ServedBut, Served, RunsOperation
<1>10. ASSUME NEW n \in Machine, ServedBut(n, {waiter}, passed), NEW result \in Result
       PROVE  ServedBut(CompleteWaiters(n, {operation}, result), {}, passed)
  <2> DEFINE answered == {w \in n.waiters : w.id \in {operation}}
             told == CompleteWaiters(n, {operation}, result)
  <2>1. Answers(n, told, answered)
    BY CompleteWaitersAnswers
  <2> HIDE DEF told
  <2>2. ASSUME NEW w \in told.waiters PROVE Served(told, w, passed)
    BY <1>5, <1>10, <2>1 DEF Answers, ServedBut, Served, RunsOperation
  <2>3. told.stopped => told.queued = None
    BY <1>10, <2>1 DEF Answers, ServedBut
  <2>4. ServedBut(told, {}, passed)
    BY <2>2, <2>3 DEF ServedBut
  <2> QED BY <2>4 DEF told
<1>11. CASE outcome \in {"shuttingDown", "superseded"}
  <2>1. outcome \in Result /\ submitted = CompleteWaiters(waiting, {operation}, outcome)
    BY <1>6, <1>11 DEF Result, Error
  <2> QED BY <1>2, <1>9, <1>10, <2>1
<1>12. base \in Machine /\ base.job = m.job /\ base.active = m.active /\ ServedBut(base, {waiter}, passed)
  <2>1. base \in Machine /\ base.job = m.job
    BY <1>3, SupersedeQueuedCanonicalType
  <2>2. base.active = intended.active /\ intended.active = m.active
    BY <1>3, SupersedeQueuedCanonicalType DEF intended, waiting, Machine
  <2> QED BY <1>3, <1>9, <2>1, <2>2, SupersedeServes
<1> HIDE DEF base
<1>13. CASE outcome = "adopted"
  <2> DEFINE active == [base.active EXCEPT !.key = key, !.origin = Canonical]
             adopted == [base EXCEPT !.active = active]
  <2>1. base.active \in ActiveGraph
    BY <1>8, <1>12, <1>13 DEF Machine
  <2>2. [base EXCEPT !.active.key = key, !.active.origin = Canonical] = adopted
    BY <1>12, <2>1 DEF Machine, ActiveGraph
  <2>3. active \in ActiveGraph
    BY <2>1 DEF ActiveGraph, Origin, Canonical
  <2> HIDE DEF active
  <2>4. /\ adopted \in Machine /\ adopted.waiters = base.waiters /\ adopted.job = base.job
        /\ adopted.queued = base.queued /\ adopted.stopped = base.stopped
    BY <1>12, <2>3 DEF Machine
  <2>5. "ok" \in Result
    BY DEF Result
  <2>6. submitted = CompleteWaiters([base EXCEPT !.active.key = key, !.active.origin = Canonical],
                                    {operation}, "ok")
    BY <1>6, <1>13
  <2>7. submitted = CompleteWaiters(adopted, {operation}, "ok")
    BY <2>2, <2>6, Zenon
  <2> HIDE DEF adopted
  <2>8. ServedBut(adopted, {waiter}, passed)
    BY <1>12, <2>4, WorkServes
  <2> QED BY <1>10, <2>4, <2>5, <2>7, <2>8
<1>14. CASE outcome = "joinsJob"
  <2>1. submitted = Alias(base, operation, m.job.request.operation)
    BY <1>6, <1>14
  <2>2. RunsOperation(base, m.job.request.operation)
    BY <1>8, <1>12, <1>14 DEF RunsOperation
  <2>3. \A w \in {waiter} : w.id = operation
    BY <1>5
  <2> QED BY <1>12, <2>1, <2>2, <2>3, AliasServes
<1>15. CASE outcome = "joinsQueued"
  <2> DEFINE aliased == Alias(intended, operation, m.queued.operation)
             queued == [m.queued EXCEPT !.key = key, !.origin = Canonical]
  <2>1. m.queued \in Request
    BY <1>8, <1>15 DEF Machine
  <2>2. m.queued.operation \in Nat \ {0}
    BY <2>1 DEF Request
  <2>3. aliased \in Machine /\ aliased.job = m.job /\ aliased.queued = m.queued
    BY <1>3, <2>2, AliasType
  <2>4. \A w \in {waiter} : w.id = operation
    BY <1>5
  <2>5. ServedBut(aliased, {}, passed)
    BY <1>3, <1>8, <1>9, <1>15, <2>4, AliasServes
  <2>6. submitted = [aliased EXCEPT !.queued.key = key, !.queued.origin = Canonical]
    BY <1>6, <1>15
  <2> HIDE DEF aliased
  <2>7. queued \in Request /\ queued.operation = m.queued.operation
    BY <2>1 DEF Request, Origin, Canonical
  <2>8. submitted = [aliased EXCEPT !.queued = queued]
    BY <2>1, <2>3, <2>6 DEF Machine, Request
  <2> HIDE DEF queued
  <2>9. queued # None /\ m.queued # None
    BY <2>1, <2>7, NoneAssumption
  <2>10. /\ submitted.waiters = aliased.waiters /\ submitted.job = aliased.job
         /\ submitted.queued = queued /\ submitted.stopped = aliased.stopped
    BY <2>3, <2>8 DEF Machine
  <2> QED BY <2>3, <2>5, <2>7, <2>9, <2>10, WorkServes
<1>16. CASE outcome = "queued"
  <2>1. submitted = Enqueue(intended, request)
    BY <1>6, <1>16
  <2>2. \A w \in {waiter} : w.operation = request.operation
    BY <1>4, <1>5
  <2>3. ~intended.stopped
    BY <1>3, <1>8, <1>16
  <2> QED BY <1>3, <1>4, <1>9, <2>1, <2>2, <2>3, EnqueueServes
<1> QED BY <1>7, <1>11, <1>13, <1>14, <1>15, <1>16

-----------------------------------------------------------------------------
(* Steps.                                                                  *)

\* More deadlines pass, and nobody who is served stops being served.
LEMMA LateServes ==
    ASSUME NEW m, NEW but, NEW passed, NEW later, passed \subseteq later, ServedBut(m, but, passed)
    PROVE  ServedBut(m, but, later)
BY DEF ServedBut, Served

LEMMA Shapes ==
    ASSUME IInv
    PROVE  /\ machine \in Machine /\ native.generation \in Nat /\ core \in Intent
           /\ call \in [Caller -> Call \union {Idle}]
           /\ GenerationObserved(machine, native.generation) \in Machine
           /\ worker.at \in {"prepared", "decide", "committed", "conclude"} =>
                worker.result \in Result \union {"retryable"}
<1>1. /\ machine \in Machine /\ native.generation \in Nat /\ core \in Intent
      /\ call \in [Caller -> Call \union {Idle}]
  BY DEF IInv, TypeOK, StateOK
<1> QED BY <1>1, GenerationObservedType DEF IInv, WorkerCarries

\* No caller moves.
LEMMA QuietStep ==
    ASSUME ExpiringIsLate, call' = call, late \subseteq late'
    PROVE  ExpiringIsLate'
BY DEF ExpiringIsLate

\* Nobody reports a deadline who did not.
LEMMA NobodyExpires ==
    ASSUME ExpiringIsLate, late' = late,
           \A c \in Caller : call'[c].at \in {"waiting", "expiring"} => call'[c] = call[c]
    PROVE  ExpiringIsLate'
BY DEF ExpiringIsLate

LEMMA CallerServes ==
    ASSUME IInv, WaiterInv, NEW c \in Caller, CallerStep(c)
    PROVE  WaiterInv'
<1> DEFINE observed == GenerationObserved(machine, native.generation)
<1> USE Shapes
<1>1. /\ ServedBut(machine, {}, late) /\ ExpiringIsLate
      /\ observed \in Machine /\ ServedBut(observed, {}, late)
  BY EnvironmentServes DEF WaiterInv
<1> HIDE DEF observed
<1>2. CASE Edit(c) \/ Resync(c) \/ ChangeAudioDevice(c) \/ ProposeDevice(c) \/ OpenProject(c)
  <2>1. \E purpose \in AllPurposes, next \in Intent : ToSubmit(c, purpose, next)
    BY <1>2 DEF Edit, Resync, ChangeAudioDevice, ProposeDevice, OpenProject, AllPurposes, NextKeys, Intent
  <2>2. late' = late /\ machine' \in {machine, AudioEnvironmentAdvanced(observed)}
    BY <1>2 DEF Edit, Resync, ChangeAudioDevice, ProposeDevice, OpenProject, observed
  <2>3. ServedBut(AudioEnvironmentAdvanced(observed), {}, late)
    BY <1>1, EnvironmentServes
  <2>4. ServedBut(machine', {}, late')
    BY <1>1, <2>2, <2>3
  <2>5. ExpiringIsLate'
    BY <1>1, <2>1, <2>2, ToSubmitType, NobodyExpires
  <2> QED BY <2>4, <2>5 DEF WaiterInv
<1>3. CASE SubmitProjection(c)
  <2> DEFINE timed == call[c].purpose \notin Untimed
             canonical == call[c].purpose \notin Proposing
             submitted == Submit(observed, call[c].key, call[c].graph, timed, canonical)
  <2>1. call[c].at = "submit" /\ call[c].key \in Key /\ call[c].graph \in Graph /\ late' = late
    BY <1>3, BusyCall DEF SubmitProjection
  <2>2. \/ machine' = RemoveWaiter(submitted, submitted.next) /\ \E ok \in BOOLEAN : Return(c, ok)
        \/ /\ machine' = submitted
           /\ call' = [call EXCEPT ![c].at = "waiting", ![c].operation = submitted.next]
    BY <1>3 DEF SubmitProjection, observed
  <2>3. submitted \in Machine /\ ServedBut(submitted, {}, late)
    <3>1. timed \in BOOLEAN /\ canonical \in BOOLEAN
      OBVIOUS
    <3> HIDE DEF timed, canonical
    <3> QED BY <1>1, <2>1, <3>1, SubmitType, SubmitServes
  <2> HIDE DEF submitted
  <2>4. ServedBut(machine', {}, late')
    BY <2>1, <2>2, <2>3, EventsServe
  <2>5. ExpiringIsLate'
    <3>1. CASE \E ok \in BOOLEAN : Return(c, ok)
      BY <1>1, <2>1, <3>1, ReturnType, NobodyExpires
    <3>2. CASE call' = [call EXCEPT ![c].at = "waiting", ![c].operation = submitted.next]
      <4>1. call'[c].at = "waiting"
        BY <2>1, <3>2, BusyCall DEF Call
      <4> QED BY <1>1, <2>1, <3>2, <4>1 DEF ExpiringIsLate
    <3> QED BY <2>2, <3>1, <3>2
  <2> QED BY <2>4, <2>5 DEF WaiterInv
<1>4. CASE PollGeneration(c)
  BY <1>1, <1>4, QuietStep DEF PollGeneration, WaiterInv, observed
<1>5. CASE CollectResult(c)
  <2>1. call[c].at # "idle" /\ late' = late /\ \E ok \in BOOLEAN : Return(c, ok)
    BY <1>5 DEF CollectResult
  <2>2. machine' = RemoveWaiter(machine, call[c].operation)
    BY <1>5 DEF CollectResult
  <2> QED BY <1>1, <2>1, <2>2, EventsServe, ReturnType, NobodyExpires DEF WaiterInv
<1>6. CASE GiveUp(c)
  <2>1. /\ call' = [call EXCEPT ![c].at = "expiring"] /\ late' = late /\ machine' = machine
        /\ call[c].at = "waiting" /\ call[c].operation \in late
    BY <1>6 DEF GiveUp
  <2>2. call'[c].operation = call[c].operation /\ \A d \in Caller \ {c} : call'[d] = call[d]
    BY <2>1, BusyCall DEF Call
  <2>3. ExpiringIsLate'
    BY <1>1, <2>1, <2>2 DEF ExpiringIsLate
  <2> QED BY <1>1, <2>1, <2>3 DEF WaiterInv
<1>7. CASE ReportDeadline(c)
  <2>1. /\ call' = [call EXCEPT ![c].at = "waiting"] /\ late' = late
        /\ machine' = DeadlineReached(machine, call[c].operation) /\ call[c].at = "expiring"
    BY <1>7 DEF ReportDeadline
  <2>2. call[c].operation \in late
    BY <1>1, <2>1 DEF ExpiringIsLate
  <2>3. call'[c].at = "waiting" /\ \A d \in Caller \ {c} : call'[d] = call[d]
    BY <2>1, BusyCall DEF Call
  <2>4. ExpiringIsLate'
    BY <1>1, <2>1, <2>3 DEF ExpiringIsLate
  <2> QED BY <1>1, <2>1, <2>2, <2>4, DeadlineServes DEF WaiterInv
<1>8. CASE CommitDevice(c)
  <2>1. call[c].key \in Key /\ call[c].graph \in Graph /\ machine' = machine /\ late' = late
    BY <1>8, BusyCall DEF CommitDevice
  <2>2. \/ \E purpose \in AllPurposes, next \in Intent : ToSubmit(c, purpose, next)
        \/ call' = [call EXCEPT ![c] = Idle]
    BY <1>8, <2>1 DEF CommitDevice, AllPurposes, Intent
  <2>3. \A d \in Caller : call'[d].at \in {"waiting", "expiring"} => call'[d] = call[d]
    <3>1. CASE call' = [call EXCEPT ![c] = Idle]
      BY <3>1 DEF Idle
    <3> QED BY <2>2, <3>1, ToSubmitType
  <2> QED BY <1>1, <2>1, <2>3, NobodyExpires DEF WaiterInv
<1>9. CASE PromoteProject(c)
  <2>1. call[c].key \in Key /\ call[c].graph \in Graph /\ late' = late
        /\ machine' = Promote(observed, call[c].key)
    BY <1>9, BusyCall DEF PromoteProject, observed
  <2>2. \E purpose \in AllPurposes, next \in Intent : ToSubmit(c, purpose, next)
    BY <1>9, <2>1 DEF PromoteProject, AllPurposes, Intent
  <2> QED BY <1>1, <2>1, <2>2, EventsServe, ToSubmitType, NobodyExpires DEF WaiterInv
<1> QED BY <1>2, <1>3, <1>4, <1>5, <1>6, <1>7, <1>8, <1>9 DEF CallerStep

LEMMA OtherServes ==
    ASSUME IInv, WaiterInv,
           WorkerStep \/ Expire \/ FinishAbandoned \/ RestartSidecar \/ QueryStatus
               \/ ReportTransportFailure \/ Shutdown \/ UNCHANGED vars
    PROVE  WaiterInv'
<1> USE Shapes
<1>1. ServedBut(machine, {}, late) /\ ExpiringIsLate
  BY DEF WaiterInv
<1>2. CASE WorkerStep
  <2>1. late' = late /\ call' = call
    BY <1>2 DEF WorkerStep, TakeWork, PrepareSnapshot, WaitForIdle, ObserveBeforeReport,
                ReportPrepared, CommitSnapshot, ReportCommitted, DiscardSnapshot
  <2>2. ServedBut(machine', {}, late)
    <3>1. CASE TakeWork \/ PrepareSnapshot \/ CommitSnapshot \/ DiscardSnapshot
      BY <1>1, <3>1 DEF TakeWork, PrepareSnapshot, CommitSnapshot, DiscardSnapshot
    <3>2. CASE ObserveBeforeReport
      BY <1>1, <3>2, EnvironmentServes DEF ObserveBeforeReport
    <3>3. CASE WaitForIdle
      <4>1. {"timeout", "failed"} \subseteq Result
        BY DEF Result, Error
      <4>2. CASE machine' = machine
        BY <1>1, <4>2
      <4>3. CASE \E result \in {"timeout", "failed"} :
                   machine' = Prepared(machine, worker.request.operation, result, late)
        BY <1>1, <4>1, <4>3, ReportsServe
      <4> QED BY <3>3, <4>2, <4>3 DEF WaitForIdle
    <3>4. CASE ReportPrepared
      <4>1. worker.result \in Result \union {"retryable"}
        BY <3>4 DEF ReportPrepared
      <4>2. machine' = Prepared(machine, worker.request.operation, worker.result, late)
        BY <3>4 DEF ReportPrepared
      <4> QED BY <1>1, <4>1, <4>2, ReportsServe
    <3>5. CASE ReportCommitted
      <4>1. worker.result \in Result \union {"retryable"}
        BY <3>5 DEF ReportCommitted
      <4>2. machine' = Committed(machine, worker.request.operation, worker.result, late)
        BY <3>5 DEF ReportCommitted
      <4> QED BY <1>1, <4>1, <4>2, ReportsServe
    <3> QED BY <1>2, <3>1, <3>2, <3>3, <3>4, <3>5 DEF WorkerStep
  <2> QED BY <1>1, <2>1, <2>2, QuietStep DEF WaiterInv
<1>3. CASE Expire
  <2>1. machine' = machine /\ call' = call /\ late \subseteq late'
    BY <1>3 DEF Expire
  <2> QED BY <1>1, <2>1, LateServes, QuietStep DEF WaiterInv
<1>4. CASE FinishAbandoned \/ RestartSidecar \/ UNCHANGED vars
  <2>1. machine' = machine /\ call' = call /\ late' = late
    BY <1>4 DEF FinishAbandoned, RestartSidecar, vars
  <2> QED BY <1>1, <2>1, QuietStep DEF WaiterInv
<1>5. CASE QueryStatus \/ ReportTransportFailure \/ Shutdown
  <2>1. /\ call' = call /\ late' = late
        /\ machine' \in {GenerationObserved(machine, native.generation), MarkFailed(machine), Stopped(machine)}
    BY <1>5 DEF QueryStatus, ReportTransportFailure, Shutdown
  <2> QED BY <1>1, <2>1, EnvironmentServes, EventsServe, QuietStep DEF WaiterInv
<1> QED BY <1>2, <1>3, <1>4, <1>5

-----------------------------------------------------------------------------
(* Theorems.                                                               *)

\* Nobody waits at first.
LEMMA WaiterInit == Init => WaiterInv
<1>1. NewMachine(1).waiters = {} /\ NewMachine(1).queued = None
  BY DEF NewMachine
<1>2. Idle.at = "idle"
  BY DEF Idle
<1> QED BY <1>1, <1>2 DEF Init, WaiterInv, ServedBut, ExpiringIsLate

LEMMA WaiterStep == IInv /\ WaiterInv /\ [Next]_vars => WaiterInv'
<1> QED BY CallerServes, OtherServes DEF Next

\* WaitersHaveWork: no operator of the machine and no thread forgets a waiter.
THEOREM WaitersAreServed == Spec => []WaitersHaveWork
<1>1. WaiterInv => WaitersHaveWork
  BY DEF WaiterInv, ServedBut, Served, WaitersHaveWork
<1> QED BY <1>1, Invariance, WaiterInit, WaiterStep, PTL DEF Spec

-----------------------------------------------------------------------------
(* What a waiter is told.                                                  *)

SameWork(r, q) == r.operation = q.operation /\ r.graph = q.graph

\* No two waiters have one id.
Distinct(m) == \A v, w \in m.waiters : v.id = w.id => v = w

\* Every operation m knows of was issued by it, and means one graph.
Issued(m) ==
    /\ Distinct(m)
    /\ \A w \in m.waiters : w.id <= m.next /\ w.operation <= m.next
    /\ m.job # None => m.job.request.operation <= m.next
    /\ m.queued # None => m.queued.operation <= m.next
    /\ m.job # None /\ m.queued # None /\ m.job.request.operation = m.queued.operation
           => m.job.request.graph = m.queued.graph

\* Whoever waits as `id` waits for work on this graph.
AsksFor(m, id, graph) ==
    \A w \in m.waiters : w.id = id /\ w.result = None =>
        /\ RunsOperation(m, w.operation) => m.job.request.graph = graph
        /\ m.queued # None /\ m.queued.operation = w.operation => m.queued.graph = graph

\* The inductive invariant: everybody waits for the graph submitted.
AnswerInv ==
    /\ Issued(machine)
    /\ \A c \in Caller : call[c].at \in {"waiting", "expiring"} =>
           AsksFor(machine, call[c].operation, call[c].graph)

\* From m to n no request changes its graph, no waiter its operation, and only
\* waiters of the operations in `done` are told of success.
Moves(m, n, done) ==
    /\ n.next = m.next
    /\ n.job # None =>
           \/ m.job # None /\ SameWork(n.job.request, m.job.request)
           \/ m.queued # None /\ SameWork(n.job.request, m.queued)
    /\ n.queued # None => m.queued # None /\ SameWork(n.queued, m.queued)
    /\ \A w \in n.waiters : \E v \in m.waiters :
           /\ v.id = w.id /\ v.operation = w.operation
           /\ \/ v.result = w.result
              \/ v.result = None /\ (w.result = "ok" => w.operation \in done)
    /\ Distinct(n)

\* Between m and n requests were issued, and whoever waited waits for the same.
Carries(m, n) ==
    /\ m.next <= n.next
    /\ Issued(n)
    /\ \A id \in 1 .. m.next, graph \in Graph : AsksFor(m, id, graph) => AsksFor(n, id, graph)

\* Nobody who waited in m is told of success in n.
TellsNobody(m, n) ==
    \A w \in n.waiters : w.id <= m.next /\ w.result = "ok" =>
        \E v \in m.waiters : v.id = w.id /\ v.result = "ok"

-----------------------------------------------------------------------------
(* How the two relations combine.                                          *)

LEMMA MovesAgain ==
    ASSUME NEW m, NEW k, NEW n, NEW done, Moves(m, k, done), Moves(k, n, done)
    PROVE  Moves(m, n, done)
<1>1. ASSUME NEW w \in n.waiters
      PROVE  \E v \in m.waiters :
                /\ v.id = w.id /\ v.operation = w.operation
                /\ \/ v.result = w.result
                   \/ v.result = None /\ (w.result = "ok" => w.operation \in done)
  <2>1. PICK u \in k.waiters :
            /\ u.id = w.id /\ u.operation = w.operation
            /\ \/ u.result = w.result
               \/ u.result = None /\ (w.result = "ok" => w.operation \in done)
    BY DEF Moves
  <2>2. PICK v \in m.waiters :
            /\ v.id = u.id /\ v.operation = u.operation
            /\ \/ v.result = u.result
               \/ v.result = None /\ (u.result = "ok" => u.operation \in done)
    BY DEF Moves
  <2> QED BY <2>1, <2>2
<1> QED BY <1>1 DEF Moves, SameWork

LEMMA MovesMore ==
    ASSUME NEW m, NEW n, NEW done, Moves(m, n, {})
    PROVE  Moves(m, n, done)
BY DEF Moves

LEMMA MovesAsk ==
    ASSUME NEW m, NEW n, NEW done, Moves(m, n, done), NEW id, NEW graph, AsksFor(m, id, graph)
    PROVE  AsksFor(n, id, graph)
<1> SUFFICES ASSUME NEW w \in n.waiters, w.id = id, w.result = None
             PROVE  /\ RunsOperation(n, w.operation) => n.job.request.graph = graph
                    /\ n.queued # None /\ n.queued.operation = w.operation => n.queued.graph = graph
  BY DEF AsksFor
<1>1. PICK v \in m.waiters : v.id = id /\ v.operation = w.operation /\ v.result = None
  BY DEF Moves
<1>2. /\ RunsOperation(m, w.operation) => m.job.request.graph = graph
      /\ m.queued # None /\ m.queued.operation = w.operation => m.queued.graph = graph
  BY <1>1 DEF AsksFor
<1> QED BY <1>2 DEF Moves, SameWork, RunsOperation

\* Whoever moves, carries, and tells nobody but those who wait for `done`.
LEMMA MovesCarry ==
    ASSUME NEW m \in Machine, Issued(m), NEW n \in Machine, NEW done, Moves(m, n, done)
    PROVE  Carries(m, n) /\ (done = {} => TellsNobody(m, n))
<1>1. Issued(n)
  <2>1. \A w \in n.waiters : w.id <= n.next /\ w.operation <= n.next
    BY DEF Moves, Issued
  <2>2. /\ n.job # None => n.job.request.operation <= n.next
        /\ n.queued # None => n.queued.operation <= n.next
        /\ n.job # None /\ n.queued # None /\ n.job.request.operation = n.queued.operation
               => n.job.request.graph = n.queued.graph
    BY DEF Moves, Issued, SameWork
  <2> QED BY <2>1, <2>2 DEF Moves, Issued
<1>2. \A id, graph : AsksFor(m, id, graph) => AsksFor(n, id, graph)
  BY MovesAsk
<1>3. ASSUME done = {} PROVE TellsNobody(m, n)
  BY <1>3, NoneAssumption DEF Moves, TellsNobody, Result
<1>4. m.next <= n.next
  BY DEF Moves, Machine
<1> QED BY <1>1, <1>2, <1>3, <1>4 DEF Carries

LEMMA CarriesAgain ==
    ASSUME NEW m \in Machine, NEW k \in Machine, NEW n \in Machine, Carries(m, k), Carries(k, n)
    PROVE  /\ Carries(m, n)
           /\ TellsNobody(m, k) /\ TellsNobody(k, n) => TellsNobody(m, n)
<1>1. m.next \in Nat /\ k.next \in Nat /\ n.next \in Nat
  BY DEF Machine
<1>2. m.next <= k.next /\ k.next <= n.next /\ \A id \in 1 .. m.next : id \in 1 .. k.next
  BY <1>1 DEF Carries
<1>3. Carries(m, n)
  BY <1>1, <1>2 DEF Carries
<1>4. ASSUME TellsNobody(m, k), TellsNobody(k, n), NEW w \in n.waiters, w.id <= m.next, w.result = "ok"
      PROVE  \E v \in m.waiters : v.id = w.id /\ v.result = "ok"
  <2>1. w.id \in Nat
    BY DEF Machine, Waiter
  <2>2. PICK u \in k.waiters : u.id = w.id /\ u.result = "ok"
    BY <1>1, <1>2, <1>4, <2>1 DEF TellsNobody, Carries
  <2> QED BY <1>4, <2>2 DEF TellsNobody
<1> QED BY <1>3, <1>4 DEF TellsNobody

-----------------------------------------------------------------------------
(* Operators that move.                                                    *)

LEMMA AnswersMove ==
    ASSUME NEW m \in Machine, Distinct(m), NEW result \in Result, NEW done
    PROVE  /\ \A ids : result # "ok" \/ (\A w \in m.waiters : w.id \in ids => w.operation \in done)
                  => Moves(m, CompleteWaiters(m, ids, result), done)
           /\ \A operation : result # "ok" \/ operation \in done
                  => Moves(m, CompleteOperation(m, operation, result), done)
<1>1. ASSUME NEW ids, result # "ok" \/ (\A w \in m.waiters : w.id \in ids => w.operation \in done)
      PROVE  Moves(m, CompleteWaiters(m, ids, result), done)
  <2> DEFINE n == CompleteWaiters(m, ids, result)
             told(w) == IF w.id \in ids /\ w.result = None THEN [w EXCEPT !.result = result] ELSE w
  <2>1. n.job = m.job /\ n.queued = m.queued /\ n.next = m.next
    BY CompleteWaitersType
  <2>2. n.waiters = {told(w) : w \in m.waiters}
    BY DEF CompleteWaiters, Machine
  <2>3. ASSUME NEW v \in m.waiters
        PROVE  /\ told(v).id = v.id /\ told(v).operation = v.operation
               /\ \/ told(v).result = v.result
                  \/ v.result = None /\ (told(v).result = "ok" => v.operation \in done)
    <3>1. v \in Waiter
      BY DEF Machine
    <3> QED BY <1>1, <3>1 DEF Waiter
  <2> HIDE DEF n, told
  <2>4. \A w \in n.waiters : \E v \in m.waiters : w = told(v)
    BY <2>2
  <2>5. Distinct(n)
    BY <2>3, <2>4 DEF Distinct
  <2>6. Moves(m, n, done)
    <3>1. ASSUME NEW w \in n.waiters
          PROVE  \E v \in m.waiters :
                    /\ v.id = w.id /\ v.operation = w.operation
                    /\ \/ v.result = w.result
                       \/ v.result = None /\ (w.result = "ok" => w.operation \in done)
      <4>1. PICK v \in m.waiters : w = told(v)
        BY <2>4
      <4> QED BY <2>3, <4>1
    <3> QED BY <2>1, <2>5, <3>1 DEF Moves, SameWork
  <2> QED BY <2>6 DEF n
<1>2. ASSUME NEW operation, result # "ok" \/ operation \in done
      PROVE  Moves(m, CompleteOperation(m, operation, result), done)
  <2> DEFINE ids == {w.id : w \in {v \in m.waiters : v.operation = operation}}
  <2>1. \A w \in m.waiters : w.id \in ids => w.operation = operation
    BY DEF Distinct
  <2> QED BY <1>1, <1>2, <2>1 DEF CompleteOperation
<1> QED BY <1>1, <1>2

\* Only the work counts.
LEMMA WorkMoves ==
    ASSUME NEW m \in Machine, Distinct(m), NEW n, NEW done, n.next = m.next, n.waiters \subseteq m.waiters,
           n.job # None => m.job # None /\ SameWork(n.job.request, m.job.request),
           n.queued # None => m.queued # None /\ SameWork(n.queued, m.queued)
    PROVE  Moves(m, n, done)
BY DEF Moves, Distinct

\* The next job is the queued request.
LEMMA StartQueuedMoves ==
    ASSUME NEW m \in Machine, Distinct(m), NEW done
    PROVE  /\ Moves(m, StartQueued(m), done)
           /\ StartQueued(m).active = m.active /\ StartQueued(m).environment = m.environment
<1> DEFINE n == StartQueued(m)
<1>1. CASE ~m.stopped /\ m.queued # None
  <2> DEFINE job == [request |-> m.queued, phase |-> "preparing", environment |-> m.environment]
  <2>1. n = [m EXCEPT !.queued = None, !.job = job]
    BY <1>1 DEF StartQueued, Start, Machine
  <2>2. job.request = m.queued
    OBVIOUS
  <2> HIDE DEF job
  <2>3. /\ n.next = m.next /\ n.waiters = m.waiters /\ n.queued = None /\ n.job = job
        /\ n.active = m.active /\ n.environment = m.environment
    BY <2>1 DEF Machine
  <2> HIDE DEF n
  <2>4. Moves(m, n, done)
    BY <1>1, <2>2, <2>3 DEF Moves, Distinct, SameWork
  <2> QED BY <2>3, <2>4 DEF n
<1>2. CASE ~(~m.stopped /\ m.queued # None)
  <2>1. /\ n.next = m.next /\ n.waiters = m.waiters /\ n.queued = m.queued /\ n.job = None
        /\ n.active = m.active /\ n.environment = m.environment
    BY <1>2 DEF StartQueued, Machine
  <2> HIDE DEF n
  <2>2. Moves(m, n, done)
    BY <2>1 DEF Moves, Distinct, SameWork
  <2> QED BY <2>1, <2>2 DEF n
<1> QED BY <1>1, <1>2

\* A job that ends tells its own waiters.
LEMMA FinishMoves ==
    ASSUME NEW m \in Machine, m.job # None, Distinct(m), NEW result \in Result,
           NEW done, result # "ok" \/ m.job.request.operation \in done,
           NEW r \in Machine, r.waiters = m.waiters, r.queued = m.queued, r.next = m.next, r.job = m.job
    PROVE  LET n == StartQueued(CompleteOperation(r, m.job.request.operation, result))
           IN /\ n \in Machine /\ Moves(m, n, done)
              /\ n.active = r.active /\ n.environment = r.environment
<1> DEFINE told == CompleteOperation(r, m.job.request.operation, result)
           n == StartQueued(told)
<1>1. Distinct(r)
  BY DEF Distinct
<1>2. Moves(m, r, done)
  BY WorkMoves DEF SameWork
<1>3. told \in Machine /\ Moves(r, told, done)
  BY <1>1, CompleteOperationType, AnswersMove
<1>4. told.active = r.active /\ told.environment = r.environment
  BY DEF CompleteOperation, CompleteWaiters, Machine
<1>5. Distinct(told)
  BY <1>3 DEF Moves
<1> HIDE DEF told
<1>6. n \in Machine /\ Moves(told, n, done) /\ n.active = told.active /\ n.environment = told.environment
  BY <1>3, <1>5, StartQueuedType, StartQueuedMoves
<1> HIDE DEF n
<1>7. Moves(m, n, done)
  BY <1>2, <1>3, <1>6, MovesAgain
<1>8. n \in Machine /\ Moves(m, n, done) /\ n.active = r.active /\ n.environment = r.environment
  BY <1>4, <1>6, <1>7
<1> QED BY <1>8 DEF n, told

\* Success is told of the graph that is active then.
LEMMA FinishOkMoves ==
    ASSUME NEW m \in Machine, m.job # None, Distinct(m)
    PROVE  /\ FinishOk(m) \in Machine
           /\ Moves(m, FinishOk(m), {m.job.request.operation})
           /\ FinishOk(m).active # None
           /\ FinishOk(m).active.graph = m.job.request.graph
           /\ FinishOk(m).active.environment = m.job.environment
           /\ FinishOk(m).environment = m.environment
<1> DEFINE installed == InstallCommitted(m)
           recorded == IF installed.active.origin = Canonical THEN [installed EXCEPT !.error = None] ELSE installed
           n == FinishOk(m)
<1>1. /\ installed \in Machine /\ installed.queued = m.queued /\ installed.next = m.next
      /\ installed.waiters = m.waiters /\ installed.job = m.job
      /\ installed.environment = m.environment /\ installed.active # None
  BY InstallCommittedType DEF InstallCommitted, Machine
<1>2. installed.active.graph = m.job.request.graph /\ installed.active.environment = m.job.environment
  BY DEF InstallCommitted, Machine
<1> HIDE DEF installed
<1>3. /\ recorded \in Machine /\ recorded.queued = m.queued /\ recorded.next = m.next
      /\ recorded.waiters = m.waiters /\ recorded.job = m.job
      /\ recorded.environment = m.environment /\ recorded.active = installed.active
  BY <1>1 DEF Machine
<1>4. n = StartQueued(CompleteOperation(recorded, m.job.request.operation, "ok"))
  BY DEF FinishOk, installed
<1> HIDE DEF recorded
<1>5. "ok" \in Result
  BY DEF Result
<1> HIDE DEF n
<1>6. /\ n \in Machine /\ Moves(m, n, {m.job.request.operation})
      /\ n.active = recorded.active /\ n.environment = recorded.environment
  BY <1>3, <1>4, <1>5, FinishMoves
<1>7. /\ n \in Machine /\ Moves(m, n, {m.job.request.operation})
      /\ n.active # None
      /\ n.active.graph = m.job.request.graph
      /\ n.active.environment = m.job.environment
      /\ n.environment = m.environment
  BY <1>1, <1>2, <1>3, <1>6
<1> QED BY <1>7 DEF n

LEMMA FinishErrorMoves ==
    ASSUME NEW m \in Machine, m.job # None, Distinct(m), NEW error \in Error
    PROVE  /\ FinishError(m, error) \in Machine /\ Moves(m, FinishError(m, error), {})
           /\ FinishError(InstallCommitted(m), error) \in Machine
           /\ Moves(m, FinishError(InstallCommitted(m), error), {})
<1>1. ASSUME NEW k \in Machine, k.job = m.job, k.queued = m.queued, k.waiters = m.waiters, k.next = m.next
      PROVE  FinishError(k, error) \in Machine /\ Moves(m, FinishError(k, error), {})
  <2> DEFINE recorded == IF /\ \/ k.job.request.origin = Canonical
                               \/ IsIntended(k, k.job.request.graph)
                            /\ k.queued = None
                            /\ k.job.environment = k.environment
                            /\ error # "superseded"
                         THEN [k EXCEPT !.error = error] ELSE k
  <2>1. /\ recorded \in Machine /\ recorded.queued = k.queued /\ recorded.next = k.next
        /\ recorded.waiters = k.waiters /\ recorded.job = k.job
    BY DEF Machine
  <2>2. FinishError(k, error) = StartQueued(CompleteOperation(recorded, m.job.request.operation, error))
    BY <1>1 DEF FinishError
  <2>3. error \in Result /\ error # "ok"
    BY DEF Result, Error
  <2> HIDE DEF recorded
  <2>4. /\ recorded.queued = m.queued /\ recorded.next = m.next
        /\ recorded.waiters = m.waiters /\ recorded.job = m.job
    BY <1>1, <2>1
  <2> QED BY <2>1, <2>2, <2>3, <2>4, FinishMoves
<1>2. /\ InstallCommitted(m) \in Machine /\ InstallCommitted(m).next = m.next
      /\ InstallCommitted(m).job = m.job /\ InstallCommitted(m).queued = m.queued
      /\ InstallCommitted(m).waiters = m.waiters
  BY InstallCommittedType DEF InstallCommitted, Machine
<1> QED BY <1>1, <1>2

\* Nobody is told of success when everything is given up.
LEMMA InvalidateMoves ==
    ASSUME NEW m \in Machine, Distinct(m), NEW error \in Error
    PROVE  Invalidate(m, error) \in Machine /\ Moves(m, Invalidate(m, error), {})
<1> DEFINE cleared == [m EXCEPT !.active = None, !.queued = None, !.error = None, !.target = None]
<1>1. /\ cleared \in Machine /\ cleared.queued = None /\ cleared.waiters = m.waiters
      /\ cleared.job = m.job /\ cleared.next = m.next
  BY DEF Machine
<1>2. Invalidate(m, error) = CompleteWaiters(cleared, WaiterIds(m), error)
  BY DEF Invalidate
<1> HIDE DEF cleared
<1>3. error \in Result /\ error # "ok"
  BY DEF Result, Error
<1>4. Moves(m, cleared, {}) /\ Distinct(cleared)
  BY <1>1, WorkMoves DEF SameWork, Distinct
<1>5. /\ Moves(cleared, CompleteWaiters(cleared, WaiterIds(m), error), {})
      /\ CompleteWaiters(cleared, WaiterIds(m), error) \in Machine
  BY <1>1, <1>3, <1>4, AnswersMove, CompleteWaitersType
<1> QED BY <1>2, <1>4, <1>5, MovesAgain

LEMMA EnvironmentMoves ==
    ASSUME NEW m \in Machine, Distinct(m), NEW generation \in Nat
    PROVE  /\ GenerationObserved(m, generation) \in Machine
           /\ Moves(m, GenerationObserved(m, generation), {})
           /\ AudioEnvironmentAdvanced(m) \in Machine
           /\ Moves(m, AudioEnvironmentAdvanced(m), {})
<1> DEFINE moved(e) == [m EXCEPT !.environment = e]
<1>1. m.environment \in Environment
  BY DEF Machine
<1>2. ASSUME NEW e \in Environment
      PROVE  moved(e) \in Machine /\ Moves(m, moved(e), {}) /\ Distinct(moved(e))
  <2> DEFINE n == moved(e)
  <2>1. n \in Machine /\ n.waiters = m.waiters /\ n.job = m.job /\ n.queued = m.queued /\ n.next = m.next
    BY <1>2 DEF Machine
  <2> HIDE DEF n
  <2>2. n \in Machine /\ Moves(m, n, {}) /\ Distinct(n)
    BY <2>1, WorkMoves DEF SameWork, Distinct
  <2> QED BY <2>2 DEF n
<1>3. ASSUME NEW e \in Environment, NEW error \in Error
      PROVE  Invalidate(moved(e), error) \in Machine /\ Moves(m, Invalidate(moved(e), error), {})
  <2> HIDE DEF moved
  <2>1. /\ Invalidate(moved(e), error) \in Machine
        /\ Moves(moved(e), Invalidate(moved(e), error), {})
    BY <1>2, InvalidateMoves
  <2> QED BY <1>2, <2>1, MovesAgain
<1>4. Moves(m, m, {})
  BY WorkMoves DEF SameWork
<1>5. {"generationChanged", "cancelled"} \subseteq Error
  BY DEF Error
<1>6. GenerationObserved(m, generation) \in Machine /\ Moves(m, GenerationObserved(m, generation), {})
  <2> DEFINE e == [generation |-> generation, revision |-> m.environment.revision + 1]
  <2>1. e \in Environment
    BY <1>1 DEF Environment
  <2>2. GenerationObserved(m, generation) \in {m, Invalidate(moved(e), "generationChanged")}
    BY DEF GenerationObserved
  <2> HIDE DEF moved, e
  <2> QED BY <1>3, <1>4, <1>5, <2>1, <2>2
<1>7. AudioEnvironmentAdvanced(m) \in Machine /\ Moves(m, AudioEnvironmentAdvanced(m), {})
  <2> DEFINE e == [m.environment EXCEPT !.revision = @ + 1]
  <2>1. e \in Environment
    BY <1>1 DEF Environment
  <2>2. AudioEnvironmentAdvanced(m) = Invalidate(moved(e), "cancelled")
    BY DEF AudioEnvironmentAdvanced, Machine
  <2> HIDE DEF moved, e
  <2> QED BY <1>3, <1>5, <2>1, <2>2
<1> QED BY <1>6, <1>7

LEMMA EventsMove ==
    ASSUME NEW m \in Machine, Distinct(m)
    PROVE  /\ Moves(m, m, {})
           /\ \A id : Moves(m, RemoveWaiter(m, id), {})
           /\ Moves(m, MarkFailed(m), {})
           /\ \A key : Moves(m, Promote(m, key), {})
           /\ Moves(m, Stopped(m), {})
<1>1. ASSUME NEW id PROVE Moves(m, RemoveWaiter(m, id), {})
  <2>1. /\ RemoveWaiter(m, id).waiters \subseteq m.waiters /\ RemoveWaiter(m, id).next = m.next
        /\ RemoveWaiter(m, id).job = m.job /\ RemoveWaiter(m, id).queued = m.queued
    BY DEF RemoveWaiter, Machine
  <2> QED BY <2>1, WorkMoves DEF SameWork
<1>2. Moves(m, MarkFailed(m), {})
  <2>1. /\ MarkFailed(m).waiters = m.waiters /\ MarkFailed(m).next = m.next
        /\ MarkFailed(m).job = m.job /\ MarkFailed(m).queued = m.queued
    BY DEF MarkFailed, Machine
  <2> QED BY <2>1, WorkMoves DEF SameWork
<1>3. ASSUME NEW key PROVE Moves(m, Promote(m, key), {})
  <2>1. /\ Promote(m, key).waiters = m.waiters /\ Promote(m, key).next = m.next
        /\ Promote(m, key).job = m.job /\ Promote(m, key).queued = m.queued
    BY DEF Promote, Machine
  <2> QED BY <2>1, WorkMoves DEF SameWork
<1>4. Moves(m, Stopped(m), {})
  <2> DEFINE closed == [m EXCEPT !.stopped = TRUE, !.queued = None]
  <2>1. /\ closed \in Machine /\ closed.queued = None /\ closed.waiters = m.waiters
        /\ closed.job = m.job /\ closed.next = m.next
    BY DEF Machine
  <2>2. Stopped(m) = CompleteWaiters(closed, WaiterIds(m), "shuttingDown")
    BY DEF Stopped
  <2>3. "shuttingDown" \in Result
    BY DEF Result, Error
  <2> HIDE DEF closed
  <2>4. Moves(m, closed, {}) /\ Distinct(closed)
    BY <2>1, WorkMoves DEF SameWork, Distinct
  <2>5. Moves(closed, CompleteWaiters(closed, WaiterIds(m), "shuttingDown"), {})
    BY <2>1, <2>3, <2>4, AnswersMove
  <2> QED BY <2>2, <2>4, <2>5, MovesAgain
<1>5. Moves(m, m, {})
  BY WorkMoves DEF SameWork
<1> QED BY <1>1, <1>2, <1>3, <1>4, <1>5

LEMMA DeadlineMoves ==
    ASSUME NEW m \in Machine, Distinct(m), NEW operation
    PROVE  Moves(m, DeadlineReached(m, operation), {})
<1> DEFINE expired == IF RunsOperation(m, operation) THEN [m EXCEPT !.job.request.timed = TRUE] ELSE m
           told == CompleteWaiters(expired, {operation}, "timeout")
           n == DeadlineReached(m, operation)
<1>1. /\ expired \in Machine /\ expired.waiters = m.waiters
      /\ expired.queued = m.queued /\ expired.next = m.next
      /\ expired.job # None => m.job # None /\ SameWork(expired.job.request, m.job.request)
  <2>1. CASE RunsOperation(m, operation)
    <3> DEFINE job == [m.job EXCEPT !.request.timed = TRUE]
    <3>1. m.job \in Job /\ m.job # None
      BY <2>1 DEF RunsOperation, Machine
    <3>2. job \in Job /\ SameWork(job.request, m.job.request)
      BY <3>1 DEF Job, Request, SameWork
    <3>3. expired = [m EXCEPT !.job = job]
      BY <2>1 DEF Machine
    <3> HIDE DEF job, expired
    <3> QED BY <3>1, <3>2, <3>3 DEF Machine
  <2>2. CASE ~RunsOperation(m, operation)
    BY <2>2 DEF SameWork
  <2> QED BY <2>1, <2>2
<1>2. "timeout" \in Result
  BY DEF Result, Error
<1>3. Moves(m, expired, {}) /\ Distinct(expired)
  <2> HIDE DEF expired
  <2> QED BY <1>1, WorkMoves DEF SameWork, Distinct
<1>4. n = IF m.queued # None /\ m.queued.operation = operation THEN [told EXCEPT !.queued = None] ELSE told
  BY DEF DeadlineReached
<1> HIDE DEF expired, n
<1>5. told \in Machine /\ Moves(expired, told, {})
  BY <1>1, <1>2, <1>3, AnswersMove, CompleteWaitersType
<1> HIDE DEF told
<1>6. Moves(told, n, {})
  <2>1. Distinct(told)
    BY <1>5 DEF Moves
  <2>2. /\ n.waiters = told.waiters /\ n.next = told.next /\ n.job = told.job
        /\ n.queued \in {told.queued, None}
    BY <1>4, <1>5 DEF Machine
  <2> QED BY <1>5, <2>1, <2>2, WorkMoves DEF SameWork
<1>7. Moves(m, n, {})
  BY <1>3, <1>5, <1>6, MovesAgain
<1> QED BY <1>7 DEF n

\* A native result tells success of the graph it made active, if at all.
LEMMA ReportsMove ==
    ASSUME NEW m \in Machine, Distinct(m), NEW operation, NEW result \in Result \union {"retryable"}, NEW passed
    PROVE  /\ Moves(m, Prepared(m, operation, result, passed), {})
           /\ LET n == Committed(m, operation, result, passed)
              IN \/ Moves(m, n, {})
                 \/ /\ m.job # None /\ Moves(m, n, {m.job.request.operation})
                    /\ ActiveHere(n) /\ n.active.graph = m.job.request.graph
<1>1. CASE ~RunsOperation(m, operation)
  BY <1>1, EventsMove DEF Prepared, Committed
<1>2. CASE RunsOperation(m, operation)
  <2>1. m.job # None
    BY <1>2 DEF RunsOperation
  <2>2. ASSUME NEW phase \in {"preparing", "committing"}
        PROVE  Moves(m, [m EXCEPT !.job.phase = phase], {})
    <3> DEFINE job == [m.job EXCEPT !.phase = phase]
               n == [m EXCEPT !.job.phase = phase]
    <3>1. m.job \in Job
      BY <2>1 DEF Machine
    <3>2. job.request = m.job.request
      BY <3>1 DEF Job
    <3>3. n = [m EXCEPT !.job = job]
      BY DEF Machine
    <3> HIDE DEF n, job
    <3>4. n.waiters = m.waiters /\ n.queued = m.queued /\ n.next = m.next /\ n.job = job
      BY <3>3 DEF Machine
    <3>5. Moves(m, n, {})
      BY <2>1, <3>2, <3>4, WorkMoves DEF SameWork
    <3> QED BY <3>5 DEF n
  <2>3. ASSUME NEW error \in Error
        PROVE  Moves(m, FinishError(m, error), {})
               /\ Moves(m, FinishError(InstallCommitted(m), error), {})
    BY <2>1, FinishErrorMoves
  <2>4. {"superseded", "failed"} \subseteq Error /\ (result \notin {"ok", "retryable"} => result \in Error)
    BY DEF Result, Error
  <2>5. Prepared(m, operation, result, passed)
          \in {m, [m EXCEPT !.job.phase = "committing"], FinishError(m, "superseded")}
              \union {FinishError(m, error) : error \in Error}
    BY <1>2, <2>4 DEF Prepared
  <2>6. \/ Committed(m, operation, result, passed)
             \in {FinishError(InstallCommitted(m), "superseded"), [m EXCEPT !.job.phase = "preparing"]}
                 \union {FinishError(m, error) : error \in Error}
        \/ Committed(m, operation, result, passed) = FinishOk(m) /\ JobIsCurrent(m, passed)
    BY <1>2, <2>4 DEF Committed
  <2>7. JobIsCurrent(m, passed) => ActiveHere(FinishOk(m))
    BY <2>1, FinishOkMoves DEF JobIsCurrent, ActiveHere
  <2>8. /\ Moves(m, FinishOk(m), {m.job.request.operation})
        /\ FinishOk(m).active.graph = m.job.request.graph
    BY <2>1, FinishOkMoves
  <2> QED BY <2>1, <2>2, <2>3, <2>4, <2>5, <2>6, <2>7, <2>8, EventsMove
<1> QED BY <1>1, <1>2

-----------------------------------------------------------------------------
(* Submissions ask for their graph.                                        *)

LEMMA SupersedeMoves ==
    ASSUME NEW m \in Machine, Distinct(m)
    PROVE  Moves(m, SupersedeQueuedCanonical(m), {})
<1>1. CASE m.queued # None /\ m.queued.origin = Canonical
  <2> DEFINE dropped == [m EXCEPT !.queued = None]
             n == CompleteOperation(dropped, m.queued.operation, "superseded")
  <2>1. /\ dropped \in Machine /\ dropped.waiters = m.waiters /\ dropped.queued = None
        /\ dropped.job = m.job /\ dropped.next = m.next
    BY DEF Machine
  <2>2. "superseded" \in Result
    BY DEF Result, Error
  <2> HIDE DEF dropped
  <2>3. Moves(m, dropped, {}) /\ Distinct(dropped)
    BY <2>1, WorkMoves DEF SameWork, Distinct
  <2>4. Moves(dropped, n, {})
    BY <2>1, <2>2, <2>3, AnswersMove
  <2> HIDE DEF n
  <2>5. Moves(m, n, {})
    BY <2>3, <2>4, MovesAgain
  <2> QED BY <1>1, <2>5 DEF SupersedeQueuedCanonical, n, dropped
<1>2. CASE ~(m.queued # None /\ m.queued.origin = Canonical)
  BY <1>2, EventsMove DEF SupersedeQueuedCanonical
<1> QED BY <1>1, <1>2

\* An alias waits for the work it joined, and nobody else is concerned.
LEMMA AliasAsks ==
    ASSUME NEW m \in Machine, Issued(m), NEW id, NEW operation \in 1 .. m.next, NEW graph,
           RunsOperation(m, operation) => m.job.request.graph = graph,
           m.queued # None /\ m.queued.operation = operation => m.queued.graph = graph
    PROVE  LET n == Alias(m, id, operation)
           IN /\ Issued(n) /\ n.next = m.next
              /\ AsksFor(n, id, graph)
              /\ \A other : other # id => \A g : AsksFor(m, other, g) => AsksFor(n, other, g)
              /\ \A w \in n.waiters : \E v \in m.waiters : v.id = w.id /\ v.result = w.result
<1> DEFINE n == Alias(m, id, operation)
           renamed(w) == IF w.id = id THEN [w EXCEPT !.operation = operation] ELSE w
<1>1. /\ n.job = m.job /\ n.queued = m.queued /\ n.next = m.next
      /\ n.waiters = {renamed(w) : w \in m.waiters}
  BY DEF Alias, Machine
<1>2. ASSUME NEW v \in m.waiters
      PROVE  /\ renamed(v).id = v.id /\ renamed(v).result = v.result
             /\ renamed(v).operation = IF v.id = id THEN operation ELSE v.operation
  <2>1. v \in Waiter
    BY DEF Machine
  <2> QED BY <2>1 DEF Waiter
<1> HIDE DEF n, renamed
<1>3. ASSUME NEW w \in n.waiters
      PROVE  \E v \in m.waiters : /\ w = renamed(v) /\ v.id = w.id /\ v.result = w.result
                                  /\ w.operation = IF v.id = id THEN operation ELSE v.operation
  BY <1>1, <1>2
<1>4. Issued(n)
  <2>1. Distinct(n)
    BY <1>3 DEF Issued, Distinct
  <2>2. \A w \in n.waiters : w.id <= n.next /\ w.operation <= n.next
    BY <1>1, <1>3 DEF Issued
  <2> QED BY <1>1, <2>1, <2>2 DEF Issued
<1>5. AsksFor(n, id, graph)
  BY <1>1, <1>3 DEF AsksFor, RunsOperation
<1>6. ASSUME NEW other, other # id, NEW g, AsksFor(m, other, g)
      PROVE  AsksFor(n, other, g)
  BY <1>1, <1>3, <1>6 DEF AsksFor, RunsOperation
<1>7. \A w \in n.waiters : \E v \in m.waiters : v.id = w.id /\ v.result = w.result
  BY <1>3
<1> QED BY <1>1, <1>4, <1>5, <1>6, <1>7 DEF n

\* The new request is asked for by its own waiter alone.
LEMMA EnqueueAsks ==
    ASSUME NEW m \in Machine, Issued(m), NEW request \in Request, request.operation = m.next,
           m.job # None => m.job.request.operation < m.next,
           m.queued # None => m.queued.operation < m.next
    PROVE  LET n == Enqueue(m, request)
           IN /\ Issued(n) /\ n.next = m.next
              /\ \A id, g : /\ AsksFor(m, id, g)
                            /\ \A w \in m.waiters : w.id = id /\ w.operation = request.operation
                                   => g = request.graph
                            => AsksFor(n, id, g)
              /\ \A w \in n.waiters : w.result = "ok" => \E v \in m.waiters : v.id = w.id /\ v.result = "ok"
<1> DEFINE n == Enqueue(m, request)
<1>1. CASE m.job = None
  <2> DEFINE job == [request |-> request, phase |-> "preparing", environment |-> m.environment]
  <2>1. /\ n.waiters = m.waiters /\ n.queued = m.queued /\ n.next = m.next /\ n.job = job
    BY <1>1 DEF Enqueue, Start, Machine
  <2>2. job.request = request
    OBVIOUS
  <2> HIDE DEF job, n
  <2>3. Issued(n)
    BY <2>1, <2>2 DEF Issued, Distinct, Machine
  <2>4. ASSUME NEW id, NEW g, AsksFor(m, id, g),
               \A w \in m.waiters : w.id = id /\ w.operation = request.operation => g = request.graph
        PROVE  AsksFor(n, id, g)
    BY <2>1, <2>2, <2>4 DEF AsksFor, RunsOperation
  <2> QED BY <2>1, <2>3, <2>4 DEF n
<1>2. CASE m.job # None
  <2> DEFINE replaced == [m EXCEPT !.queued = request]
  <2>1. /\ replaced \in Machine /\ replaced.waiters = m.waiters /\ replaced.queued = request
        /\ replaced.job = m.job /\ replaced.next = m.next
    BY DEF Machine
  <2>2. "superseded" \in Result
    BY DEF Result, Error
  <2> HIDE DEF replaced
  <2>3. Issued(replaced) /\ Distinct(replaced)
    BY <1>2, <2>1 DEF Issued, Distinct, Machine, Job, Request
  <2>4. n \in {replaced, CompleteOperation(replaced, m.queued.operation, "superseded")}
    BY <1>2 DEF Enqueue, replaced
  <2> HIDE DEF n
  <2>5. n \in Machine /\ Moves(replaced, n, {})
    <3>1. CASE n = replaced
      BY <2>1, <2>3, <3>1, EventsMove
    <3>2. CASE n = CompleteOperation(replaced, m.queued.operation, "superseded")
      <4> DEFINE operation == m.queued.operation
      <4> HIDE DEF operation
      <4>1. n = CompleteOperation(replaced, operation, "superseded")
        BY <3>2 DEF operation
      <4>2. n \in Machine
        BY <2>1, <2>2, <4>1, CompleteOperationType
      <4>3. Moves(replaced, n, {})
        BY <2>1, <2>2, <2>3, <4>1, AnswersMove
      <4> QED BY <4>2, <4>3
    <3> QED BY <2>4, <3>1, <3>2
  <2>6. Issued(n) /\ n.next = m.next
    BY <2>1, <2>3, <2>5, MovesCarry DEF Carries, Moves
  <2>7. ASSUME NEW id, NEW g, AsksFor(m, id, g),
               \A w \in m.waiters : w.id = id /\ w.operation = request.operation => g = request.graph
        PROVE  AsksFor(n, id, g)
    <3>1. AsksFor(replaced, id, g)
      BY <2>1, <2>7 DEF AsksFor, RunsOperation
    <3> QED BY <2>1, <2>3, <2>5, <3>1, MovesAsk
  <2>8. \A w \in n.waiters : w.result = "ok" => \E v \in m.waiters : v.id = w.id /\ v.result = "ok"
    BY <2>1, <2>5 DEF Moves
  <2> QED BY <2>6, <2>7, <2>8 DEF n
<1> QED BY <1>1, <1>2

\* A submission adds a waiter for its graph, and everybody else waits on.
LEMMA SubmitAsks ==
    ASSUME NEW m \in Machine, Issued(m), NEW key \in Key, NEW graph \in Graph,
           NEW timed \in BOOLEAN, NEW canonical \in BOOLEAN
    PROVE  LET n == Submit(m, key, graph, timed, canonical)
           IN /\ n.next = m.next + 1 /\ AsksFor(n, n.next, graph)
              /\ Carries(m, n) /\ TellsNobody(m, n)
<1> DEFINE operation == m.next + 1
           outcome == SubmitOutcome(m, key, graph, canonical)
           waiter == [id |-> operation, operation |-> operation, key |-> key, result |-> None]
           waiting == [m EXCEPT !.next = operation, !.waiters = m.waiters \union {waiter}]
           intended == IF canonical
                       THEN [waiting EXCEPT !.canonical = [key |-> key, graph |-> graph],
                                            !.error = None,
                                            !.operation = operation,
                                            !.target = key]
                       ELSE waiting
           request == [operation |-> operation, key |-> key, graph |-> graph,
                       origin |-> IF canonical THEN Canonical ELSE operation,
                       timed |-> timed]
           base == SupersedeQueuedCanonical(intended)
           submitted == Submit(m, key, graph, timed, canonical)
<1>1. operation \in Nat \ {0} /\ operation = m.next + 1 /\ m.next \in Nat /\ waiter \in Waiter
  BY DEF Machine, Waiter
<1>2. /\ waiting \in Machine /\ waiting.waiters = m.waiters \union {waiter} /\ waiting.next = operation
      /\ waiting.job = m.job /\ waiting.queued = m.queued
  <2>1. m.waiters \union {waiter} \in SUBSET Waiter
    BY <1>1 DEF Machine
  <2> HIDE DEF operation, waiter
  <2> QED BY <1>1, <2>1 DEF Machine
<1>3. /\ intended \in Machine /\ intended.waiters = m.waiters \union {waiter} /\ intended.next = operation
      /\ intended.job = m.job /\ intended.queued = m.queued
  <2>1. [key |-> key, graph |-> graph] \in Intent /\ operation \in Nat
    BY <1>1 DEF Intent
  <2>2. CASE canonical
    <3>1. intended = [waiting EXCEPT !.canonical = [key |-> key, graph |-> graph], !.error = None,
                                     !.operation = operation, !.target = key]
      BY <2>2
    <3>2. key \in Key /\ waiting \in Machine
      BY <1>2
    <3> HIDE DEF operation, waiting, waiter, intended
    <3>3. intended \in Machine /\ SameWorkload(intended, waiting)
      BY <2>1, <3>1, <3>2, IntentSet
    <3> QED BY <1>2, <3>3 DEF SameWorkload
  <2>3. CASE ~canonical
    BY <1>2, <2>3
  <2> QED BY <2>2, <2>3
<1>4. request \in Request /\ request.operation = operation /\ request.graph = graph
  BY <1>1 DEF Request, Origin, Canonical
<1>5. waiter.id = operation /\ waiter.operation = operation /\ waiter.result = None
  OBVIOUS
<1>6. submitted = CASE outcome \in {"shuttingDown", "superseded"} ->
                         CompleteWaiters(waiting, {operation}, outcome)
                    [] outcome = "adopted" ->
                         CompleteWaiters([base EXCEPT !.active.key = key, !.active.origin = Canonical],
                                         {operation}, "ok")
                    [] outcome = "joinsJob" -> Alias(base, operation, m.job.request.operation)
                    [] outcome = "joinsQueued" ->
                         [Alias(intended, operation, m.queued.operation) EXCEPT
                              !.queued.key = key, !.queued.origin = Canonical]
                    [] OTHER -> Enqueue(intended, request)
  BY DEF Submit
<1>7. outcome \in {"shuttingDown", "superseded", "adopted", "joinsJob", "joinsQueued", "queued"}
  BY DEF SubmitOutcome, CanonicalOutcome, Machine
<1>8. /\ outcome = "adopted" => m.active # None
      /\ outcome = "joinsJob" => m.job # None /\ m.job.request.graph = graph
      /\ outcome = "joinsQueued" => m.queued # None /\ m.queued.graph = graph
  BY DEF SubmitOutcome, CanonicalOutcome, ActiveHere, Machine
<1> DEFINE Good(n) == /\ n.next = operation /\ Issued(n) /\ AsksFor(n, operation, graph)
                      /\ \A id \in 1 .. m.next, g \in Graph : AsksFor(m, id, g) => AsksFor(n, id, g)
                      /\ \A w \in n.waiters : w.id <= m.next /\ w.result = "ok"
                             => \E v \in m.waiters : v.id = w.id /\ v.result = "ok"
<1> SUFFICES Good(submitted)
  BY <1>1 DEF Carries, TellsNobody
<1> HIDE DEF operation, outcome, waiter, waiting, intended, request, submitted
\* The new waiter changes nothing for the others.
<1>9. ASSUME NEW k \in Machine, k.waiters = m.waiters \union {waiter}, k.next = operation,
             k.job = m.job, k.queued = m.queued
      PROVE  Good(k)
  <2>1. \A w \in m.waiters : w.id <= m.next /\ w.operation <= m.next /\ w.id \in Nat /\ w.operation \in Nat
    BY DEF Issued, Machine, Waiter
  <2>2. /\ m.job # None => m.job.request.operation <= m.next /\ m.job.request.operation \in Nat
        /\ m.queued # None => m.queued.operation <= m.next /\ m.queued.operation \in Nat
    BY DEF Issued, Machine, Job, Request
  <2>3. Distinct(k)
    BY <1>1, <1>5, <1>9, <2>1 DEF Distinct, Issued
  <2>4. Issued(k)
    <3>1. \A w \in k.waiters : w.id <= k.next /\ w.operation <= k.next
      BY <1>1, <1>5, <1>9, <2>1
    <3>2. /\ k.job # None => k.job.request.operation <= k.next
          /\ k.queued # None => k.queued.operation <= k.next
      BY <1>1, <1>9, <2>2
    <3>3. k.job # None /\ k.queued # None /\ k.job.request.operation = k.queued.operation
              => k.job.request.graph = k.queued.graph
      BY <1>9 DEF Issued
    <3> QED BY <2>3, <3>1, <3>2, <3>3 DEF Issued
  <2>5. AsksFor(k, operation, graph)
    <3>1. ASSUME NEW w \in k.waiters, w.id = operation PROVE w = waiter
      BY <1>1, <1>9, <2>1, <3>1
    <3>2. ~RunsOperation(k, operation) /\ ~(k.queued # None /\ k.queued.operation = operation)
      BY <1>1, <1>9, <2>2 DEF RunsOperation
    <3> QED BY <1>5, <3>1, <3>2 DEF AsksFor
  <2>6. ASSUME NEW id \in 1 .. m.next, NEW g \in Graph, AsksFor(m, id, g)
        PROVE  AsksFor(k, id, g)
    BY <1>1, <1>5, <1>9, <2>6 DEF AsksFor, RunsOperation
  <2>7. \A w \in k.waiters : w.id <= m.next /\ w.result = "ok"
            => \E v \in m.waiters : v.id = w.id /\ v.result = "ok"
    BY <1>1, <1>5, <1>9
  <2> QED BY <1>9, <2>4, <2>5, <2>6, <2>7
\* From then on nobody but the new waiter is told of success.
<1>10. Good(intended) /\ \A w \in intended.waiters : w.id # operation => w.operation <= m.next
  BY <1>3, <1>5, <1>9 DEF Issued
<1>11. \A w \in intended.waiters : w.id = operation => w.operation = operation
  <2>1. \A w \in m.waiters : w.id # operation
    BY <1>1 DEF Issued, Machine, Waiter
  <2> QED BY <1>3, <1>5, <2>1
<1>12. ASSUME NEW n \in Machine, Moves(intended, n, {operation}) PROVE Good(n)
  <2>1. n.next = operation /\ Issued(n)
    BY <1>3, <1>10, <1>12, MovesCarry DEF Moves, Carries
  <2>2. AsksFor(n, operation, graph)
    BY <1>10, <1>12, MovesAsk
  <2>3. \A id \in 1 .. m.next, g \in Graph : AsksFor(m, id, g) => AsksFor(n, id, g)
    BY <1>10, <1>12, MovesAsk
  <2>4. ASSUME NEW w \in n.waiters, w.id <= m.next, w.result = "ok"
        PROVE  \E v \in m.waiters : v.id = w.id /\ v.result = "ok"
    <3>1. PICK v \in intended.waiters :
              /\ v.id = w.id /\ v.operation = w.operation
              /\ \/ v.result = w.result
                 \/ v.result = None /\ (w.result = "ok" => w.operation \in {operation})
      BY <1>12 DEF Moves
    <3>2. w.id # operation /\ v.operation # operation
      <4>1. v \in Waiter
        BY <1>3 DEF Machine
      <4>2. w.id # operation
        BY <1>1, <2>4, <3>1, <4>1 DEF Waiter
      <4>3. v.operation <= m.next
        BY <1>10, <3>1, <4>2
      <4> QED BY <1>1, <4>2, <4>3
    <3> QED BY <1>10, <2>4, <3>1, <3>2
  <2> QED BY <2>1, <2>2, <2>3, <2>4
<1>13. Issued(intended) /\ Distinct(intended)
  BY <1>10 DEF Issued
<1>14. base \in Machine /\ base.job = m.job /\ base.active = m.active /\ Moves(intended, base, {})
  <2>1. base \in Machine /\ base.job = m.job
    BY <1>3, SupersedeQueuedCanonicalType
  <2>2. base.active = intended.active /\ intended.active = m.active
    BY <1>3, SupersedeQueuedCanonicalType DEF intended, waiting, Machine
  <2> QED BY <1>3, <1>13, <2>1, <2>2, SupersedeMoves
<1> HIDE DEF base
<1>15. CASE outcome \in {"shuttingDown", "superseded"}
  <2>1. outcome \in Result \ {"ok"} /\ submitted = CompleteWaiters(waiting, {operation}, outcome)
    BY <1>6, <1>15 DEF Result, Error
  <2>2. Good(waiting) /\ Distinct(waiting)
    BY <1>2, <1>9 DEF Issued
  <2>3. submitted \in Machine /\ Moves(waiting, submitted, {})
    BY <1>2, <2>1, <2>2, AnswersMove, CompleteWaitersType
  <2>4. Issued(submitted) /\ submitted.next = operation
    BY <1>2, <2>2, <2>3, MovesCarry DEF Moves, Carries
  <2>5. /\ AsksFor(submitted, operation, graph)
        /\ \A id \in 1 .. m.next, g \in Graph : AsksFor(m, id, g) => AsksFor(submitted, id, g)
    BY <2>2, <2>3, MovesAsk
  <2>6. ASSUME NEW w \in submitted.waiters, w.id <= m.next, w.result = "ok"
        PROVE  \E v \in m.waiters : v.id = w.id /\ v.result = "ok"
    <3>1. PICK v \in waiting.waiters : v.id = w.id /\ v.result = "ok"
      BY <2>3, <2>6 DEF Moves
    <3> QED BY <2>2, <2>6, <3>1
  <2> QED BY <2>4, <2>5, <2>6
<1>16. CASE outcome = "adopted"
  <2> DEFINE active == [base.active EXCEPT !.key = key, !.origin = Canonical]
             adopted == [base EXCEPT !.active = active]
  <2>1. base.active \in ActiveGraph
    BY <1>8, <1>14, <1>16 DEF Machine
  <2>2. [base EXCEPT !.active.key = key, !.active.origin = Canonical] = adopted
    BY <1>14, <2>1 DEF Machine, ActiveGraph
  <2>3. active \in ActiveGraph
    BY <2>1 DEF ActiveGraph, Origin, Canonical
  <2> HIDE DEF active
  <2>4. /\ adopted \in Machine /\ adopted.waiters = base.waiters /\ adopted.job = base.job
        /\ adopted.queued = base.queued /\ adopted.next = base.next
    BY <1>14, <2>3 DEF Machine
  <2>5. submitted = CompleteWaiters([base EXCEPT !.active.key = key, !.active.origin = Canonical],
                                    {operation}, "ok")
    BY <1>6, <1>16
  <2>6. submitted = CompleteWaiters(adopted, {operation}, "ok")
    BY <2>2, <2>5, Zenon
  <2> HIDE DEF adopted
  <2>7. Moves(base, adopted, {}) /\ Distinct(base) /\ Distinct(adopted)
    <3>1. Distinct(base)
      BY <1>14 DEF Moves
    <3> QED BY <1>14, <2>4, <3>1, WorkMoves DEF SameWork, Distinct
  <2>8. \A w \in adopted.waiters : w.id \in {operation} => w.operation \in {operation}
    BY <1>11, <1>14, <2>4 DEF Moves
  <2>9. "ok" \in Result
    BY DEF Result
  <2>10. submitted \in Machine /\ Moves(adopted, submitted, {operation})
    BY <2>4, <2>6, <2>7, <2>8, <2>9, AnswersMove, CompleteWaitersType
  <2>11. Moves(intended, adopted, {operation})
    BY <1>14, <2>7, MovesAgain, MovesMore
  <2> QED BY <1>12, <2>10, <2>11, MovesAgain
<1>17. CASE outcome = "joinsJob"
  <2> DEFINE joined == m.job.request.operation
  <2>1. submitted = Alias(base, operation, joined)
    BY <1>6, <1>17
  <2>2. Good(base)
    BY <1>12, <1>14, MovesMore
  <2>3. m.job # None /\ m.job.request.graph = graph /\ base.job = m.job
    BY <1>8, <1>14, <1>17
  <2>4. joined \in 1 .. base.next
    BY <1>1, <2>2, <2>3 DEF Issued, Machine, Job, Request
  <2>5. base.queued # None /\ base.queued.operation = joined => base.queued.graph = graph
    BY <2>2, <2>3 DEF Issued
  <2> HIDE DEF joined
  <2>6. /\ Issued(submitted) /\ submitted.next = base.next /\ AsksFor(submitted, operation, graph)
        /\ \A other : other # operation => \A g : AsksFor(base, other, g) => AsksFor(submitted, other, g)
        /\ \A w \in submitted.waiters : \E v \in base.waiters : v.id = w.id /\ v.result = w.result
    BY <1>14, <2>1, <2>2, <2>3, <2>4, <2>5, AliasAsks
  <2>7. \A id \in 1 .. m.next : id # operation
    BY <1>1
  <2>8. \A id \in 1 .. m.next, g \in Graph : AsksFor(m, id, g) => AsksFor(submitted, id, g)
    BY <2>2, <2>6, <2>7
  <2> QED BY <2>2, <2>6, <2>8
<1>18. CASE outcome = "joinsQueued"
  <2> DEFINE joined == m.queued.operation
             aliased == Alias(intended, operation, joined)
             queued == [m.queued EXCEPT !.key = key, !.origin = Canonical]
  <2>1. m.queued # None /\ m.queued.graph = graph /\ m.queued \in Request
    BY <1>8, <1>18 DEF Machine
  <2>2. joined \in Nat \ {0} /\ joined \in 1 .. intended.next
    BY <1>1, <1>3, <1>10, <2>1 DEF Issued, Request
  <2>3. RunsOperation(intended, joined) => intended.job.request.graph = graph
    BY <1>3, <1>10, <2>1 DEF Issued, RunsOperation
  <2>4. intended.queued # None /\ intended.queued.operation = joined => intended.queued.graph = graph
    BY <1>3, <2>1
  <2>5. aliased \in Machine /\ aliased.job = m.job /\ aliased.queued = m.queued
    BY <1>3, <2>2, AliasType
  <2>6. submitted = [aliased EXCEPT !.queued.key = key, !.queued.origin = Canonical]
    BY <1>6, <1>18
  <2>7. queued \in Request /\ SameWork(queued, m.queued)
    BY <2>1 DEF Request, Origin, Canonical, SameWork
  <2>8. submitted = [aliased EXCEPT !.queued = queued]
    BY <2>1, <2>5, <2>6 DEF Machine, Request
  <2> HIDE DEF queued
  <2>9. /\ Issued(aliased) /\ aliased.next = operation /\ AsksFor(aliased, operation, graph)
        /\ \A other : other # operation => \A g : AsksFor(intended, other, g) => AsksFor(aliased, other, g)
        /\ \A w \in aliased.waiters : \E v \in intended.waiters : v.id = w.id /\ v.result = w.result
    <3> HIDE DEF joined
    <3> QED BY <1>3, <1>10, <2>2, <2>3, <2>4, AliasAsks
  <2> HIDE DEF joined, aliased
  <2>10. /\ submitted \in Machine /\ submitted.waiters = aliased.waiters /\ submitted.job = aliased.job
         /\ submitted.queued = queued /\ submitted.next = aliased.next
    BY <2>5, <2>7, <2>8 DEF Machine
  <2>11. Moves(aliased, submitted, {})
    BY <2>1, <2>5, <2>7, <2>9, <2>10, WorkMoves DEF SameWork, Issued
  <2>12. Issued(submitted) /\ submitted.next = operation /\ AsksFor(submitted, operation, graph)
    BY <2>5, <2>9, <2>10, <2>11, MovesCarry, MovesAsk DEF Carries
  <2>13. \A id \in 1 .. m.next : id # operation
    BY <1>1
  <2>14. \A id \in 1 .. m.next, g \in Graph : AsksFor(m, id, g) => AsksFor(submitted, id, g)
    BY <1>10, <2>9, <2>11, <2>13, MovesAsk
  <2>15. \A w \in submitted.waiters : w.id <= m.next /\ w.result = "ok"
             => \E v \in m.waiters : v.id = w.id /\ v.result = "ok"
    BY <1>10, <2>9, <2>10
  <2> QED BY <2>12, <2>14, <2>15
<1>19. CASE outcome = "queued"
  <2>1. submitted = Enqueue(intended, request)
    BY <1>6, <1>19
  <2>2. /\ m.job # None => m.job.request.operation < operation
        /\ m.queued # None => m.queued.operation < operation
    BY <1>1 DEF Issued, Machine, Job, Request
  <2>3. /\ Issued(submitted) /\ submitted.next = operation
        /\ \A id, g : /\ AsksFor(intended, id, g)
                      /\ \A w \in intended.waiters : w.id = id /\ w.operation = request.operation
                             => g = request.graph
                      => AsksFor(submitted, id, g)
        /\ \A w \in submitted.waiters : w.result = "ok"
               => \E v \in intended.waiters : v.id = w.id /\ v.result = "ok"
    BY <1>3, <1>4, <1>10, <2>1, <2>2, EnqueueAsks
  <2>4. AsksFor(submitted, operation, graph)
    BY <1>4, <1>10, <2>3
  <2>5. ASSUME NEW id \in 1 .. m.next, NEW g \in Graph, AsksFor(m, id, g)
        PROVE  AsksFor(submitted, id, g)
    <3>1. id # operation
      BY <1>1
    <3>2. \A w \in intended.waiters : w.id = id => w.operation # request.operation
      BY <1>1, <1>4, <1>10, <3>1
    <3> QED BY <1>10, <2>3, <2>5, <3>2
  <2>6. \A w \in submitted.waiters : w.id <= m.next /\ w.result = "ok"
             => \E v \in m.waiters : v.id = w.id /\ v.result = "ok"
    BY <1>10, <2>3
  <2> QED BY <2>3, <2>4, <2>5, <2>6
<1> QED BY <1>7, <1>15, <1>16, <1>17, <1>18, <1>19

-----------------------------------------------------------------------------
(* Steps.                                                                  *)

\* What SuccessIsActive says of a step.
ToldTruly ==
    \A c \in Caller :
        /\ call[c].at \in {"waiting", "expiring"}
        /\ WaiterResult(machine, call[c].operation) = None
        /\ WaiterResult(machine', call[c].operation) = "ok"
        => ActiveHere(machine') /\ machine'.active.graph = call[c].graph

\* A waiter that has no result now has one, and it is success.
LEMMA NewlyTold ==
    ASSUME NEW m \in Machine, Distinct(m), NEW n, NEW id,
           WaiterResult(m, id) = None, WaiterResult(n, id) = "ok"
    PROVE  /\ \E w \in n.waiters : w.id = id /\ w.result = "ok"
           /\ \A v \in m.waiters : v.id = id => v.result = None
<1>1. "ok" # None
  BY NoneAssumption DEF Result
<1>2. \E w \in n.waiters : w.id = id /\ w.result = "ok"
  <2>1. \E w \in n.waiters : w.id = id
    BY <1>1 DEF WaiterResult
  <2> DEFINE w == CHOOSE w \in n.waiters : w.id = id
  <2>2. w \in n.waiters /\ w.id = id
    BY <2>1
  <2>3. w.result = "ok"
    BY <2>1 DEF WaiterResult
  <2> QED BY <2>2, <2>3
<1>3. ASSUME NEW v \in m.waiters, v.id = id PROVE v.result = None
  <2> DEFINE w == CHOOSE w \in m.waiters : w.id = id
  <2>1. w \in m.waiters /\ w.id = id
    BY <1>3
  <2>2. w = v
    BY <1>3, <2>1 DEF Distinct
  <2>3. w.result = None
    BY <1>3 DEF WaiterResult
  <2> QED BY <2>2, <2>3
<1> QED BY <1>2, <1>3

\* The callers that wait, wait for the same as before.
LEMMA AnswerKept ==
    ASSUME IInv, AnswerInv, Carries(machine, machine'),
           \A c \in Caller : call'[c].at \in {"waiting", "expiring"} =>
               \/ /\ call[c].at \in {"waiting", "expiring"}
                  /\ call'[c].operation = call[c].operation /\ call'[c].graph = call[c].graph
               \/ AsksFor(machine', call'[c].operation, call'[c].graph)
    PROVE  AnswerInv'
<1> SUFFICES ASSUME NEW c \in Caller, call[c].at \in {"waiting", "expiring"}
             PROVE  AsksFor(machine', call[c].operation, call[c].graph)
  BY DEF AnswerInv, Carries
<1>1. call[c].operation \in 1 .. machine.next /\ call[c].graph \in Graph
  BY BusyCall DEF IInv, WaitsForIssued
<1>2. AsksFor(machine, call[c].operation, call[c].graph)
  BY DEF AnswerInv
<1> QED BY <1>1, <1>2 DEF Carries

LEMMA NobodyTold ==
    ASSUME IInv, AnswerInv, TellsNobody(machine, machine')
    PROVE  ToldTruly
<1> SUFFICES ASSUME NEW c \in Caller, call[c].at \in {"waiting", "expiring"},
                    WaiterResult(machine, call[c].operation) = None,
                    WaiterResult(machine', call[c].operation) = "ok"
             PROVE  FALSE
  BY DEF ToldTruly
<1>1. machine \in Machine /\ Distinct(machine)
  BY DEF IInv, TypeOK, StateOK, AnswerInv, Issued
<1>2. call[c].operation \in 1 .. machine.next /\ machine.next \in Nat
  BY <1>1 DEF IInv, WaitsForIssued, Machine
<1>3. PICK w \in machine'.waiters : w.id = call[c].operation /\ w.result = "ok"
  BY <1>1, NewlyTold
<1>4. PICK v \in machine.waiters : v.id = call[c].operation /\ v.result = "ok"
  BY <1>2, <1>3 DEF TellsNobody
<1>5. v.result = None
  BY <1>1, <1>4, NewlyTold
<1> QED BY <1>4, <1>5, NoneAssumption DEF Result

\* The machine moves, and no caller begins to wait.
LEMMA QuietAnswers ==
    ASSUME IInv, AnswerInv, machine' \in Machine, Moves(machine, machine', {}),
           \A c \in Caller : call'[c].at \in {"waiting", "expiring"} =>
               /\ call[c].at \in {"waiting", "expiring"}
               /\ call'[c].operation = call[c].operation /\ call'[c].graph = call[c].graph
    PROVE  AnswerInv' /\ ToldTruly
<1>1. Carries(machine, machine') /\ TellsNobody(machine, machine')
  BY MovesCarry DEF IInv, TypeOK, StateOK, AnswerInv
<1> QED BY <1>1, AnswerKept, NobodyTold

LEMMA SubmitAnswers ==
    ASSUME IInv, IInv', AnswerInv, NEW c \in Caller, SubmitProjection(c)
    PROVE  AnswerInv' /\ ToldTruly
<1> DEFINE observed == GenerationObserved(machine, native.generation)
           timed == call[c].purpose \notin Untimed
           canonical == call[c].purpose \notin Proposing
           submitted == Submit(observed, call[c].key, call[c].graph, timed, canonical)
<1>1. machine \in Machine /\ machine' \in Machine /\ Issued(machine) /\ Distinct(machine)
  BY DEF IInv, TypeOK, StateOK, AnswerInv, Issued
<1>2. observed \in Machine /\ Moves(machine, observed, {})
  BY <1>1, Shapes, EnvironmentMoves
<1>3. Carries(machine, observed) /\ TellsNobody(machine, observed) /\ Issued(observed)
  BY <1>1, <1>2, MovesCarry DEF Carries
<1>4. call[c].at = "submit" /\ call[c].key \in Key /\ call[c].graph \in Graph
  BY BusyCall DEF SubmitProjection
<1>5. \/ machine' = RemoveWaiter(submitted, submitted.next) /\ \E ok \in BOOLEAN : Return(c, ok)
      \/ /\ machine' = submitted
         /\ call' = [call EXCEPT ![c].at = "waiting", ![c].operation = submitted.next]
  BY DEF SubmitProjection
<1>6. timed \in BOOLEAN /\ canonical \in BOOLEAN
  OBVIOUS
<1> HIDE DEF observed, timed, canonical
<1>7. submitted \in Machine
  BY <1>2, <1>4, <1>6, SubmitType
<1>8. /\ AsksFor(submitted, submitted.next, call[c].graph)
      /\ Carries(observed, submitted) /\ TellsNobody(observed, submitted)
  BY <1>2, <1>3, <1>4, <1>6, SubmitAsks
<1> HIDE DEF submitted
<1>9. Carries(machine, submitted) /\ TellsNobody(machine, submitted) /\ Issued(submitted)
  BY <1>1, <1>2, <1>3, <1>7, <1>8, CarriesAgain DEF Carries
<1>10. CASE machine' = RemoveWaiter(submitted, submitted.next) /\ \E ok \in BOOLEAN : Return(c, ok)
  <2>1. Moves(submitted, machine', {})
    BY <1>7, <1>9, <1>10, EventsMove DEF Issued
  <2>2. Carries(submitted, machine') /\ TellsNobody(submitted, machine')
    BY <1>1, <1>7, <1>9, <2>1, MovesCarry
  <2>3. Carries(machine, machine') /\ TellsNobody(machine, machine')
    BY <1>1, <1>7, <1>9, <2>2, CarriesAgain
  <2>4. \A d \in Caller : call'[d].at \in {"waiting", "expiring"} => call'[d] = call[d]
    BY <1>4, <1>10, ReturnType
  <2> QED BY <2>3, <2>4, AnswerKept, NobodyTold
<1>11. CASE /\ machine' = submitted
            /\ call' = [call EXCEPT ![c].at = "waiting", ![c].operation = submitted.next]
  <2>1. call[c] \in Call /\ call \in [Caller -> Call \union {Idle}]
    BY <1>4, BusyCall, Shapes
  <2>2. /\ call'[c].operation = machine'.next /\ call'[c].graph = call[c].graph
        /\ \A d \in Caller \ {c} : call'[d] = call[d]
    BY <1>11, <2>1 DEF Call
  <2> QED BY <1>8, <1>9, <1>11, <2>2, AnswerKept, NobodyTold
<1> QED BY <1>5, <1>10, <1>11

LEMMA CallerAnswers ==
    ASSUME IInv, IInv', AnswerInv, NEW c \in Caller, CallerStep(c)
    PROVE  AnswerInv' /\ ToldTruly
<1> DEFINE observed == GenerationObserved(machine, native.generation)
<1>1. machine \in Machine /\ machine' \in Machine /\ Distinct(machine) /\ Moves(machine, machine, {})
  BY EventsMove DEF IInv, TypeOK, StateOK, AnswerInv, Issued
<1>2. observed \in Machine /\ Moves(machine, observed, {}) /\ Distinct(observed)
  BY <1>1, Shapes, EnvironmentMoves DEF Moves
<1> HIDE DEF observed
<1>3. CASE Edit(c) \/ Resync(c) \/ ChangeAudioDevice(c) \/ ProposeDevice(c) \/ OpenProject(c)
  <2>1. \E purpose \in AllPurposes, next \in Intent : ToSubmit(c, purpose, next)
    BY <1>3, Shapes DEF Edit, Resync, ChangeAudioDevice, ProposeDevice, OpenProject, AllPurposes, NextKeys, Intent
  <2>2. machine' \in {machine, AudioEnvironmentAdvanced(observed)}
    BY <1>3 DEF Edit, Resync, ChangeAudioDevice, ProposeDevice, OpenProject, observed
  <2>3. Moves(machine, AudioEnvironmentAdvanced(observed), {})
    BY <1>2, EnvironmentMoves, MovesAgain, 0 \in Nat
  <2> QED BY <1>1, <2>1, <2>2, <2>3, ToSubmitType, QuietAnswers
<1>4. CASE SubmitProjection(c)
  BY <1>4, SubmitAnswers
<1>5. CASE PollGeneration(c)
  BY <1>1, <1>2, <1>5, QuietAnswers DEF PollGeneration, observed
<1>6. CASE CollectResult(c)
  <2>1. call[c].at # "idle" /\ \E ok \in BOOLEAN : Return(c, ok)
    BY <1>6 DEF CollectResult
  <2>2. machine' = RemoveWaiter(machine, call[c].operation)
    BY <1>6 DEF CollectResult
  <2> QED BY <1>1, <2>1, <2>2, EventsMove, ReturnType, QuietAnswers
<1>7. CASE GiveUp(c) \/ ReportDeadline(c)
  <2>1. /\ \E at \in CallAt : call' = [call EXCEPT ![c].at = at]
        /\ machine' \in {machine, DeadlineReached(machine, call[c].operation)}
        /\ call[c].at \in {"waiting", "expiring"}
    BY <1>7 DEF GiveUp, ReportDeadline, CallAt
  <2>2. \A d \in Caller : call'[d].operation = call[d].operation /\ call'[d].graph = call[d].graph
                          /\ (d # c => call'[d] = call[d])
    BY <2>1, BusyCall, Shapes DEF Call
  <2> QED BY <1>1, <2>1, <2>2, DeadlineMoves, QuietAnswers
<1>8. CASE CommitDevice(c)
  <2>1. call[c].key \in Key /\ call[c].graph \in Graph /\ machine' = machine
    BY <1>8, BusyCall DEF CommitDevice
  <2>2. \/ \E purpose \in AllPurposes, next \in Intent : ToSubmit(c, purpose, next)
        \/ call' = [call EXCEPT ![c] = Idle]
    BY <1>8, <2>1, Shapes DEF CommitDevice, AllPurposes, Intent
  <2>3. \A d \in Caller : call'[d].at \in {"waiting", "expiring"} => call'[d] = call[d]
    <3>1. CASE call' = [call EXCEPT ![c] = Idle]
      BY <3>1, Shapes DEF Idle
    <3> QED BY <2>2, <3>1, ToSubmitType
  <2> QED BY <1>1, <2>1, <2>3, QuietAnswers
<1>9. CASE PromoteProject(c)
  <2>1. call[c].key \in Key /\ call[c].graph \in Graph /\ machine' = Promote(observed, call[c].key)
    BY <1>9, BusyCall DEF PromoteProject, observed
  <2>2. \E purpose \in AllPurposes, next \in Intent : ToSubmit(c, purpose, next)
    BY <1>9, <2>1, Shapes DEF PromoteProject, AllPurposes, Intent
  <2>3. Moves(machine, machine', {})
    BY <1>2, <2>1, EventsMove, MovesAgain
  <2> QED BY <1>1, <2>2, <2>3, ToSubmitType, QuietAnswers
<1> QED BY <1>3, <1>4, <1>5, <1>6, <1>7, <1>8, <1>9 DEF CallerStep

\* Success is told when the machine learns of a commit: the job's graph is
\* active, and it is what everybody who waits for the job asked for.
LEMMA CommitAnswers ==
    ASSUME IInv, IInv', AnswerInv, ReportCommitted
    PROVE  AnswerInv' /\ ToldTruly
<1>1. machine \in Machine /\ machine' \in Machine /\ Issued(machine) /\ Distinct(machine) /\ call' = call
  BY DEF IInv, TypeOK, StateOK, AnswerInv, Issued, ReportCommitted
<1>2. worker.result \in Result \union {"retryable"}
  BY Shapes DEF ReportCommitted
<1>3. machine' = Committed(machine, worker.request.operation, worker.result, late)
  BY DEF ReportCommitted
<1>4. CASE Moves(machine, machine', {})
  BY <1>1, <1>4, QuietAnswers
<1>5. CASE /\ machine.job # None /\ Moves(machine, machine', {machine.job.request.operation})
           /\ ActiveHere(machine') /\ machine'.active.graph = machine.job.request.graph
  <2>1. AnswerInv'
    BY <1>1, <1>5, MovesCarry, AnswerKept
  <2>2. ASSUME NEW c \in Caller, call[c].at \in {"waiting", "expiring"},
               WaiterResult(machine, call[c].operation) = None,
               WaiterResult(machine', call[c].operation) = "ok"
        PROVE  machine'.active.graph = call[c].graph
    <3>1. PICK w \in machine'.waiters : w.id = call[c].operation /\ w.result = "ok"
      BY <1>1, <2>2, NewlyTold
    <3>2. PICK v \in machine.waiters :
              /\ v.id = w.id /\ v.operation = w.operation
              /\ \/ v.result = w.result
                 \/ v.result = None /\ (w.result = "ok" => w.operation \in {machine.job.request.operation})
      BY <1>5 DEF Moves
    <3>3. v.result = None
      BY <1>1, <2>2, <3>1, <3>2, NewlyTold
    <3>4. v.operation = machine.job.request.operation
      BY <3>1, <3>2, <3>3, NoneAssumption DEF Result
    <3>5. AsksFor(machine, call[c].operation, call[c].graph)
      BY <2>2 DEF AnswerInv
    <3>6. machine.job.request.graph = call[c].graph
      BY <1>5, <3>1, <3>2, <3>3, <3>4, <3>5 DEF AsksFor, RunsOperation
    <3> QED BY <1>5, <3>6
  <2> QED BY <1>5, <2>1, <2>2 DEF ToldTruly
<1> QED BY <1>1, <1>2, <1>3, <1>4, <1>5, ReportsMove

LEMMA OtherAnswers ==
    ASSUME IInv, IInv', AnswerInv,
           WorkerStep \/ Expire \/ FinishAbandoned \/ RestartSidecar \/ QueryStatus
               \/ ReportTransportFailure \/ Shutdown \/ UNCHANGED vars
    PROVE  AnswerInv' /\ ToldTruly
<1>1. machine \in Machine /\ machine' \in Machine /\ Distinct(machine) /\ Moves(machine, machine, {})
  BY EventsMove DEF IInv, TypeOK, StateOK, AnswerInv, Issued
<1>2. CASE ReportCommitted
  BY <1>2, CommitAnswers
<1>3. CASE WorkerStep /\ ~ReportCommitted
  <2>1. call' = call
    BY <1>3 DEF WorkerStep, TakeWork, PrepareSnapshot, WaitForIdle, ObserveBeforeReport,
                ReportPrepared, CommitSnapshot, DiscardSnapshot
  <2>2. Moves(machine, machine', {})
    <3>1. CASE TakeWork \/ PrepareSnapshot \/ CommitSnapshot \/ DiscardSnapshot
      BY <1>1, <3>1 DEF TakeWork, PrepareSnapshot, CommitSnapshot, DiscardSnapshot
    <3>2. CASE ObserveBeforeReport
      BY <1>1, <3>2, Shapes, EnvironmentMoves DEF ObserveBeforeReport
    <3>3. CASE WaitForIdle
      <4>1. {"timeout", "failed"} \subseteq Result
        BY DEF Result, Error
      <4>2. \/ machine' = machine
            \/ \E result \in {"timeout", "failed"} :
                   machine' = Prepared(machine, worker.request.operation, result, late)
        BY <3>3 DEF WaitForIdle
      <4> QED BY <1>1, <4>1, <4>2, ReportsMove
    <3>4. CASE ReportPrepared
      <4>1. worker.result \in Result \union {"retryable"}
        BY <3>4, Shapes DEF ReportPrepared
      <4>2. machine' = Prepared(machine, worker.request.operation, worker.result, late)
        BY <3>4 DEF ReportPrepared
      <4> QED BY <1>1, <4>1, <4>2, ReportsMove
    <3> QED BY <1>3, <3>1, <3>2, <3>3, <3>4 DEF WorkerStep
  <2> QED BY <1>1, <2>1, <2>2, QuietAnswers
<1>4. CASE Expire \/ FinishAbandoned \/ RestartSidecar \/ UNCHANGED vars
  <2>1. machine' = machine /\ call' = call
    BY <1>4 DEF Expire, FinishAbandoned, RestartSidecar, vars
  <2> QED BY <1>1, <2>1, QuietAnswers
<1>5. CASE QueryStatus \/ ReportTransportFailure \/ Shutdown
  <2>1. /\ call' = call
        /\ machine' \in {GenerationObserved(machine, native.generation), MarkFailed(machine), Stopped(machine)}
    BY <1>5 DEF QueryStatus, ReportTransportFailure, Shutdown
  <2>2. Moves(machine, machine', {})
    BY <1>1, <2>1, Shapes, EnvironmentMoves, EventsMove
  <2> QED BY <1>1, <2>1, <2>2, QuietAnswers
<1> QED BY <1>2, <1>3, <1>4, <1>5

LEMMA AnswerInit == Init => AnswerInv
<1>1. NewMachine(1).waiters = {} /\ NewMachine(1).queued = None /\ NewMachine(1).job = None
  BY DEF NewMachine
<1>2. Idle.at = "idle"
  BY DEF Idle
<1> QED BY <1>1, <1>2 DEF Init, AnswerInv, Issued, Distinct

LEMMA AnswerStep == IInv /\ IInv' /\ AnswerInv /\ [Next]_vars => AnswerInv' /\ ToldTruly
<1> QED BY CallerAnswers, OtherAnswers DEF Next

\* The inductive invariant of the waiters' answers.
THEOREM AnswersAreOwed == Spec => []AnswerInv
<1> QED BY Invariance, AnswerInit, AnswerStep, PTL DEF Spec

\* SuccessIsActive: whoever is told of success is told in the step that leaves
\* the graph submitted active, also by way of another submission's operation.
THEOREM SuccessIsTrue == Spec => SuccessIsActive
<1>1. ToldTruly => [\A c \in Caller :
                      /\ call[c].at \in {"waiting", "expiring"}
                      /\ WaiterResult(machine, call[c].operation) = None
                      /\ WaiterResult(machine', call[c].operation) = "ok"
                      => ActiveHere(machine') /\ machine'.active.graph = call[c].graph]_vars
  BY DEF ToldTruly
<1> QED BY <1>1, Invariance, AnswersAreOwed, AnswerStep, PTL DEF Spec, SuccessIsActive

-----------------------------------------------------------------------------
(* Proposals.                                                              *)

\* A proposal plays; and nothing is under way that will decide about it.
Plays(m) == ActiveHere(m) /\ m.active.origin # Canonical
Undecided(m) == Plays(m) /\ m.job = None /\ m.error = None

\* Whoever waits as `operation` waits for its own operation and has no answer.
Awaited(m, operation) ==
    \A w \in m.waiters : w.id = operation => w.result = None /\ w.operation = operation

\* A proposal is one of the operations in `owned`, and awaited.
Pending(m, request, owned) ==
    request.origin # Canonical => request.operation \in owned /\ Awaited(m, request.operation)

\* Requests are told apart by their operations, and environments follow each
\* other.
Numbered(m) ==
    /\ m.queued # None => /\ m.job # None /\ m.queued.operation <= m.next
                          /\ m.queued.operation # m.job.request.operation
    /\ m.job # None => /\ m.job.request.operation <= m.next
                       /\ m.job.environment.revision <= m.environment.revision

\* Proposals at work are pending; and while a job of an earlier environment
\* runs, nothing plays.
Tasks(m, owned) ==
    /\ Numbered(m)
    /\ m.queued # None => Pending(m, m.queued, owned)
    /\ m.job # None /\ m.job.environment = m.environment => Pending(m, m.job.request, owned)
    /\ m.job # None /\ m.job.environment # m.environment => ~ActiveHere(m)

\* What is queued as canonical is the canonical graph; and while a canonical job
\* runs whose graph is canonical no more, the request that replaces it is queued
\* or no proposal plays.
Guided(m) ==
    /\ m.queued # None /\ m.queued.origin = Canonical => IsIntended(m, m.queued.graph)
    /\ m.job # None /\ m.job.environment = m.environment /\ m.job.request.origin = Canonical
           => IsIntended(m, m.job.request.graph) \/ m.queued # None \/ ~Plays(m)

Work(m, owned) == Tasks(m, owned) /\ Guided(m)

-----------------------------------------------------------------------------
(* What the operators of the machine do to waiters.                        *)

\* n differs from m in its waiters at most, and those of the operations outside
\* `told` go on waiting.
Tells(m, n, told) ==
    /\ n.environment = m.environment /\ n.canonical = m.canonical /\ n.active = m.active
    /\ n.job = m.job /\ n.queued = m.queued /\ n.error = m.error
    /\ n.stopped = m.stopped /\ n.next = m.next
    /\ \A operation : operation \notin told /\ Awaited(m, operation) => Awaited(n, operation)

LEMMA WaitersTold ==
    ASSUME NEW m \in Machine, NEW ids, NEW result \in Result
    PROVE  Tells(m, CompleteWaiters(m, ids, result), ids)
<1> DEFINE n == CompleteWaiters(m, ids, result)
           told(w) == IF w.id \in ids /\ w.result = None THEN [w EXCEPT !.result = result] ELSE w
<1>1. /\ n.environment = m.environment /\ n.canonical = m.canonical /\ n.active = m.active
      /\ n.job = m.job /\ n.queued = m.queued /\ n.error = m.error
      /\ n.stopped = m.stopped /\ n.next = m.next /\ n.waiters = {told(w) : w \in m.waiters}
  BY DEF CompleteWaiters, Machine
<1>2. \A w \in m.waiters : told(w).id = w.id /\ (w.id \notin ids => told(w) = w)
  BY DEF Machine, Waiter
<1> HIDE DEF n, told
<1>3. ASSUME NEW operation, operation \notin ids, Awaited(m, operation)
      PROVE  Awaited(n, operation)
  BY <1>1, <1>2, <1>3 DEF Awaited
<1> QED BY <1>1, <1>3 DEF Tells, n

LEMMA OperationTold ==
    ASSUME NEW m \in Machine, NEW operation, NEW result \in Result
    PROVE  Tells(m, CompleteOperation(m, operation, result), {operation})
<1> DEFINE ids == {w.id : w \in {v \in m.waiters : v.operation = operation}}
<1>1. Tells(m, CompleteOperation(m, operation, result), ids)
  BY WaitersTold DEF CompleteOperation
<1>2. ASSUME NEW other, other # operation, Awaited(m, other)
      PROVE  other \notin ids
  BY <1>2 DEF Awaited
<1> QED BY <1>1, <1>2 DEF Tells

LEMMA AliasTells ==
    ASSUME NEW m \in Machine, NEW id, NEW operation
    PROVE  Tells(m, Alias(m, id, operation), {id})
<1> DEFINE n == Alias(m, id, operation)
           renamed(w) == IF w.id = id THEN [w EXCEPT !.operation = operation] ELSE w
<1>1. /\ n.environment = m.environment /\ n.canonical = m.canonical /\ n.active = m.active
      /\ n.job = m.job /\ n.queued = m.queued /\ n.error = m.error
      /\ n.stopped = m.stopped /\ n.next = m.next /\ n.waiters = {renamed(w) : w \in m.waiters}
  BY DEF Alias, Machine
<1>2. \A w \in m.waiters : renamed(w).id = w.id /\ (w.id # id => renamed(w) = w)
  BY DEF Machine, Waiter
<1> HIDE DEF n, renamed
<1>3. ASSUME NEW other, other # id, Awaited(m, other)
      PROVE  Awaited(n, other)
  BY <1>1, <1>2, <1>3 DEF Awaited
<1> QED BY <1>1, <1>3 DEF Tells, n

LEMMA RemovalTells ==
    ASSUME NEW m \in Machine, NEW id
    PROVE  Tells(m, RemoveWaiter(m, id), {})
<1> DEFINE n == RemoveWaiter(m, id)
<1>1. /\ n.environment = m.environment /\ n.canonical = m.canonical /\ n.active = m.active
      /\ n.job = m.job /\ n.queued = m.queued /\ n.error = m.error
      /\ n.stopped = m.stopped /\ n.next = m.next /\ n.waiters \subseteq m.waiters
  BY DEF RemoveWaiter, Machine
<1> HIDE DEF n
<1>2. ASSUME NEW other, Awaited(m, other)
      PROVE  Awaited(n, other)
  BY <1>1, <1>2 DEF Awaited
<1> QED BY <1>1, <1>2 DEF Tells, n

\* Work goes on when those who own it are not told, and no decision is lost.
LEMMA TasksTold ==
    ASSUME NEW m \in Machine, NEW n, NEW told, NEW owned, Tasks(m, owned), Tells(m, n, told),
           m.queued # None /\ m.queued.origin # Canonical => m.queued.operation \notin told,
           m.job # None /\ m.job.environment = m.environment /\ m.job.request.origin # Canonical
               => m.job.request.operation \notin told
    PROVE  Tasks(n, owned)
<1>1. Numbered(n)
  BY DEF Tasks, Numbered, Tells
<1>2. ActiveHere(n) = ActiveHere(m)
  BY DEF ActiveHere, Tells
<1>3. n.queued # None => Pending(n, n.queued, owned)
  BY DEF Tasks, Pending, Tells
<1>4. n.job # None /\ n.job.environment = n.environment => Pending(n, n.job.request, owned)
  BY DEF Tasks, Pending, Tells
<1>5. n.job # None /\ n.job.environment # n.environment => ~ActiveHere(n)
  BY <1>2 DEF Tasks, Tells
<1> QED BY <1>1, <1>3, <1>4, <1>5 DEF Tasks

LEMMA WorkTold ==
    ASSUME NEW m \in Machine, NEW n, NEW told, NEW owned, Work(m, owned), Tells(m, n, told),
           m.queued # None /\ m.queued.origin # Canonical => m.queued.operation \notin told,
           m.job # None /\ m.job.environment = m.environment /\ m.job.request.origin # Canonical
               => m.job.request.operation \notin told
    PROVE  Work(n, owned)
<1>1. Tasks(n, owned)
  BY TasksTold DEF Work
<1>2. /\ \A graph : IsIntended(m, graph) => IsIntended(n, graph)
      /\ Plays(n) = Plays(m)
  BY DEF IsIntended, ActiveHere, Plays, Tells
<1>3. Guided(n)
  BY <1>2 DEF Work, Guided, Tells
<1> QED BY <1>1, <1>3 DEF Work

LEMMA UndecidedTold ==
    ASSUME NEW m, NEW n, NEW told, Tells(m, n, told)
    PROVE  Undecided(n) = Undecided(m)
BY DEF Tells, Undecided, Plays, ActiveHere

\* More owners own no less.
LEMMA WorkOwned ==
    ASSUME NEW m, NEW owned, NEW more, owned \subseteq more, Work(m, owned)
    PROVE  Work(m, more)
BY DEF Work, Tasks, Pending

-----------------------------------------------------------------------------
(* What happens to the machine from outside.                               *)

\* The environment stays, or what plays and what is queued is given up.
Renewed(m, n) ==
    \/ n = m
    \/ /\ n.active = None /\ n.queued = None /\ n.job = m.job
       /\ n.canonical = m.canonical /\ n.stopped = m.stopped /\ n.next = m.next
       /\ n.environment.revision > m.environment.revision

LEMMA EnvironmentRenewed ==
    ASSUME NEW m \in Machine, NEW generation \in Nat
    PROVE  Renewed(m, GenerationObserved(m, generation)) /\ Renewed(m, AudioEnvironmentAdvanced(m))
<1>1. m.environment \in Environment
  BY DEF Machine
<1>2. ASSUME NEW e \in Environment, e.revision > m.environment.revision, NEW error \in Error
      PROVE  Renewed(m, Invalidate([m EXCEPT !.environment = e], error))
  <2> DEFINE k == [m EXCEPT !.environment = e]
             cleared == [k EXCEPT !.active = None, !.queued = None, !.error = None, !.target = None]
             n == CompleteWaiters(cleared, WaiterIds(k), error)
  <2>1. k \in Machine /\ k.environment = e /\ k.job = m.job /\ k.canonical = m.canonical
        /\ k.stopped = m.stopped /\ k.next = m.next
    BY <1>2 DEF Machine
  <2> HIDE DEF k
  <2>2. /\ cleared \in Machine /\ cleared.active = None /\ cleared.queued = None
        /\ cleared.environment = e /\ cleared.job = m.job /\ cleared.canonical = m.canonical
        /\ cleared.stopped = m.stopped /\ cleared.next = m.next
    BY <2>1 DEF Machine
  <2> HIDE DEF cleared
  <2>3. error \in Result
    BY DEF Result
  <2>4. Tells(cleared, n, WaiterIds(k))
    BY <2>2, <2>3, WaitersTold
  <2> HIDE DEF n
  <2>5. Renewed(m, n)
    BY <1>2, <2>2, <2>4 DEF Renewed, Tells
  <2>6. n = Invalidate(k, error)
    BY DEF Invalidate, n, cleared
  <2> QED BY <2>5, <2>6 DEF k
<1>3. {"generationChanged", "cancelled"} \subseteq Error
  BY DEF Error
<1>4. Renewed(m, GenerationObserved(m, generation))
  <2> DEFINE e == [generation |-> generation, revision |-> m.environment.revision + 1]
  <2>1. e \in Environment /\ e.revision > m.environment.revision
    BY <1>1 DEF Environment
  <2>2. GenerationObserved(m, generation)
          = IF generation = m.environment.generation THEN m
            ELSE Invalidate([m EXCEPT !.environment = e], "generationChanged")
    BY DEF GenerationObserved
  <2> HIDE DEF e
  <2> QED BY <1>2, <1>3, <2>1, <2>2 DEF Renewed
<1>5. Renewed(m, AudioEnvironmentAdvanced(m))
  <2> DEFINE e == [m.environment EXCEPT !.revision = @ + 1]
  <2>1. e \in Environment /\ e.revision > m.environment.revision
    BY <1>1 DEF Environment
  <2>2. AudioEnvironmentAdvanced(m) = Invalidate([m EXCEPT !.environment = e], "cancelled")
    BY DEF AudioEnvironmentAdvanced, Machine
  <2> HIDE DEF e
  <2> QED BY <1>2, <1>3, <2>1, <2>2
<1> QED BY <1>4, <1>5

LEMMA WorkRenewed ==
    ASSUME NEW m \in Machine, NEW n \in Machine, NEW owned, Renewed(m, n)
    PROVE  /\ n.canonical = m.canonical /\ n.stopped = m.stopped /\ n.next = m.next
           /\ Undecided(n) => Undecided(m)
           /\ Work(m, owned) => Work(n, owned)
<1>1. CASE n = m
  BY <1>1
<1>2. CASE /\ n.active = None /\ n.queued = None /\ n.job = m.job
           /\ n.canonical = m.canonical /\ n.stopped = m.stopped /\ n.next = m.next
           /\ n.environment.revision > m.environment.revision
  <2>1. ~ActiveHere(n)
    BY <1>2 DEF ActiveHere
  <2>2. ASSUME Work(m, owned) PROVE Numbered(n)
    <3>1. m.environment.revision \in Nat /\ n.environment.revision \in Nat
      BY DEF Machine, Environment
    <3>2. m.job # None => m.job.environment.revision \in Nat
      BY DEF Machine, Job, Environment
    <3> QED BY <1>2, <2>2, <3>1, <3>2 DEF Work, Tasks, Numbered
  <2>3. ASSUME Work(m, owned), m.job # None PROVE n.job.environment # n.environment
    <3>1. m.environment.revision \in Nat /\ n.environment.revision \in Nat
      BY DEF Machine, Environment
    <3>2. m.job.environment.revision \in Nat
      BY <2>3 DEF Machine, Job, Environment
    <3> QED BY <1>2, <2>3, <3>1, <3>2 DEF Work, Tasks, Numbered
  <2> QED BY <1>2, <2>1, <2>2, <2>3 DEF Work, Tasks, Guided, Undecided, Plays
<1> QED BY <1>1, <1>2 DEF Renewed

-----------------------------------------------------------------------------
(* The end of a job.                                                       *)

\* A job that is over leaves its owner with no decision but that of what plays
\* now, and only when nothing is queued.
LEMMA FinishWorks ==
    ASSUME NEW m \in Machine, NEW r \in Machine, NEW result \in Result, NEW owned,
           m.job # None, ~m.stopped, Work(m, owned),
           r.environment = m.environment, r.canonical = m.canonical, r.job = m.job,
           r.queued = m.queued, r.waiters = m.waiters, r.stopped = m.stopped, r.next = m.next
    PROVE  LET n == StartQueued(CompleteOperation(r, m.job.request.operation, result))
           IN /\ n.canonical = m.canonical /\ n.stopped = m.stopped /\ Work(n, owned)
              /\ Undecided(n) => m.queued = None /\ Plays(r) /\ r.error = None
<1> DEFINE operation == m.job.request.operation
           told == CompleteOperation(r, operation, result)
           n == StartQueued(told)
<1>1. told \in Machine /\ Tells(r, told, {operation})
  BY CompleteOperationType, OperationTold
<1>2. Tasks(m, owned) /\ Guided(m)
  BY DEF Work
<1>3. ASSUME NEW other, other # operation, Awaited(m, other)
      PROVE  Awaited(told, other)
  <2>1. Awaited(r, other)
    BY <1>3 DEF Awaited
  <2> QED BY <1>1, <1>3, <2>1 DEF Tells
<1>4. /\ told.environment = m.environment /\ told.canonical = m.canonical /\ told.active = r.active
      /\ told.queued = m.queued /\ told.error = r.error /\ told.stopped = m.stopped /\ told.next = m.next
  BY <1>1 DEF Tells
<1> HIDE DEF told
<1>5. CASE m.queued = None
  <2>1. n = [told EXCEPT !.job = None]
    BY <1>4, <1>5 DEF StartQueued
  <2>2. /\ n.environment = m.environment /\ n.canonical = m.canonical /\ n.active = r.active
        /\ n.queued = None /\ n.job = None /\ n.error = r.error /\ n.stopped = m.stopped
    BY <1>1, <1>4, <1>5, <2>1 DEF Machine
  <2> HIDE DEF n
  <2>3. Work(n, owned)
    BY <2>2 DEF Work, Tasks, Guided, Numbered
  <2>4. Undecided(n) => Plays(r) /\ r.error = None
    BY <2>2 DEF Undecided, Plays, ActiveHere
  <2> QED BY <1>5, <2>2, <2>3, <2>4 DEF n, told
<1>6. CASE m.queued # None
  <2> DEFINE job == [request |-> m.queued, phase |-> "preparing", environment |-> m.environment]
  <2>1. n = Start([told EXCEPT !.queued = None], m.queued)
    BY <1>4, <1>6 DEF StartQueued
  <2>2. n = [told EXCEPT !.queued = None, !.job = job]
    BY <1>1, <1>4, <2>1 DEF Start, Machine
  <2>3. job \in Job /\ job.request = m.queued /\ job.environment = m.environment
    BY <1>6 DEF Machine, Job
  <2> HIDE DEF job
  <2>4. /\ n.environment = m.environment /\ n.canonical = m.canonical /\ n.next = m.next
        /\ n.queued = None /\ n.job = job /\ n.waiters = told.waiters /\ n.stopped = m.stopped
    BY <1>1, <1>4, <2>2 DEF Machine
  <2> HIDE DEF n
  <2>5. job # None
    BY <2>3, NoneAssumption
  <2>6. /\ m.queued.operation <= m.next /\ m.queued.operation # operation
        /\ Pending(m, m.queued, owned)
        /\ m.queued.origin = Canonical => IsIntended(m, m.queued.graph)
    BY <1>2, <1>6 DEF Tasks, Guided, Numbered
  <2>7. m.environment.revision \in Nat
    BY DEF Machine, Environment
  <2>8. Numbered(n)
    BY <2>3, <2>4, <2>5, <2>6, <2>7 DEF Numbered
  <2>9. Pending(n, m.queued, owned)
    <3>1. \A w : w \in n.waiters <=> w \in told.waiters
      BY <2>4
    <3> QED BY <1>3, <2>6, <3>1 DEF Pending, Awaited
  <2>10. Tasks(n, owned)
    BY <2>3, <2>4, <2>8, <2>9 DEF Tasks
  <2>11. Guided(n)
    BY <2>3, <2>4, <2>6 DEF Guided, IsIntended
  <2>12. ~Undecided(n)
    BY <2>4, <2>5 DEF Undecided
  <2> QED BY <2>4, <2>10, <2>11, <2>12 DEF Work, n, told
<1> QED BY <1>5, <1>6

\* A job fails: what plays has to be decided about by the owner of the job, if
\* nobody had to before.
LEMMA FinishErrorWorks ==
    ASSUME NEW m \in Machine, NEW error \in Error, NEW owned,
           m.job # None, ~m.stopped, Work(m, owned),
           error = "superseded" => ~JobIsCurrent(m, {})
    PROVE  LET n == FinishError(m, error)
           IN /\ n.canonical = m.canonical /\ n.stopped = m.stopped /\ Work(n, owned)
              /\ Undecided(n) => m.job.request.operation \in owned
<1> DEFINE recorded == IF /\ \/ m.job.request.origin = Canonical
                             \/ IsIntended(m, m.job.request.graph)
                          /\ m.queued = None
                          /\ m.job.environment = m.environment
                          /\ error # "superseded"
                       THEN [m EXCEPT !.error = error] ELSE m
           n == FinishError(m, error)
<1>1. /\ recorded \in Machine
      /\ recorded.environment = m.environment /\ recorded.canonical = m.canonical
      /\ recorded.job = m.job /\ recorded.queued = m.queued /\ recorded.waiters = m.waiters
      /\ recorded.stopped = m.stopped /\ recorded.next = m.next /\ recorded.active = m.active
  BY DEF Machine
<1>2. n = StartQueued(CompleteOperation(recorded, m.job.request.operation, error))
  BY DEF FinishError
<1>3. error \in Result /\ error # None
  BY NoneAssumption DEF Result
<1>4. /\ m.job.request.origin = Canonical /\ m.queued = None /\ m.job.environment = m.environment
      /\ error # "superseded"
      => recorded.error = error
  BY DEF Machine
<1> HIDE DEF recorded, n
<1>5. /\ n.canonical = m.canonical /\ n.stopped = m.stopped /\ Work(n, owned)
      /\ Undecided(n) => m.queued = None /\ Plays(recorded) /\ recorded.error = None
  BY <1>1, <1>2, <1>3, FinishWorks
<1>6. ASSUME Undecided(n) PROVE m.job.request.operation \in owned
  <2>1. Plays(m) /\ m.queued = None
    BY <1>1, <1>5, <1>6 DEF Plays, ActiveHere
  <2>2. m.job.environment = m.environment
    BY <2>1 DEF Work, Tasks, Plays
  <2>3. CASE m.job.request.origin # Canonical
    BY <2>2, <2>3 DEF Work, Tasks, Pending
  <2>4. CASE m.job.request.origin = Canonical
    <3>1. error = "superseded"
      BY <1>3, <1>4, <1>5, <1>6, <2>1, <2>2, <2>4
    <3>2. IsIntended(m, m.job.request.graph)
      BY <2>1, <2>2, <2>4 DEF Work, Guided
    <3>3. JobIsCurrent(m, {})
      BY <2>2, <3>2 DEF JobIsCurrent
    <3> QED BY <3>1, <3>3
  <2> QED BY <2>3, <2>4
<1> QED BY <1>5, <1>6 DEF n

\* A job is committed: what it proposed has to be decided about by its owner.
LEMMA CommitWorks ==
    ASSUME NEW m \in Machine, NEW owned, m.job # None, ~m.stopped, Work(m, owned)
    PROVE  /\ LET n == FinishOk(m)
              IN /\ n.canonical = m.canonical /\ n.stopped = m.stopped /\ Work(n, owned)
                 /\ Undecided(n) => m.job.request.operation \in owned
           /\ LET n == FinishError(InstallCommitted(m), "superseded")
              IN /\ n.canonical = m.canonical /\ n.stopped = m.stopped /\ Work(n, owned)
                 /\ Undecided(n) => m.job.request.operation \in owned
<1> DEFINE installed == InstallCommitted(m)
           adopted == m.job.environment = m.environment /\ IsIntended(m, m.job.request.graph)
           active == [key |-> IF adopted THEN m.canonical.key ELSE m.job.request.key,
                      graph |-> m.job.request.graph,
                      environment |-> m.job.environment,
                      origin |-> IF adopted THEN Canonical ELSE m.job.request.origin]
<1>1. installed \in Machine
  BY InstallCommittedType
<1>2. installed = [m EXCEPT !.active = active]
  BY DEF InstallCommitted
<1>3. active.environment = m.job.environment
      /\ (active.origin # Canonical => m.job.request.origin # Canonical)
  OBVIOUS
<1> HIDE DEF active, adopted
<1>4. /\ installed.environment = m.environment /\ installed.canonical = m.canonical
      /\ installed.job = m.job /\ installed.queued = m.queued /\ installed.waiters = m.waiters
      /\ installed.stopped = m.stopped /\ installed.next = m.next /\ installed.active = active
  BY <1>2 DEF Machine
<1> HIDE DEF installed
<1>5. ASSUME NEW r \in Machine, r.active = active, r.environment = m.environment, Plays(r)
      PROVE  m.job.request.operation \in owned
  BY <1>3, <1>5 DEF Plays, ActiveHere, Work, Tasks, Pending
<1>6. ASSUME NEW r \in Machine, NEW result \in Result,
             r.environment = m.environment, r.canonical = m.canonical, r.job = m.job,
             r.queued = m.queued, r.waiters = m.waiters, r.stopped = m.stopped, r.next = m.next,
             r.active = active
      PROVE  LET n == StartQueued(CompleteOperation(r, m.job.request.operation, result))
             IN /\ n.canonical = m.canonical /\ n.stopped = m.stopped /\ Work(n, owned)
                /\ Undecided(n) => m.job.request.operation \in owned
  BY <1>5, <1>6, FinishWorks
<1>7. LET n == FinishOk(m)
      IN /\ n.canonical = m.canonical /\ n.stopped = m.stopped /\ Work(n, owned)
         /\ Undecided(n) => m.job.request.operation \in owned
  <2> DEFINE recorded == IF installed.active.origin = Canonical
                         THEN [installed EXCEPT !.error = None] ELSE installed
  <2>1. /\ recorded \in Machine
        /\ recorded.environment = m.environment /\ recorded.canonical = m.canonical
        /\ recorded.job = m.job /\ recorded.queued = m.queued /\ recorded.waiters = m.waiters
        /\ recorded.stopped = m.stopped /\ recorded.next = m.next /\ recorded.active = active
    BY <1>1, <1>4 DEF Machine
  <2>2. FinishOk(m) = StartQueued(CompleteOperation(recorded, m.job.request.operation, "ok"))
    BY DEF FinishOk, installed
  <2>3. "ok" \in Result
    BY DEF Result
  <2> HIDE DEF recorded
  <2> QED BY <1>6, <2>1, <2>2, <2>3
<1>8. LET n == FinishError(InstallCommitted(m), "superseded")
      IN /\ n.canonical = m.canonical /\ n.stopped = m.stopped /\ Work(n, owned)
         /\ Undecided(n) => m.job.request.operation \in owned
  <2>1. FinishError(installed, "superseded")
          = StartQueued(CompleteOperation(installed, m.job.request.operation, "superseded"))
    BY <1>4 DEF FinishError
  <2>2. "superseded" \in Result
    BY DEF Result, Error
  <2> QED BY <1>1, <1>4, <1>6, <2>1, <2>2 DEF installed
<1> QED BY <1>7, <1>8

\* The worker reports: its job is the only one whose owner may have to decide
\* next.  Without deadlines it never has to be told that a job is out of date
\* while what plays is to be replaced by it.
LEMMA ReportsWork ==
    ASSUME NEW m \in Machine, NEW operation, NEW owned, ~m.stopped, Work(m, owned),
           NEW result \in {"ok", "retryable", "timeout", "failed"}
    PROVE  \A n \in {Prepared(m, operation, result, {}), Committed(m, operation, result, {})} :
               /\ n.canonical = m.canonical /\ n.stopped = m.stopped /\ Work(n, owned)
               /\ Undecided(n) =>
                      \/ Undecided(m)
                      \/ m.job # None /\ m.job.request.operation \in owned
<1> DEFINE Fine(n) == /\ n.canonical = m.canonical /\ n.stopped = m.stopped /\ Work(n, owned)
                      /\ Undecided(n) =>
                             \/ Undecided(m)
                             \/ m.job # None /\ m.job.request.operation \in owned
           runs == RunsOperation(m, operation)
           current == JobIsCurrent(m, {})
<1>1. Fine(m)
  OBVIOUS
<1>2. runs => m.job # None
  BY DEF RunsOperation
<1>3. ASSUME m.job # None, NEW phase \in {"preparing", "committing"}
      PROVE  Fine([m EXCEPT !.job.phase = phase])
  <2> DEFINE job == [m.job EXCEPT !.phase = phase]
             n == [m EXCEPT !.job.phase = phase]
  <2>1. m.job \in Job
    BY <1>3 DEF Machine
  <2>2. job \in Job /\ job.request = m.job.request /\ job.environment = m.job.environment
    BY <2>1 DEF Job
  <2>3. n = [m EXCEPT !.job = job]
    BY DEF Machine
  <2> HIDE DEF job, n
  <2>4. /\ n.environment = m.environment /\ n.canonical = m.canonical /\ n.active = m.active
        /\ n.queued = m.queued /\ n.job = job /\ n.error = m.error /\ n.stopped = m.stopped
        /\ n.next = m.next /\ n.waiters = m.waiters
    BY <2>3 DEF Machine
  <2>5. job # None
    BY <2>2, NoneAssumption
  <2>6. Tasks(n, owned)
    <3>1. Tasks(m, owned)
      BY DEF Work
    <3>2. Numbered(n)
      BY <1>3, <2>2, <2>4, <2>5, <3>1 DEF Tasks, Numbered
    <3>3. \A other : Awaited(m, other) => Awaited(n, other)
      BY <2>4 DEF Awaited
    <3>4. n.queued # None => Pending(n, n.queued, owned)
      BY <2>4, <3>1, <3>3 DEF Tasks, Pending
    <3>5. n.job # None /\ n.job.environment = n.environment => Pending(n, n.job.request, owned)
      BY <1>3, <2>2, <2>4, <3>1, <3>3 DEF Tasks, Pending
    <3>6. n.job # None /\ n.job.environment # n.environment => ~ActiveHere(n)
      BY <1>3, <2>2, <2>4, <3>1 DEF Tasks, ActiveHere
    <3> QED BY <3>2, <3>4, <3>5, <3>6 DEF Tasks
  <2>7. Guided(n)
    BY <1>3, <2>2, <2>4 DEF Work, Guided, IsIntended, Plays, ActiveHere
  <2>8. ~Undecided(n)
    BY <2>4, <2>5 DEF Undecided
  <2> QED BY <2>4, <2>6, <2>7, <2>8 DEF Work, n
<1>4. ASSUME m.job # None, NEW error \in Error, error = "superseded" => ~current
      PROVE  Fine(FinishError(m, error))
  BY <1>4, FinishErrorWorks
<1>5. ASSUME m.job # None
      PROVE  Fine(FinishOk(m)) /\ Fine(FinishError(InstallCommitted(m), "superseded"))
  BY <1>5, CommitWorks
<1>6. {"superseded", "failed", "timeout"} \subseteq Error
  BY DEF Error
<1>b. runs \in BOOLEAN /\ current \in BOOLEAN
  BY DEF RunsOperation, JobIsCurrent
<1> HIDE DEF Fine, runs, current
<1>7. Fine(Prepared(m, operation, result, {}))
  <2> DEFINE n == Prepared(m, operation, result, {})
  <2>1. n = CASE ~runs -> m
              [] runs /\ ~current -> FinishError(m, "superseded")
              [] OTHER -> CASE result = "ok" -> [m EXCEPT !.job.phase = "committing"]
                            [] result = "retryable" -> m
                            [] OTHER -> FinishError(m, result)
    BY DEF Prepared, runs, current
  <2> SUFFICES Fine(n)
    OBVIOUS
  <2> HIDE DEF n
  <2>2. CASE ~runs
    BY <1>1, <1>b, <2>1, <2>2
  <2>3. CASE runs /\ ~current
    BY <1>2, <1>4, <1>6, <1>b, <2>1, <2>3
  <2>4. CASE runs /\ current
    BY <1>1, <1>2, <1>3, <1>4, <1>6, <1>b, <2>1, <2>4
  <2> QED BY <1>b, <2>2, <2>3, <2>4
<1>8. Fine(Committed(m, operation, result, {}))
  <2> DEFINE n == Committed(m, operation, result, {})
  <2>1. n = CASE ~runs -> m
              [] runs /\ result = "ok" ->
                   IF current THEN FinishOk(m)
                   ELSE FinishError(InstallCommitted(m), "superseded")
              [] OTHER -> IF result = "retryable"
                          THEN IF current THEN [m EXCEPT !.job.phase = "preparing"]
                               ELSE FinishError(m, "failed")
                          ELSE FinishError(m, result)
    BY DEF Committed, runs, current
  <2> SUFFICES Fine(n)
    OBVIOUS
  <2> HIDE DEF n
  <2>2. CASE ~runs
    BY <1>1, <1>b, <2>1, <2>2
  <2>3. CASE runs /\ result = "ok"
    BY <1>2, <1>5, <1>b, <2>1, <2>3
  <2>4. CASE runs /\ result # "ok"
    BY <1>2, <1>3, <1>4, <1>6, <1>b, <2>1, <2>4
  <2> QED BY <1>b, <2>2, <2>3, <2>4
<1> QED BY <1>7, <1>8 DEF Fine

-----------------------------------------------------------------------------
(* Submissions.                                                            *)

\* k is m after one more operation was issued, for which somebody waits; its
\* canonical intent and what goes with it may be new.
Begun(m, k) ==
    /\ k.next = m.next + 1
    /\ k.environment = m.environment /\ k.active = m.active /\ k.stopped = m.stopped
    /\ k.job = m.job /\ k.queued = m.queued
    /\ \E waiter : /\ waiter.id = m.next + 1 /\ waiter.operation = m.next + 1 /\ waiter.result = None
                   /\ k.waiters = m.waiters \union {waiter}

LEMMA BegunTasks ==
    ASSUME NEW m \in Machine, Issued(m), NEW owned, Tasks(m, owned), NEW k \in Machine, Begun(m, k)
    PROVE  /\ Tasks(k, owned) /\ Awaited(k, k.next)
           /\ k.job # None => k.job.request.operation # k.next
           /\ k.queued # None => k.queued.operation # k.next
<1>1. m.next \in Nat /\ k.next = m.next + 1
  BY DEF Machine, Begun
<1>2. PICK waiter : /\ waiter.id = k.next /\ waiter.operation = k.next /\ waiter.result = None
                    /\ k.waiters = m.waiters \union {waiter}
  BY DEF Begun
<1>3. ASSUME NEW w \in m.waiters PROVE w.id # k.next
  BY <1>1 DEF Machine, Waiter, Issued
<1>4. Awaited(k, k.next)
  BY <1>2, <1>3 DEF Awaited
<1>5. ASSUME NEW operation, operation # k.next, Awaited(m, operation)
      PROVE  Awaited(k, operation)
  BY <1>2, <1>5 DEF Awaited
<1>6. /\ m.job # None => m.job.request.operation \in Nat /\ m.job.request.operation <= m.next
                         /\ m.job.request.operation # k.next
      /\ m.queued # None => m.queued.operation \in Nat /\ m.queued.operation <= m.next
                            /\ m.queued.operation # k.next
  BY <1>1 DEF Machine, Job, Request, Issued
<1>7. Numbered(k)
  <2>1. m.queued # None => m.job # None /\ m.queued.operation # m.job.request.operation
    BY DEF Tasks, Numbered
  <2>2. m.job # None => m.job.environment.revision <= m.environment.revision
    BY DEF Tasks, Numbered
  <2> QED BY <1>1, <1>6, <2>1, <2>2 DEF Begun, Numbered
<1>8. /\ k.queued # None => Pending(k, k.queued, owned)
      /\ k.job # None /\ k.job.environment = k.environment => Pending(k, k.job.request, owned)
  BY <1>5, <1>6 DEF Begun, Tasks, Pending
<1>9. k.job # None /\ k.job.environment # k.environment => ~ActiveHere(k)
  BY DEF Begun, Tasks, ActiveHere
<1> QED BY <1>4, <1>6, <1>7, <1>8, <1>9 DEF Tasks, Begun

\* A canonical submission that needs no request of its own leaves no canonical
\* request in the queue.
LEMMA SupersedeTasks ==
    ASSUME NEW m \in Machine, NEW owned, Tasks(m, owned)
    PROVE  LET s == SupersedeQueuedCanonical(m)
           IN /\ s \in Machine /\ Tasks(s, owned)
              /\ s.queued # None => s.queued = m.queued /\ s.queued.origin # Canonical
              /\ s.environment = m.environment /\ s.canonical = m.canonical /\ s.active = m.active
              /\ s.job = m.job /\ s.error = m.error /\ s.stopped = m.stopped /\ s.next = m.next
<1> DEFINE s == SupersedeQueuedCanonical(m)
           dropped == [m EXCEPT !.queued = None]
           told == CompleteOperation(dropped, m.queued.operation, "superseded")
<1>1. /\ dropped \in Machine /\ dropped.queued = None
      /\ dropped.environment = m.environment /\ dropped.canonical = m.canonical
      /\ dropped.active = m.active /\ dropped.job = m.job /\ dropped.error = m.error
      /\ dropped.stopped = m.stopped /\ dropped.next = m.next /\ dropped.waiters = m.waiters
  BY DEF Machine
<1>2. s = IF m.queued # None /\ m.queued.origin = Canonical THEN told ELSE m
  BY DEF SupersedeQueuedCanonical
<1> HIDE DEF dropped
<1>3. "superseded" \in Result
  BY DEF Result, Error
<1>4. told \in Machine /\ Tells(dropped, told, {m.queued.operation})
  BY <1>1, <1>3, CompleteOperationType, OperationTold
<1> HIDE DEF told, s
<1>5. CASE m.queued # None /\ m.queued.origin = Canonical
  <2>1. /\ Numbered(dropped)
        /\ \A operation : Awaited(m, operation) => Awaited(dropped, operation)
        /\ ActiveHere(dropped) = ActiveHere(m)
    BY <1>1 DEF Tasks, Numbered, Awaited, ActiveHere
  <2>2. Tasks(dropped, owned)
    BY <1>1, <2>1 DEF Tasks, Pending
  <2>3. dropped.job # None => dropped.job.request.operation # m.queued.operation
    BY <1>1, <1>5 DEF Tasks, Numbered
  <2>4. Tasks(told, owned)
    BY <1>1, <1>4, <2>2, <2>3, TasksTold
  <2> QED BY <1>1, <1>2, <1>4, <1>5, <2>4 DEF Tells, s
<1>6. CASE ~(m.queued # None /\ m.queued.origin = Canonical)
  BY <1>2, <1>6 DEF s
<1> QED BY <1>5, <1>6

\* A submission that is accepted becomes the job, or what is queued behind it.
LEMMA EnqueueWorks ==
    ASSUME NEW k \in Machine, NEW owned, Tasks(k, owned), NEW request \in Request,
           request.operation = k.next,
           k.job # None => k.job.request.operation # k.next,
           k.queued # None => k.queued.operation # k.next,
           Pending(k, request, owned),
           request.origin = Canonical => IsIntended(k, request.graph)
    PROVE  LET n == Enqueue(k, request)
           IN /\ Work(n, owned) /\ ~Undecided(n)
              /\ n.canonical = k.canonical /\ n.stopped = k.stopped
<1> DEFINE n == Enqueue(k, request)
<1>0. request # None /\ k.next \in Nat /\ k.environment.revision \in Nat
  BY NoneAssumption DEF Machine, Environment
<1>1. CASE k.job = None
  <2> DEFINE job == [request |-> request, phase |-> "preparing", environment |-> k.environment]
  <2>1. n = [k EXCEPT !.job = job]
    BY <1>1 DEF Enqueue, Start
  <2>2. job \in Job /\ job.request = request /\ job.environment = k.environment
    BY DEF Machine, Job
  <2> HIDE DEF job, n
  <2>3. job # None /\ k.queued = None
    BY <1>1, <2>2, NoneAssumption DEF Tasks, Numbered
  <2>4. /\ n.environment = k.environment /\ n.canonical = k.canonical /\ n.next = k.next
        /\ n.queued = None /\ n.job = job /\ n.waiters = k.waiters /\ n.stopped = k.stopped
    BY <2>1, <2>3 DEF Machine
  <2>5. Numbered(n)
    BY <1>0, <2>2, <2>3, <2>4 DEF Numbered
  <2>6. Pending(n, request, owned)
    BY <2>4 DEF Pending, Awaited
  <2>7. Tasks(n, owned) /\ ~Undecided(n)
    BY <2>2, <2>3, <2>4, <2>5, <2>6 DEF Tasks, Undecided
  <2>8. Guided(n)
    BY <2>2, <2>4 DEF Guided, IsIntended
  <2> QED BY <2>4, <2>7, <2>8 DEF Work, n
<1>2. CASE k.job # None
  <2> DEFINE replaced == [k EXCEPT !.queued = request]
             told == CompleteOperation(replaced, k.queued.operation, "superseded")
  <2>1. n = IF k.queued = None THEN replaced ELSE told
    BY <1>2 DEF Enqueue
  <2>2. /\ replaced \in Machine /\ replaced.queued = request
        /\ replaced.environment = k.environment /\ replaced.canonical = k.canonical
        /\ replaced.active = k.active /\ replaced.job = k.job
        /\ replaced.stopped = k.stopped /\ replaced.next = k.next /\ replaced.waiters = k.waiters
    BY DEF Machine
  <2>3. "superseded" \in Result
    BY DEF Result, Error
  <2> HIDE DEF replaced
  <2>4. told \in Machine /\ Tells(replaced, told, {k.queued.operation})
    BY <2>2, <2>3, CompleteOperationType, OperationTold
  <2> HIDE DEF told, n
  <2>5. Numbered(replaced)
    BY <1>0, <1>2, <2>2 DEF Tasks, Numbered
  <2>6. /\ \A operation : Awaited(k, operation) => Awaited(replaced, operation)
        /\ ActiveHere(replaced) = ActiveHere(k)
    BY <2>2 DEF Awaited, ActiveHere
  <2>7. Tasks(replaced, owned)
    BY <1>2, <2>2, <2>5, <2>6 DEF Tasks, Pending
  <2>8. Guided(replaced)
    BY <1>0, <2>2 DEF Guided, IsIntended
  <2>9. Work(replaced, owned) /\ ~Undecided(replaced)
    BY <1>2, <2>2, <2>7, <2>8 DEF Work, Undecided
  <2>10. CASE k.queued = None
    BY <2>1, <2>2, <2>9, <2>10 DEF n
  <2>11. CASE k.queued # None
    <3>1. k.job.request.operation # k.queued.operation /\ request.operation # k.queued.operation
      BY <2>11 DEF Tasks, Numbered
    <3>2. Work(told, owned) /\ ~Undecided(told)
      BY <2>2, <2>4, <2>9, <3>1, WorkTold, UndecidedTold
    <3> QED BY <2>1, <2>2, <2>4, <2>11, <3>2 DEF Tells, n
  <2> QED BY <2>10, <2>11
<1> QED BY <1>1, <1>2

\* A submission that is rejected changes nothing for others; one that is
\* accepted leaves nothing to be decided about, and a proposal is work that whoever
\* waits for the new operation owns.
LEMMA SubmitWorks ==
    ASSUME NEW m \in Machine, Issued(m), ~m.stopped, NEW owned, Work(m, owned),
           NEW key \in Key, NEW graph \in Graph, NEW timed \in BOOLEAN, NEW canonical \in BOOLEAN
    PROVE  LET n == Submit(m, key, graph, timed, canonical)
               outcome == SubmitOutcome(m, key, graph, canonical)
           IN /\ n.stopped = m.stopped
              /\ outcome \in {"shuttingDown", "superseded"} =>
                     /\ m.canonical # None /\ key.sequence < m.canonical.key.sequence
                     /\ n.canonical = m.canonical
                     /\ Work(n, owned) /\ (Undecided(n) => Undecided(m))
              /\ outcome \notin {"shuttingDown", "superseded"} =>
                     /\ Work(n, IF canonical THEN owned ELSE owned \union {n.next})
                     /\ ~Undecided(n)
<1> DEFINE operation == m.next + 1
           outcome == SubmitOutcome(m, key, graph, canonical)
           waiter == [id |-> operation, operation |-> operation, key |-> key, result |-> None]
           waiting == [m EXCEPT !.next = operation, !.waiters = m.waiters \union {waiter}]
           intended == IF canonical
                       THEN [waiting EXCEPT !.canonical = [key |-> key, graph |-> graph],
                                            !.error = None,
                                            !.operation = operation,
                                            !.target = key]
                       ELSE waiting
           request == [operation |-> operation, key |-> key, graph |-> graph,
                       origin |-> IF canonical THEN Canonical ELSE operation,
                       timed |-> timed]
           base == SupersedeQueuedCanonical(intended)
           n == Submit(m, key, graph, timed, canonical)
<1>1. operation \in Nat \ {0} /\ operation = m.next + 1 /\ waiter \in Waiter
  BY DEF Machine, Waiter
<1>2. waiter.id = operation /\ waiter.operation = operation /\ waiter.result = None
  OBVIOUS
<1>3. /\ waiting \in Machine /\ Begun(m, waiting) /\ waiting.next = operation
      /\ waiting.canonical = m.canonical /\ waiting.error = m.error
  <2>1. m.waiters \union {waiter} \in SUBSET Waiter
    BY <1>1 DEF Machine
  <2> HIDE DEF operation, waiter
  <2>2. /\ waiting \in Machine /\ waiting.next = operation /\ waiting.waiters = m.waiters \union {waiter}
        /\ waiting.environment = m.environment /\ waiting.active = m.active
        /\ waiting.stopped = m.stopped /\ waiting.job = m.job /\ waiting.queued = m.queued
        /\ waiting.canonical = m.canonical /\ waiting.error = m.error
    BY <1>1, <2>1 DEF Machine
  <2> HIDE DEF waiting
  <2> QED BY <1>1, <1>2, <2>2 DEF Begun
<1>4. /\ intended \in Machine /\ Begun(m, intended) /\ intended.next = operation
      /\ canonical => IsIntended(intended, graph)
  <2>1. CASE canonical
    <3> DEFINE intent == [key |-> key, graph |-> graph]
    <3>1. intended = [waiting EXCEPT !.canonical = intent, !.error = None,
                                     !.operation = operation, !.target = key]
      BY <2>1
    <3>2. intent \in Intent /\ intent.graph = graph /\ operation \in Nat
      BY <1>1 DEF Intent
    <3> HIDE DEF intent, operation, waiting, waiter, intended
    <3>3. intended \in Machine /\ SameWorkload(intended, waiting)
      BY <1>3, <3>1, <3>2, IntentSet
    <3>4. intended.environment = waiting.environment /\ intended.canonical = intent
      BY <1>3, <3>1 DEF Machine
    <3>5. Begun(m, intended) /\ intended.next = operation
      BY <1>3, <3>3, <3>4 DEF Begun, SameWorkload
    <3> QED BY <3>2, <3>3, <3>4, <3>5, NoneAssumption DEF IsIntended
  <2>2. CASE ~canonical
    BY <1>3, <2>2
  <2> QED BY <2>1, <2>2
<1>5. request \in Request
  BY <1>1 DEF Request, Origin, Canonical
<1>6. /\ request.operation = operation /\ request.graph = graph
      /\ canonical => request.origin = Canonical
      /\ ~canonical => request.origin = operation
  OBVIOUS
<1>7. n = CASE outcome \in {"shuttingDown", "superseded"} ->
                 CompleteWaiters(waiting, {operation}, outcome)
            [] outcome = "adopted" ->
                 CompleteWaiters([base EXCEPT !.active.key = key, !.active.origin = Canonical],
                                 {operation}, "ok")
            [] outcome = "joinsJob" -> Alias(base, operation, m.job.request.operation)
            [] outcome = "joinsQueued" ->
                 [Alias(intended, operation, m.queued.operation) EXCEPT
                      !.queued.key = key, !.queued.origin = Canonical]
            [] OTHER -> Enqueue(intended, request)
  BY DEF Submit
<1>8. outcome \in {"shuttingDown", "superseded", "adopted", "joinsJob", "joinsQueued", "queued"}
  BY DEF SubmitOutcome, CanonicalOutcome, Machine
<1>9. /\ outcome \in {"shuttingDown", "superseded"}
             => m.canonical # None /\ key.sequence < m.canonical.key.sequence
      /\ outcome \in {"adopted", "joinsJob", "joinsQueued"} => canonical
      /\ outcome = "adopted" => ActiveHere(m)
      /\ outcome = "joinsJob" => m.job # None /\ m.job.request.graph = graph
      /\ outcome = "joinsQueued" => m.queued # None /\ m.queued.graph = graph
  BY DEF SubmitOutcome, CanonicalOutcome, Machine
<1> DEFINE Fine == /\ n.stopped = m.stopped
                   /\ outcome \in {"shuttingDown", "superseded"} =>
                          /\ m.canonical # None /\ key.sequence < m.canonical.key.sequence
                          /\ n.canonical = m.canonical
                          /\ Work(n, owned) /\ (Undecided(n) => Undecided(m))
                   /\ outcome \notin {"shuttingDown", "superseded"} =>
                          /\ Work(n, IF canonical THEN owned ELSE owned \union {n.next})
                          /\ ~Undecided(n)
<1> SUFFICES Fine
  OBVIOUS
<1> HIDE DEF operation, outcome, waiter, waiting, intended, request, n
<1>10. Tasks(m, owned) /\ Guided(m)
  BY DEF Work
<1>11. /\ Tasks(waiting, owned) /\ Tasks(intended, owned) /\ Awaited(intended, operation)
       /\ waiting.job # None => waiting.job.request.operation # operation
       /\ waiting.queued # None => waiting.queued.operation # operation
       /\ intended.job # None => intended.job.request.operation # operation
       /\ intended.queued # None => intended.queued.operation # operation
  BY <1>3, <1>4, <1>10, BegunTasks
<1>12. /\ base \in Machine /\ Tasks(base, owned)
       /\ base.queued # None => base.queued = m.queued /\ base.queued.origin # Canonical
       /\ base.environment = m.environment /\ base.active = m.active /\ base.job = m.job
       /\ base.canonical = intended.canonical /\ base.stopped = m.stopped
  BY <1>4, <1>11, SupersedeTasks DEF Begun
<1>13. /\ base.job # None => base.job.request.operation # operation
       /\ base.queued # None => base.queued.operation # operation
  BY <1>4, <1>11, <1>12 DEF Begun
<1> HIDE DEF base
<1>14. CASE outcome \in {"shuttingDown", "superseded"}
  <2>1. outcome \in Result /\ n = CompleteWaiters(waiting, {operation}, outcome)
    BY <1>7, <1>14 DEF Result, Error
  <2>2. Tells(waiting, n, {operation})
    BY <1>3, <2>1, WaitersTold
  <2>3. Guided(waiting) /\ Undecided(waiting) = Undecided(m)
    BY <1>3, <1>10 DEF Begun, Guided, IsIntended, Undecided, Plays, ActiveHere
  <2>4. Work(n, owned)
    BY <1>3, <1>11, <2>2, <2>3, WorkTold DEF Work
  <2>5. Undecided(n) = Undecided(m)
    BY <2>2, <2>3, UndecidedTold
  <2> QED BY <1>3, <1>9, <1>14, <2>2, <2>4, <2>5 DEF Fine, Begun, Tells
<1>15. CASE outcome = "adopted"
  <2> DEFINE active == [base.active EXCEPT !.key = key, !.origin = Canonical]
             adopted == [base EXCEPT !.active = active]
  <2>1. base.active \in ActiveGraph
    BY <1>9, <1>12, <1>15 DEF Machine, ActiveHere
  <2>2. [base EXCEPT !.active.key = key, !.active.origin = Canonical] = adopted
    BY <1>12, <2>1 DEF Machine, ActiveGraph
  <2>3. active \in ActiveGraph /\ active.origin = Canonical
    BY <2>1 DEF ActiveGraph, Origin, Canonical
  <2> HIDE DEF active
  <2>4. /\ adopted \in Machine /\ adopted.waiters = base.waiters /\ adopted.job = base.job
        /\ adopted.queued = base.queued /\ adopted.next = base.next /\ adopted.stopped = base.stopped
        /\ adopted.environment = base.environment /\ adopted.active = active
    BY <1>12, <2>3 DEF Machine
  <2>5. n = CompleteWaiters([base EXCEPT !.active.key = key, !.active.origin = Canonical], {operation}, "ok")
    BY <1>7, <1>15
  <2>6. n = CompleteWaiters(adopted, {operation}, "ok")
    BY <2>2, <2>5, Zenon
  <2> HIDE DEF adopted
  <2>7. "ok" \in Result
    BY DEF Result
  <2>8. Tells(adopted, n, {operation})
    BY <2>4, <2>6, <2>7, WaitersTold
  <2>9. ~Plays(adopted)
    BY <2>3, <2>4 DEF Plays
  <2>10. m.job # None => m.job.environment = m.environment
    BY <1>9, <1>10, <1>15 DEF Tasks
  <2>11. /\ Numbered(adopted)
         /\ \A other : Awaited(base, other) => Awaited(adopted, other)
    BY <1>12, <2>4 DEF Tasks, Numbered, Awaited
  <2>12. Tasks(adopted, owned)
    BY <1>12, <2>4, <2>10, <2>11 DEF Tasks, Pending
  <2>13. Guided(adopted)
    BY <1>12, <2>4, <2>9 DEF Guided
  <2>14. Work(n, owned) /\ ~Undecided(n)
    BY <1>13, <2>4, <2>8, <2>9, <2>12, <2>13, WorkTold, UndecidedTold DEF Work, Undecided
  <2> QED BY <1>9, <1>12, <1>15, <2>4, <2>8, <2>14 DEF Fine, Tells
<1>16. CASE outcome = "joinsJob"
  <2>1. n = Alias(base, operation, m.job.request.operation)
    BY <1>7, <1>16
  <2>2. Tells(base, n, {operation})
    BY <1>12, <2>1, AliasTells
  <2>3. m.job # None /\ IsIntended(base, m.job.request.graph)
    BY <1>4, <1>9, <1>12, <1>16 DEF IsIntended
  <2>4. Guided(base) /\ ~Undecided(base)
    BY <1>12, <2>3 DEF Guided, Undecided
  <2>5. Work(n, owned) /\ ~Undecided(n)
    BY <1>12, <1>13, <2>2, <2>4, WorkTold, UndecidedTold DEF Work
  <2> QED BY <1>9, <1>12, <1>16, <2>2, <2>5 DEF Fine, Tells
<1>17. CASE outcome = "joinsQueued"
  <2> DEFINE aliased == Alias(intended, operation, m.queued.operation)
             queued == [m.queued EXCEPT !.key = key, !.origin = Canonical]
  <2>1. m.queued # None /\ m.queued.graph = graph /\ m.queued \in Request
    BY <1>9, <1>17 DEF Machine
  <2>2. m.queued.operation \in Nat \ {0}
    BY <2>1 DEF Request
  <2>3. aliased \in Machine /\ Tells(intended, aliased, {operation})
    BY <1>4, <2>2, AliasType, AliasTells
  <2>4. n = [aliased EXCEPT !.queued.key = key, !.queued.origin = Canonical]
    BY <1>7, <1>17
  <2> HIDE DEF aliased
  <2>5. /\ queued \in Request /\ queued.operation = m.queued.operation /\ queued.graph = graph
        /\ queued.origin = Canonical
    BY <2>1 DEF Request, Origin, Canonical
  <2>6. aliased.queued = m.queued
    BY <1>4, <2>3 DEF Begun, Tells
  <2>7. n = [aliased EXCEPT !.queued = queued]
    BY <2>1, <2>3, <2>4, <2>6 DEF Machine, Request
  <2> HIDE DEF queued
  <2>8. Tasks(aliased, owned)
    BY <1>4, <1>11, <2>3, TasksTold
  <2>9. /\ n.environment = aliased.environment /\ n.canonical = aliased.canonical
        /\ n.active = aliased.active /\ n.job = aliased.job /\ n.next = aliased.next
        /\ n.stopped = aliased.stopped /\ n.waiters = aliased.waiters /\ n.queued = queued
    BY <2>3, <2>7 DEF Machine
  <2>10. queued # None /\ aliased.queued # None
    BY <2>1, <2>5, <2>6, NoneAssumption
  <2>11. Numbered(n) /\ n.job # None
    BY <2>5, <2>6, <2>8, <2>9, <2>10 DEF Tasks, Numbered
  <2>12. \A other : Awaited(aliased, other) => Awaited(n, other)
    BY <2>9 DEF Awaited
  <2>13. Tasks(n, owned)
    BY <2>5, <2>8, <2>9, <2>11, <2>12 DEF Tasks, Pending, ActiveHere
  <2>14. IsIntended(n, graph)
    BY <1>4, <1>9, <1>17, <2>3, <2>9 DEF IsIntended, Tells
  <2>15. Guided(n) /\ ~Undecided(n)
    BY <2>5, <2>9, <2>10, <2>11, <2>14 DEF Guided, Undecided
  <2>16. n.stopped = m.stopped
    BY <1>4, <2>3, <2>9 DEF Tells, Begun
  <2> QED BY <1>9, <1>17, <2>13, <2>15, <2>16 DEF Fine, Work
<1>18. CASE outcome = "queued"
  <2> DEFINE more == IF canonical THEN owned ELSE owned \union {operation}
  <2>1. n = Enqueue(intended, request)
    BY <1>7, <1>18
  <2>2. Tasks(intended, more)
    BY <1>11 DEF Tasks, Pending
  <2>3. Pending(intended, request, more)
    BY <1>1, <1>6, <1>11 DEF Pending, Canonical
  <2>4. request.origin = Canonical => canonical
    BY <1>1, <1>6 DEF Canonical
  <2>5. n.next = operation
    BY <1>4, <1>5, <2>1, EnqueueType
  <2> HIDE DEF more
  <2>6. Work(n, more) /\ ~Undecided(n) /\ n.stopped = intended.stopped
    BY <1>4, <1>5, <1>6, <1>11, <2>1, <2>2, <2>3, <2>4, EnqueueWorks
  <2> QED BY <1>4, <1>18, <2>5, <2>6 DEF Fine, Begun, more
<1> QED BY <1>8, <1>14, <1>15, <1>16, <1>17, <1>18

-----------------------------------------------------------------------------
(* The inductive invariant.                                                *)

NotBehind(key) == machine.canonical # None => machine.canonical.key.sequence <= key.sequence

\* What the callers wait for that have proposed something.
Owned == {call[c].operation : c \in {d \in Caller : call[d].at = "waiting" /\ call[d].purpose = "device"}}

\* A caller that will decide about what plays, or that is about to submit a
\* canonical state which the machine will take.
Owner(c) ==
    /\ call[c].at # "idle"
    /\ \/ call[c].purpose = "device"
       \/ call[c].at = "submit" /\ NotBehind(call[c].key)

\* Nobody's deadline passes and nobody opens another Project: the canonical intent
\* is no newer than the canonical state, and what is proposed is for the open
\* Project.
CallsInProject ==
    /\ late = {} /\ NotBehind(core.key)
    /\ \A c \in Caller : call[c].at # "idle" =>
           /\ call[c].at \in {"submit", "waiting", "commit"}
           /\ call[c].purpose \in {"edit", "resync", "device"}
           /\ call[c].at = "commit" => call[c].purpose = "device"
           /\ call[c].purpose = "device" => InOpenProject(call[c].graph)

\* What the worker can report.
Reports ==
    worker.at \in {"prepared", "decide", "committed", "conclude"} =>
        worker.result \in {"ok", "retryable", "timeout", "failed"}

OwnedInv ==
    /\ CallsInProject /\ Reports
    /\ machine.stopped => \A c \in Caller : call[c] = Idle
    /\ ~machine.stopped => /\ Work(machine, Owned)
                           /\ Undecided(machine) => \E c \in Caller : Owner(c)

\* Whoever has something on its hands does so before the shutdown.
LEMMA BusyBefore ==
    ASSUME OwnedInv, NEW c \in Caller, call[c].at # "idle"
    PROVE  ~machine.stopped
BY DEF OwnedInv, Idle

\* An operation that was answered is at work no more.
LEMMA WorkWithout ==
    ASSUME NEW m, NEW owned, Work(m, owned), NEW operation, ~Awaited(m, operation)
    PROVE  Work(m, owned \ {operation})
BY DEF Work, Tasks, Pending

\* The graphs of one Project.
OfOneProject(g, h) == \E project \in Projects : {g, h} \subseteq project

\* The open Project stays open when another graph of it becomes canonical.
LEMMA ProjectStays ==
    ASSUME NEW g, NEW h, NEW k, OfOneProject(g, h), k = h \/ OfOneProject(k, h)
    PROVE  OfOneProject(g, k)
<1>1. PICK p \in Projects : {g, h} \subseteq p
  BY DEF OfOneProject
<1>2. CASE k = h
  BY <1>2
<1>3. CASE OfOneProject(k, h)
  <2>1. PICK q \in Projects : {k, h} \subseteq q
    BY <1>3 DEF OfOneProject
  <2>2. h \in p \cap q
    BY <1>1, <2>1
  <2>3. p = q
    BY <2>2, ProjectsAssumption
  <2> QED BY <1>1, <2>1, <2>3 DEF OfOneProject
<1> QED BY <1>2, <1>3

-----------------------------------------------------------------------------
(* Steps.                                                                  *)

\* A step of one caller, or of none: the others keep their calls, and there is
\* somebody to decide when there has to be.
LEMMA OwnersMove ==
    ASSUME IInv, IInv', OwnedInv, ~machine.stopped, ~machine'.stopped, NEW c \in Caller,
           \A d \in Caller \ {c} : call'[d] = call[d],
           call'[c].at # "idle" =>
               /\ call'[c].at \in {"submit", "waiting", "commit"}
               /\ call'[c].purpose \in {"edit", "resync", "device"}
               /\ call'[c].at = "commit" => call'[c].purpose = "device"
               /\ call'[c].purpose = "device" => OfOneProject(call'[c].graph, core'.graph),
           late' = late, worker' = worker, NotBehind(core.key)',
           core'.graph = core.graph \/ OfOneProject(core'.graph, core.graph),
           NEW owned, owned \subseteq Owned', Work(machine', owned),
           Undecided(machine') =>
               \/ Owner(c)'
               \/ /\ Undecided(machine) /\ machine'.canonical = machine.canonical
                  /\ \A d \in Caller : Owner(d) => d # c
    PROVE  OwnedInv'
<1>1. CallsInProject'
  <2>1. ASSUME NEW d \in Caller \ {c}, call[d].at # "idle"
        PROVE  /\ call[d].at \in {"submit", "waiting", "commit"}
               /\ call[d].purpose \in {"edit", "resync", "device"}
               /\ call[d].at = "commit" => call[d].purpose = "device"
               /\ call[d].purpose = "device" => OfOneProject(call[d].graph, core'.graph)
    <3>1. /\ call[d].at \in {"submit", "waiting", "commit"}
          /\ call[d].purpose \in {"edit", "resync", "device"}
          /\ call[d].at = "commit" => call[d].purpose = "device"
      BY <2>1 DEF OwnedInv, CallsInProject
    <3>2. call[d].purpose = "device" => OfOneProject(call[d].graph, core.graph)
      BY <2>1 DEF OwnedInv, CallsInProject, InOpenProject, OfOneProject
    <3> QED BY <3>1, <3>2, ProjectStays
  <2>2. ASSUME NEW d \in Caller, call'[d].at # "idle"
        PROVE  /\ call'[d].at \in {"submit", "waiting", "commit"}
               /\ call'[d].purpose \in {"edit", "resync", "device"}
               /\ call'[d].at = "commit" => call'[d].purpose = "device"
               /\ call'[d].purpose = "device" => OfOneProject(call'[d].graph, core'.graph)
    BY <2>1, <2>2
  <2>3. late' = {}
    BY DEF OwnedInv, CallsInProject
  <2> QED BY <2>2, <2>3 DEF CallsInProject, InOpenProject, OfOneProject
<1>2. Reports'
  BY DEF OwnedInv, Reports
<1>3. Work(machine', Owned')
  BY WorkOwned
<1>4. ASSUME Undecided(machine') PROVE \E d \in Caller : Owner(d)'
  <2>1. CASE Owner(c)'
    BY <2>1
  <2>2. CASE /\ Undecided(machine) /\ machine'.canonical = machine.canonical
             /\ \A d \in Caller : Owner(d) => d # c
    <3>1. PICK d \in Caller : Owner(d)
      BY <2>2 DEF OwnedInv
    <3>2. call'[d] = call[d]
      BY <2>2, <3>1
    <3>3. Owner(d)'
      BY <2>2, <3>1, <3>2 DEF Owner, NotBehind
    <3> QED BY <3>3
  <2> QED BY <1>4, <2>1, <2>2
<1> QED BY <1>1, <1>2, <1>3, <1>4 DEF OwnedInv

\* What caller c waits for is owned until c is told.
LEMMA OwnedStays ==
    ASSUME NEW c \in Caller, \A d \in Caller \ {c} : call'[d] = call[d]
    PROVE  /\ Owned \ {call[c].operation} \subseteq Owned'
           /\ call[c].at # "waiting" \/ call'[c] = call[c] => Owned \subseteq Owned'
<1>1. \A operation : operation \in Owned <=>
         \E d \in Caller : call[d].at = "waiting" /\ call[d].purpose = "device" /\ call[d].operation = operation
  BY DEF Owned
<1>2. \A operation : operation \in Owned' <=>
         \E d \in Caller : call'[d].at = "waiting" /\ call'[d].purpose = "device" /\ call'[d].operation = operation
  BY DEF Owned
<1> QED BY <1>1, <1>2

LEMMA BeginsToSubmit ==
    ASSUME IInv, NEW c \in Caller, NEW purpose, NEW intent, ToSubmit(c, purpose, intent)
    PROVE  /\ call'[c].at = "submit" /\ call'[c].purpose = purpose
           /\ call'[c].key = intent.key /\ call'[c].graph = intent.graph
           /\ \A d \in Caller \ {c} : call'[d] = call[d]
BY DEF ToSubmit, IInv, TypeOK, StateOK

\* A caller begins, and has nothing to do with what is decided before.
LEMMA BeginOwns ==
    ASSUME IInv, IInv', OwnedInv, "switch" \notin Purpose, NEW c \in Caller,
           Edit(c) \/ Resync(c) \/ ChangeAudioDevice(c) \/ ProposeDevice(c) \/ OpenProject(c)
    PROVE  OwnedInv'
<1> DEFINE observed == GenerationObserved(machine, native.generation)
<1>1. /\ call[c] = Idle /\ ~machine.stopped /\ late' = late /\ worker' = worker
      /\ machine' \in {machine, AudioEnvironmentAdvanced(observed)}
  BY DEF Edit, Resync, ChangeAudioDevice, ProposeDevice, OpenProject, Free, observed
<1>4. /\ call'[c].at = "submit" /\ call'[c].purpose \in {"edit", "resync", "device"}
      /\ call'[c].purpose = "device" => OfOneProject(call'[c].graph, core'.graph)
      /\ \A d \in Caller \ {c} : call'[d] = call[d]
      /\ \/ core' = core
         \/ core'.key.sequence = core.key.sequence + 1 /\ OfOneProject(core'.graph, core.graph)
  <2>1. CASE Edit(c)
    <3>1. PICK key \in NextKeys, graph \in {g \in Graph : InOpenProject(g)} :
            core' = [key |-> key, graph |-> graph] /\ ToSubmit(c, "edit", [key |-> key, graph |-> graph])
      BY <2>1 DEF Edit
    <3>2. core'.key.sequence = core.key.sequence + 1 /\ OfOneProject(core'.graph, core.graph)
      BY <3>1 DEF NextKeys, InOpenProject, OfOneProject
    <3> QED BY <3>1, <3>2, BeginsToSubmit
  <2>2. CASE Resync(c) \/ ChangeAudioDevice(c)
    <3>1. ToSubmit(c, "resync", core) /\ core' = core
      BY <2>2 DEF Resync, ChangeAudioDevice
    <3> QED BY <3>1, BeginsToSubmit
  <2>3. CASE ProposeDevice(c)
    <3>1. PICK key \in NextKeys, graph \in {g \in Graph : InOpenProject(g)} :
            ToSubmit(c, "device", [key |-> key, graph |-> graph])
      BY <2>3 DEF ProposeDevice
    <3>2. core' = core
      BY <2>3 DEF ProposeDevice
    <3>3. OfOneProject(graph, core.graph)
      BY <3>1 DEF InOpenProject, OfOneProject
    <3>4. [key |-> key, graph |-> graph].graph = graph
      OBVIOUS
    <3> QED BY <3>1, <3>2, <3>3, <3>4, BeginsToSubmit
  <2>4. ~OpenProject(c)
    BY DEF OpenProject
  <2> QED BY <2>1, <2>2, <2>3, <2>4
<1>2. machine \in Machine /\ observed \in Machine /\ native.generation \in Nat
  BY Shapes
<1>3. /\ machine'.canonical = machine.canonical /\ machine'.stopped = machine.stopped
      /\ Undecided(machine') => Undecided(machine)
      /\ Work(machine', Owned)
  <2>1. Renewed(machine, observed) /\ Renewed(observed, AudioEnvironmentAdvanced(observed))
    BY <1>2, EnvironmentRenewed
  <2>2. AudioEnvironmentAdvanced(observed) \in Machine
    BY <1>2, AudioEnvironmentAdvancedType
  <2>3. Work(machine, Owned)
    BY <1>1 DEF OwnedInv
  <2> HIDE DEF observed
  <2>4. Work(observed, Owned) /\ (Undecided(observed) => Undecided(machine))
        /\ observed.canonical = machine.canonical /\ observed.stopped = machine.stopped
    BY <1>2, <2>1, <2>3, WorkRenewed
  <2> QED BY <1>1, <1>2, <2>1, <2>2, <2>3, <2>4, WorkRenewed
<1>6. NotBehind(core.key)'
  <2>1. NotBehind(core.key) /\ core.key.sequence \in Nat
        /\ (machine.canonical # None => machine.canonical.key.sequence \in Nat)
    BY SequencesAreTyped DEF OwnedInv, CallsInProject
  <2> QED BY <1>3, <1>4, <2>1 DEF NotBehind
<1>7. Owned \subseteq Owned' /\ ~Owner(c)
  BY <1>1, <1>4, OwnedStays DEF Owner, Idle
<1> HIDE DEF observed
<1> QED BY <1>1, <1>3, <1>4, <1>6, <1>7, OwnersMove

\* A caller comes back: a proposal is decided about, or what is canonical is
\* submitted instead.
LEMMA ReturnOwns ==
    ASSUME IInv, OwnedInv, NEW c \in Caller, call[c].at # "idle", NEW ok \in BOOLEAN, Return(c, ok)
    PROVE  /\ \A d \in Caller \ {c} : call'[d] = call[d]
           /\ call'[c].at # "idle" =>
                  /\ call'[c].at \in {"submit", "commit"}
                  /\ call'[c].purpose \in {"resync", "device"}
                  /\ call'[c].at = "commit" => call'[c].purpose = "device"
                  /\ call'[c].purpose = "device" => OfOneProject(call'[c].graph, core.graph)
           /\ call[c].purpose = "device" =>
                  /\ call'[c].at # "idle"
                  /\ \/ call'[c].purpose = "device"
                     \/ call'[c].at = "submit" /\ call'[c].key = core.key
<1> DEFINE this == call[c]
           failedTo == IF this.purpose = "device" THEN "resync" ELSE "restore"
           back == CASE this.purpose = "device" /\ ok -> [this EXCEPT !.at = "commit"]
                     [] this.purpose = "switch" /\ ok -> [this EXCEPT !.at = "promote"]
                     [] this.purpose \in Proposing /\ ~ok ->
                          [this EXCEPT !.at = "submit", !.purpose = failedTo,
                                       !.key = core.key, !.graph = core.graph, !.operation = 0]
                     [] OTHER -> Idle
<1>1. this \in Call /\ call \in [Caller -> Call \union {Idle}]
  BY BusyCall, Shapes
<1>2. this.purpose \in {"edit", "resync", "device"}
      /\ (this.purpose = "device" => OfOneProject(this.graph, core.graph))
  BY DEF OwnedInv, CallsInProject, InOpenProject, OfOneProject
<1>3. call' = [call EXCEPT ![c] = back]
  BY DEF Return
<1> HIDE DEF this
<1>4. CASE this.purpose = "device" /\ ok
  <2>1. back = [this EXCEPT !.at = "commit"]
    BY <1>4
  <2>2. back.at = "commit" /\ back.purpose = "device" /\ back.graph = this.graph
    BY <1>1, <1>4, <2>1 DEF Call
  <2> HIDE DEF back
  <2> QED BY <1>1, <1>2, <1>3, <1>4, <2>2 DEF this
<1>5. CASE this.purpose = "device" /\ ~ok
  <2>1. back = [this EXCEPT !.at = "submit", !.purpose = "resync",
                            !.key = core.key, !.graph = core.graph, !.operation = 0]
    BY <1>5 DEF Proposing
  <2>2. back.at = "submit" /\ back.purpose = "resync" /\ back.key = core.key
    BY <1>1, <2>1 DEF Call
  <2> HIDE DEF back
  <2> QED BY <1>1, <1>3, <2>2 DEF this
<1>6. CASE this.purpose # "device"
  <2>1. back = Idle
    BY <1>2, <1>6 DEF Proposing
  <2>2. back.at = "idle"
    BY <2>1 DEF Idle
  <2> HIDE DEF back
  <2> QED BY <1>1, <1>3, <1>6, <2>2 DEF this
<1> QED BY <1>4, <1>5, <1>6

LEMMA SubmitOwns ==
    ASSUME IInv, IInv', OrderInv, AnswerInv, OwnedInv, NEW c \in Caller, SubmitProjection(c)
    PROVE  OwnedInv'
<1> DEFINE observed == GenerationObserved(machine, native.generation)
           purpose == call[c].purpose
           timed == purpose \notin Untimed
           canonical == purpose \notin Proposing
           outcome == SubmitOutcome(observed, call[c].key, call[c].graph, canonical)
           submitted == Submit(observed, call[c].key, call[c].graph, timed, canonical)
           rejected == outcome \in {"shuttingDown", "superseded"}
           more == IF canonical THEN Owned ELSE Owned \union {submitted.next}
<1>1. /\ call[c].at = "submit" /\ call[c].key \in Key /\ call[c].graph \in Graph
      /\ call[c].key.sequence \in Nat
      /\ late' = late /\ worker' = worker /\ core' = core
  BY BusyCall, SequencesAreTyped DEF SubmitProjection
<1>2. IF rejected \/ outcome = "adopted" \/ ~timed
      THEN machine' = RemoveWaiter(submitted, submitted.next) /\ Return(c, ~rejected)
      ELSE /\ machine' = submitted
           /\ call' = [call EXCEPT ![c].at = "waiting", ![c].operation = submitted.next]
  BY DEF SubmitProjection
<1>3. outcome = "adopted" => canonical
  BY DEF SubmitOutcome
<1>4. /\ purpose \in {"edit", "resync", "device"}
      /\ purpose = "device" => OfOneProject(call[c].graph, core.graph)
      /\ canonical <=> purpose # "device"
      /\ ~timed => canonical
      /\ timed \in BOOLEAN /\ canonical \in BOOLEAN /\ rejected \in BOOLEAN
  BY <1>1 DEF OwnedInv, CallsInProject, InOpenProject, OfOneProject, Proposing, Untimed
<1>5. /\ machine \in Machine /\ observed \in Machine /\ Renewed(machine, observed)
      /\ ~machine.stopped /\ Work(machine, Owned) /\ Issued(machine) /\ Issued(observed)
  <2>1. machine \in Machine /\ observed \in Machine /\ native.generation \in Nat
    BY Shapes
  <2>2. Issued(machine) /\ Distinct(machine)
    BY DEF AnswerInv, Issued
  <2>3. Issued(observed)
    BY <2>1, <2>2, EnvironmentMoves, MovesCarry DEF Carries
  <2> QED BY <1>1, <2>1, <2>2, <2>3, EnvironmentRenewed, BusyBefore DEF OwnedInv
<1> HIDE DEF observed, canonical, timed
<1>6. /\ observed.canonical = machine.canonical /\ ~observed.stopped /\ Work(observed, Owned)
      /\ Undecided(observed) => Undecided(machine)
  BY <1>5, WorkRenewed
<1>w. /\ submitted.stopped = observed.stopped
      /\ outcome \in {"shuttingDown", "superseded"} =>
             /\ observed.canonical # None /\ call[c].key.sequence < observed.canonical.key.sequence
             /\ submitted.canonical = observed.canonical
             /\ Work(submitted, Owned) /\ (Undecided(submitted) => Undecided(observed))
      /\ outcome \notin {"shuttingDown", "superseded"} =>
             /\ Work(submitted, IF canonical THEN Owned ELSE Owned \union {submitted.next})
             /\ ~Undecided(submitted)
  <2> DEFINE key == call[c].key
             graph == call[c].graph
             owned == Owned
  <2>1. /\ key \in Key /\ graph \in Graph /\ timed \in BOOLEAN /\ canonical \in BOOLEAN
        /\ observed \in Machine /\ Issued(observed) /\ ~observed.stopped /\ Work(observed, owned)
    BY <1>1, <1>4, <1>5, <1>6
  <2> HIDE DEF key, graph, owned
  <2>2. LET n == Submit(observed, key, graph, timed, canonical)
            answer == SubmitOutcome(observed, key, graph, canonical)
        IN /\ n.stopped = observed.stopped
           /\ answer \in {"shuttingDown", "superseded"} =>
                  /\ observed.canonical # None /\ key.sequence < observed.canonical.key.sequence
                  /\ n.canonical = observed.canonical
                  /\ Work(n, owned) /\ (Undecided(n) => Undecided(observed))
           /\ answer \notin {"shuttingDown", "superseded"} =>
                  /\ Work(n, IF canonical THEN owned ELSE owned \union {n.next})
                  /\ ~Undecided(n)
    BY <2>1, SubmitWorks
  <2> QED BY <2>2 DEF key, graph, owned
<1>7. submitted \in Machine /\ ~submitted.stopped
  <2>1. submitted \in Machine
    BY <1>1, <1>4, <1>5, SubmitType
  <2> QED BY <1>6, <1>w, <2>1
<1>8. rejected => /\ observed.canonical # None /\ call[c].key.sequence < observed.canonical.key.sequence
                  /\ submitted.canonical = observed.canonical
                  /\ Work(submitted, Owned) /\ (Undecided(submitted) => Undecided(observed))
  BY <1>w
<1>9. ~rejected => Work(submitted, more) /\ ~Undecided(submitted)
  BY <1>w
<1>10. submitted.canonical # None => submitted.canonical.key.sequence <= core.key.sequence
  <2>1. "canonical" \in DOMAIN observed
    BY <1>5 DEF Machine
  <2>2. \/ submitted.canonical = observed.canonical
        \/ canonical /\ submitted.canonical = [key |-> call[c].key, graph |-> call[c].graph]
    BY <1>4, <2>1, SubmitOrders
  <2>3. canonical => call[c].key.sequence <= core.key.sequence
    BY <1>1 DEF OrderInv, NotAhead, canonical
  <2>4. machine.canonical # None => machine.canonical.key.sequence <= core.key.sequence
    BY DEF OwnedInv, CallsInProject, NotBehind
  <2>5. submitted.canonical = observed.canonical
            => (submitted.canonical # None => submitted.canonical.key.sequence <= core.key.sequence)
    BY <1>6, <2>4
  <2>6. [key |-> call[c].key, graph |-> call[c].graph].key = call[c].key
    OBVIOUS
  <2> QED BY <2>2, <2>3, <2>5, <2>6
<1> DEFINE removed == RemoveWaiter(submitted, submitted.next)
<1>11. Tells(submitted, removed, {})
  BY <1>7, RemovalTells
<1>12. /\ \A owned : Work(submitted, owned) => Work(removed, owned)
       /\ Undecided(removed) = Undecided(submitted)
       /\ removed.canonical = submitted.canonical /\ ~removed.stopped
  <2>1. ASSUME NEW owned, Work(submitted, owned) PROVE Work(removed, owned)
    BY <1>7, <1>11, <2>1, WorkTold
  <2> QED BY <1>7, <1>11, <2>1, UndecidedTold DEF Tells
<1> HIDE DEF submitted, removed, outcome, rejected, more
<1>13. CASE rejected \/ outcome = "adopted" \/ ~timed
  <2>1. machine' = removed /\ Return(c, ~rejected)
    BY <1>2, <1>13 DEF removed
  <2>2. /\ \A d \in Caller \ {c} : call'[d] = call[d]
        /\ call'[c].at # "idle" =>
               /\ call'[c].at \in {"submit", "commit"}
               /\ call'[c].purpose \in {"resync", "device"}
               /\ call'[c].at = "commit" => call'[c].purpose = "device"
               /\ call'[c].purpose = "device" => OfOneProject(call'[c].graph, core.graph)
        /\ call[c].purpose = "device" =>
               /\ call'[c].at # "idle"
               /\ \/ call'[c].purpose = "device"
                  \/ call'[c].at = "submit" /\ call'[c].key = core.key
    BY <1>1, <1>4, <2>1, ReturnOwns
  <2>3. ~rejected => canonical
    BY <1>3, <1>4, <1>13
  <2>4. Work(machine', Owned)
    BY <1>8, <1>9, <1>12, <2>1, <2>3 DEF more
  <2>5. NotBehind(core.key)'
    BY <1>1, <1>10, <1>12, <2>1 DEF NotBehind
  <2>6. ASSUME Undecided(machine')
        PROVE  \/ Owner(c)'
               \/ /\ Undecided(machine) /\ machine'.canonical = machine.canonical
                  /\ \A d \in Caller : Owner(d) => d # c
    <3>1. rejected /\ Undecided(machine) /\ machine'.canonical = machine.canonical
      BY <1>6, <1>8, <1>9, <1>12, <2>1, <2>6
    <3>2. CASE purpose = "device"
      <4>1. Owner(c)'
        BY <1>1, <2>2, <2>5, <3>2 DEF Owner
      <4> QED BY <4>1
    <3>3. CASE purpose # "device"
      <4>1. ~NotBehind(call[c].key)
        BY <1>1, <1>6, <1>8, <3>1, SequencesAreTyped DEF NotBehind
      <4>2. ~Owner(c)
        BY <3>3, <4>1 DEF Owner
      <4> QED BY <3>1, <4>2
    <3> QED BY <3>2, <3>3
  <2>7. Owned \subseteq Owned'
    BY <1>1, <2>2, OwnedStays
  <2> HIDE DEF purpose
  <2> QED BY <1>1, <1>5, <1>12, <2>1, <2>2, <2>4, <2>5, <2>6, <2>7, OwnersMove
<1>14. CASE ~(rejected \/ outcome = "adopted" \/ ~timed)
  <2>1. machine' = submitted /\ call' = [call EXCEPT ![c].at = "waiting", ![c].operation = submitted.next]
    BY <1>2, <1>14
  <2>2. call[c] \in Call /\ call \in [Caller -> Call \union {Idle}]
    BY <1>1, BusyCall, Shapes
  <2>3. /\ call'[c].at = "waiting" /\ call'[c].purpose = purpose /\ call'[c].graph = call[c].graph
        /\ call'[c].operation = submitted.next /\ \A d \in Caller \ {c} : call'[d] = call[d]
    BY <2>1, <2>2 DEF Call
  <2>4. more \subseteq Owned'
    <3>1. Owned \subseteq Owned'
      BY <1>1, <2>3, OwnedStays
    <3>2. ~canonical => submitted.next \in Owned'
      BY <1>4, <2>3 DEF Owned
    <3> QED BY <3>1, <3>2 DEF more
  <2>5. Work(machine', more) /\ ~Undecided(machine')
    BY <1>9, <1>14, <2>1
  <2>6. NotBehind(core.key)'
    BY <1>1, <1>10, <2>1 DEF NotBehind
  <2>7. call'[c].purpose = "device" => OfOneProject(call'[c].graph, core'.graph)
    BY <1>1, <1>4, <2>3
  <2> HIDE DEF purpose
  <2> QED BY <1>1, <1>4, <1>5, <1>7, <2>1, <2>3, <2>4, <2>5, <2>6, <2>7, OwnersMove
<1> QED BY <1>13, <1>14

\* A waiter is told: what it proposed is at work no more, and it goes on to decide.
LEMMA CollectOwns ==
    ASSUME IInv, IInv', OwnedInv, NEW c \in Caller, CollectResult(c)
    PROVE  OwnedInv'
<1> DEFINE operation == call[c].operation
           removed == RemoveWaiter(machine, operation)
<1>1. /\ call[c].at = "waiting" /\ call[c].purpose \in {"edit", "resync", "device"}
      /\ late' = late /\ worker' = worker /\ core' = core /\ machine' = removed
      /\ WaiterResult(machine, operation) # None
  BY DEF CollectResult, OwnedInv, CallsInProject
<1>2. PICK ok \in BOOLEAN : Return(c, ok)
  BY DEF CollectResult
<1>3. machine \in Machine /\ ~machine.stopped /\ Work(machine, Owned)
  BY <1>1, Shapes, BusyBefore DEF OwnedInv
<1>4. ~Awaited(machine, operation)
  <2>1. \E w \in machine.waiters : w.id = operation
    BY <1>1 DEF WaiterResult
  <2> DEFINE w == CHOOSE w \in machine.waiters : w.id = operation
  <2>2. w \in machine.waiters /\ w.id = operation
    BY <2>1
  <2>3. w.result # None
    BY <1>1, <2>1 DEF WaiterResult
  <2> HIDE DEF w
  <2> QED BY <2>2, <2>3 DEF Awaited
<1> DEFINE owned == Owned \ {operation}
<1>5. Work(machine, owned)
  BY <1>3, <1>4, WorkWithout
<1>6. Tells(machine, removed, {})
  BY <1>3, RemovalTells
<1> HIDE DEF removed
<1>7. Work(removed, owned) /\ Undecided(removed) = Undecided(machine)
      /\ removed.canonical = machine.canonical /\ ~removed.stopped
  <2> HIDE DEF owned
  <2>1. Work(removed, owned)
    BY <1>3, <1>5, <1>6, WorkTold
  <2>2. Undecided(removed) = Undecided(machine)
    BY <1>3, <1>6, UndecidedTold
  <2> QED BY <1>3, <1>6, <2>1, <2>2 DEF Tells
<1>8. /\ \A d \in Caller \ {c} : call'[d] = call[d]
      /\ call'[c].at # "idle" =>
             /\ call'[c].at \in {"submit", "commit"}
             /\ call'[c].purpose \in {"resync", "device"}
             /\ call'[c].at = "commit" => call'[c].purpose = "device"
             /\ call'[c].purpose = "device" => OfOneProject(call'[c].graph, core.graph)
      /\ call[c].purpose = "device" =>
             /\ call'[c].at # "idle"
             /\ \/ call'[c].purpose = "device"
                \/ call'[c].at = "submit" /\ call'[c].key = core.key
  BY <1>1, <1>2, ReturnOwns
<1>9. NotBehind(core.key)'
  BY <1>1, <1>7 DEF NotBehind, OwnedInv, CallsInProject
<1>10. ASSUME Undecided(machine')
       PROVE  \/ Owner(c)'
              \/ /\ Undecided(machine) /\ machine'.canonical = machine.canonical
                 /\ \A d \in Caller : Owner(d) => d # c
  <2>1. CASE call[c].purpose = "device"
    <3>1. Owner(c)'
      BY <1>1, <1>8, <1>9, <2>1 DEF Owner
    <3> QED BY <3>1
  <2>2. CASE call[c].purpose # "device"
    BY <1>1, <1>7, <1>10, <2>2 DEF Owner
  <2> QED BY <2>1, <2>2
<1>11. owned \subseteq Owned'
  BY <1>8, OwnedStays
<1> HIDE DEF owned, operation
<1> QED BY <1>1, <1>3, <1>7, <1>8, <1>9, <1>10, <1>11, OwnersMove

\* A proposal becomes canonical or is repaired: either way the caller submits what
\* is canonical.  The Project it was made for is open.
LEMMA CommitDeviceOwns ==
    ASSUME IInv, IInv', OwnedInv, NEW c \in Caller, CommitDevice(c)
    PROVE  OwnedInv'
<1>1. /\ call[c].at = "commit" /\ InOpenProject(call[c].graph)
      /\ late' = late /\ worker' = worker /\ machine' = machine
  BY DEF CommitDevice, OwnedInv, CallsInProject
<1>2. \/ /\ core'.key.sequence = core.key.sequence + 1 /\ OfOneProject(core'.graph, core.graph)
         /\ ToSubmit(c, "edit", core')
      \/ core' = core /\ ToSubmit(c, "resync", core')
  <2>1. CASE /\ core.key.sequence + 1 = call[c].key.sequence
             /\ core' = [key |-> call[c].key, graph |-> call[c].graph] /\ ToSubmit(c, "edit", core')
    <3>1. core'.key = call[c].key /\ core'.graph = call[c].graph
      BY <2>1
    <3>2. core'.key.sequence = core.key.sequence + 1
      BY <2>1, <3>1
    <3> QED BY <1>1, <2>1, <3>1, <3>2 DEF InOpenProject, OfOneProject
  <2> QED BY <1>1, <2>1 DEF CommitDevice
<1>3. machine \in Machine /\ ~machine.stopped /\ Work(machine, Owned)
  BY <1>1, Shapes, BusyBefore DEF OwnedInv
<1>4. /\ call'[c].at = "submit" /\ call'[c].purpose \in {"edit", "resync"} /\ call'[c].key = core'.key
      /\ \A d \in Caller \ {c} : call'[d] = call[d]
  BY <1>2, BeginsToSubmit
<1>5. NotBehind(core.key)'
  <2>1. NotBehind(core.key) /\ core.key.sequence \in Nat
        /\ (machine.canonical # None => machine.canonical.key.sequence \in Nat)
    BY SequencesAreTyped DEF OwnedInv, CallsInProject
  <2> QED BY <1>1, <1>2, <2>1 DEF NotBehind
<1>6. Owned \subseteq Owned' /\ Owner(c)'
  BY <1>1, <1>4, <1>5, OwnedStays DEF Owner
<1> QED BY <1>1, <1>2, <1>3, <1>4, <1>5, <1>6, OwnersMove

\* No caller moves, and the canonical intent stays.
LEMMA MachineOwns ==
    ASSUME IInv, OwnedInv, late' = late, core' = core, call' = call, Reports',
           machine'.canonical = machine.canonical,
           machine.stopped => machine'.stopped,
           machine'.stopped => \A c \in Caller : call[c] = Idle,
           ~machine'.stopped => Work(machine', Owned),
           ~machine'.stopped /\ Undecided(machine') =>
               \/ Undecided(machine)
               \/ \E operation \in Owned : TRUE
    PROVE  OwnedInv'
<1>1. CallsInProject'
  BY DEF OwnedInv, CallsInProject, InOpenProject, NotBehind
<1>2. Owned' = Owned /\ \A c \in Caller : Owner(c)' = Owner(c)
  BY DEF Owned, Owner, NotBehind
<1>3. ASSUME ~machine'.stopped, Undecided(machine') PROVE \E c \in Caller : Owner(c)
  <2>1. CASE Undecided(machine)
    BY <1>3, <2>1 DEF OwnedInv
  <2>2. CASE \E operation \in Owned : TRUE
    <3>1. PICK c \in Caller : call[c].at = "waiting" /\ call[c].purpose = "device"
      BY <2>2 DEF Owned
    <3> QED BY <3>1 DEF Owner
  <2> QED BY <1>3, <2>1, <2>2
<1>4. machine'.stopped => \A c \in Caller : call'[c] = Idle
  OBVIOUS
<1> QED BY <1>1, <1>2, <1>3, <1>4 DEF OwnedInv

-----------------------------------------------------------------------------
(* Callers.                                                                *)

LEMMA PollOwns ==
    ASSUME IInv, OwnedInv, NEW c \in Caller, PollGeneration(c)
    PROVE  OwnedInv'
<1> DEFINE observed == GenerationObserved(machine, native.generation)
<1>1. /\ call[c].at = "waiting" /\ machine' = observed
      /\ late' = late /\ worker' = worker /\ core' = core /\ call' = call
  BY DEF PollGeneration
<1>2. machine \in Machine /\ observed \in Machine /\ Renewed(machine, observed)
      /\ ~machine.stopped /\ Work(machine, Owned)
  BY <1>1, Shapes, EnvironmentRenewed, BusyBefore DEF OwnedInv
<1> HIDE DEF observed
<1>3. /\ observed.canonical = machine.canonical /\ observed.stopped = machine.stopped
      /\ (Undecided(observed) => Undecided(machine)) /\ Work(observed, Owned)
  BY <1>2, WorkRenewed
<1>4. Reports'
  BY <1>1 DEF OwnedInv, Reports
<1> QED BY <1>1, <1>2, <1>3, <1>4, MachineOwns

LEMMA CallerOwns ==
    ASSUME IInv, IInv', OrderInv, AnswerInv, OwnedInv, "switch" \notin Purpose,
           NEW c \in Caller, CallerStep(c)
    PROVE  OwnedInv'
<1>1. CASE Edit(c) \/ Resync(c) \/ ChangeAudioDevice(c) \/ ProposeDevice(c) \/ OpenProject(c)
  BY <1>1, BeginOwns
<1>2. CASE SubmitProjection(c)
  BY <1>2, SubmitOwns
<1>3. CASE PollGeneration(c)
  BY <1>3, PollOwns
<1>4. CASE CollectResult(c)
  BY <1>4, CollectOwns
<1>5. CASE CommitDevice(c)
  BY <1>5, CommitDeviceOwns
<1>6. ~GiveUp(c) /\ ~ReportDeadline(c) /\ ~PromoteProject(c)
  BY DEF OwnedInv, CallsInProject, GiveUp, ReportDeadline, PromoteProject
<1> QED BY <1>1, <1>2, <1>3, <1>4, <1>5, <1>6 DEF CallerStep

-----------------------------------------------------------------------------
(* The worker and everything else.                                         *)

\* A report neither stops the machine nor lets it go on.
LEMMA ReportsLeaveStopped ==
    ASSUME NEW m, "stopped" \in DOMAIN m, NEW operation, NEW result, NEW passed
    PROVE  /\ Prepared(m, operation, result, passed).stopped = m.stopped
           /\ Committed(m, operation, result, passed).stopped = m.stopped
<1> DEFINE Same(n) == "stopped" \in DOMAIN n /\ n.stopped = m.stopped
<1>1. ASSUME NEW n, Same(n), NEW id, NEW told
      PROVE  Same(CompleteOperation(n, id, told))
  BY <1>1 DEF CompleteOperation, CompleteWaiters
<1>2. ASSUME NEW n, Same(n) PROVE Same(StartQueued(n))
  <2>1. Same([n EXCEPT !.queued = None]) /\ Same([n EXCEPT !.job = None])
    BY <1>2
  <2>2. ASSUME NEW k, Same(k), NEW request PROVE Same(Start(k, request))
    BY <2>2 DEF Start
  <2> HIDE DEF Same
  <2> QED BY <2>1, <2>2 DEF StartQueued
<1>3. ASSUME NEW n, Same(n) PROVE Same(InstallCommitted(n)) /\ \A e : Same([n EXCEPT !.error = e])
  BY <1>3 DEF InstallCommitted
<1>4. \A phase : Same([m EXCEPT !.job.phase = phase])
  OBVIOUS
<1>5. Same(m)
  OBVIOUS
<1> SUFFICES Same(Prepared(m, operation, result, passed)) /\ Same(Committed(m, operation, result, passed))
  OBVIOUS
<1> HIDE DEF Same
<1>6. ASSUME NEW n, Same(n), NEW e PROVE Same(FinishError(n, e))
  BY <1>1, <1>2, <1>3, <1>6 DEF FinishError
<1>7. Same(FinishOk(m))
  <2>1. Same(InstallCommitted(m)) /\ Same([InstallCommitted(m) EXCEPT !.error = None])
    BY <1>3, <1>5
  <2> QED BY <1>1, <1>2, <2>1 DEF FinishOk
<1>8. Same(Prepared(m, operation, result, passed))
  BY <1>4, <1>5, <1>6 DEF Prepared
<1>9. Same(Committed(m, operation, result, passed))
  <2>1. \A e : Same(FinishError(InstallCommitted(m), e)) /\ Same(FinishError(m, e))
    BY <1>3, <1>5, <1>6
  <2> QED BY <1>4, <1>5, <1>7, <2>1 DEF Committed
<1> QED BY <1>8, <1>9

\* The worker reports a result.
LEMMA ReportOwns ==
    ASSUME IInv, OwnedInv, late' = late, core' = core, call' = call, Reports',
           NEW operation, NEW result \in {"ok", "retryable", "timeout", "failed"},
           \/ machine' = Prepared(machine, operation, result, late)
           \/ machine' = Committed(machine, operation, result, late)
    PROVE  OwnedInv'
<1>1. machine \in Machine /\ late = {} /\ "stopped" \in DOMAIN machine /\ "canonical" \in DOMAIN machine
  BY Shapes DEF OwnedInv, CallsInProject, Machine
<1>2. machine' \in {Prepared(machine, operation, result, {}), Committed(machine, operation, result, {})}
  BY <1>1
<1>3. machine'.stopped = machine.stopped
  BY <1>1, ReportsLeaveStopped
<1>4. machine'.canonical = machine.canonical
  BY <1>1, ReportsKeep DEF Keeps
<1>5. ASSUME ~machine.stopped
      PROVE  /\ Work(machine', Owned)
             /\ Undecided(machine') => Undecided(machine) \/ \E asked \in Owned : TRUE
  <2>1. Work(machine, Owned)
    BY <1>5 DEF OwnedInv
  <2> DEFINE owned == Owned
  <2>2. Work(machine, owned)
    BY <2>1
  <2> HIDE DEF owned
  <2>3. /\ Work(machine', owned)
        /\ Undecided(machine') =>
               Undecided(machine) \/ (machine.job # None /\ machine.job.request.operation \in owned)
    BY <1>1, <1>2, <1>5, <2>2, ReportsWork
  <2> QED BY <2>3 DEF owned
<1>6. machine.stopped => \A c \in Caller : call[c] = Idle
  BY DEF OwnedInv
<1> QED BY <1>3, <1>4, <1>5, <1>6, MachineOwns

LEMMA WorkerOwns ==
    ASSUME IInv, OwnedInv, WorkerStep
    PROVE  OwnedInv'
<1> DEFINE observed == GenerationObserved(machine, native.generation)
<1>1. late' = late /\ core' = core /\ call' = call
  BY DEF WorkerStep, TakeWork, PrepareSnapshot, WaitForIdle, ObserveBeforeReport,
         ReportPrepared, CommitSnapshot, ReportCommitted, DiscardSnapshot
<1>2. /\ machine.stopped => \A c \in Caller : call[c] = Idle
      /\ ~machine.stopped => Work(machine, Owned)
  BY DEF OwnedInv
<1>3. Reports'
  <2>1. worker \in [at : WorkerAt, request : Request \union {None}, result : Result \union {"retryable", None}]
    BY DEF IInv, TypeOK, StateOK
  <2>2. Reports
    BY DEF OwnedInv
  <2> QED BY <2>1, <2>2 DEF Reports, WorkerStep, TakeWork, PrepareSnapshot, WaitForIdle,
             ObserveBeforeReport, ReportPrepared, CommitSnapshot, ReportCommitted, DiscardSnapshot,
             WorkerTo, PreparedEffect
<1>4. CASE TakeWork \/ PrepareSnapshot \/ CommitSnapshot \/ DiscardSnapshot
  <2>1. machine' = machine
    BY <1>4 DEF TakeWork, PrepareSnapshot, CommitSnapshot, DiscardSnapshot
  <2> QED BY <1>1, <1>2, <1>3, <2>1, MachineOwns
<1>5. CASE WaitForIdle
  <2>1. CASE machine' = machine
    BY <1>1, <1>2, <1>3, <2>1, MachineOwns
  <2>2. CASE \E result \in {"timeout", "failed"} :
                machine' = Prepared(machine, worker.request.operation, result, late)
    BY <1>1, <1>3, <2>2, ReportOwns
  <2> QED BY <1>5, <2>1, <2>2 DEF WaitForIdle
<1>6. CASE ObserveBeforeReport
  <2>1. machine' = observed
    BY <1>6 DEF ObserveBeforeReport
  <2>2. machine \in Machine /\ observed \in Machine /\ Renewed(machine, observed)
    BY Shapes, EnvironmentRenewed
  <2> HIDE DEF observed
  <2>3. /\ observed.canonical = machine.canonical /\ observed.stopped = machine.stopped
        /\ Undecided(observed) => Undecided(machine)
        /\ Work(machine, Owned) => Work(observed, Owned)
    BY <2>2, WorkRenewed
  <2> QED BY <1>1, <1>2, <1>3, <2>1, <2>3, MachineOwns
<1>7. CASE ReportPrepared \/ ReportCommitted
  <2>1. worker.result \in {"ok", "retryable", "timeout", "failed"}
    BY <1>7 DEF ReportPrepared, ReportCommitted, OwnedInv, Reports
  <2>2. \/ machine' = Prepared(machine, worker.request.operation, worker.result, late)
        \/ machine' = Committed(machine, worker.request.operation, worker.result, late)
    BY <1>7 DEF ReportPrepared, ReportCommitted
  <2> QED BY <1>1, <1>3, <2>1, <2>2, ReportOwns
<1> QED BY <1>4, <1>5, <1>6, <1>7 DEF WorkerStep

\* A failure on record needs nobody to decide; a stopped machine has no callers.
LEMMA SurroundingsOwn ==
    ASSUME IInv, OwnedInv, ~Expiry,
           Expire \/ FinishAbandoned \/ RestartSidecar \/ QueryStatus \/ ReportTransportFailure \/ Shutdown
               \/ UNCHANGED vars
    PROVE  OwnedInv'
<1> DEFINE observed == GenerationObserved(machine, native.generation)
<1>1. late' = late /\ core' = core /\ call' = call /\ worker' = worker
  BY DEF Expire, FinishAbandoned, RestartSidecar, QueryStatus, ReportTransportFailure, Shutdown, vars
<1>2. /\ machine.stopped => \A c \in Caller : call[c] = Idle
      /\ ~machine.stopped => Work(machine, Owned)
      /\ machine \in Machine
  BY Shapes DEF OwnedInv
<1>3. Reports'
  BY <1>1 DEF OwnedInv, Reports
<1>4. CASE FinishAbandoned \/ RestartSidecar \/ UNCHANGED vars
  <2>1. machine' = machine
    BY <1>4 DEF FinishAbandoned, RestartSidecar, vars
  <2> QED BY <1>1, <1>2, <1>3, <2>1, MachineOwns
<1>5. CASE QueryStatus
  <2>1. machine' = observed
    BY <1>5 DEF QueryStatus
  <2>2. observed \in Machine /\ Renewed(machine, observed)
    BY Shapes, EnvironmentRenewed
  <2> HIDE DEF observed
  <2>3. /\ observed.canonical = machine.canonical /\ observed.stopped = machine.stopped
        /\ Undecided(observed) => Undecided(machine)
        /\ Work(machine, Owned) => Work(observed, Owned)
    BY <1>2, <2>2, WorkRenewed
  <2> QED BY <1>1, <1>2, <1>3, <2>1, <2>3, MachineOwns
<1>6. CASE ReportTransportFailure
  <2>1. machine' = [machine EXCEPT !.error = "failed"] /\ ~machine.stopped
    BY <1>6 DEF ReportTransportFailure, MarkFailed
  <2>2. /\ machine'.environment = machine.environment /\ machine'.canonical = machine.canonical
        /\ machine'.active = machine.active /\ machine'.job = machine.job
        /\ machine'.queued = machine.queued /\ machine'.error = "failed"
        /\ machine'.stopped = machine.stopped /\ machine'.next = machine.next
        /\ machine'.waiters = machine.waiters
    BY <1>2, <2>1 DEF Machine
  <2>3. ~Undecided(machine')
    BY <2>2, NoneAssumption DEF Undecided, Result, Error
  <2>4. Work(machine', Owned)
    BY <1>2, <2>1, <2>2 DEF Work, Tasks, Guided, Numbered, Pending, Awaited, Plays, ActiveHere, IsIntended
  <2> QED BY <1>1, <1>2, <1>3, <2>1, <2>2, <2>3, <2>4, MachineOwns
<1>7. CASE Shutdown
  <2>1. /\ \A c \in Caller : call[c] = Idle
        /\ machine' = Stopped(machine)
    BY <1>7 DEF Shutdown
  <2>2. machine'.canonical = machine.canonical
    BY <1>2, <2>1, EventsKeep DEF Keeps, Machine
  <2>3. machine'.stopped
    BY <1>2, <2>1 DEF Stopped, CompleteWaiters, Machine
  <2> QED BY <1>1, <1>3, <2>1, <2>2, <2>3, MachineOwns
<1> QED BY <1>4, <1>5, <1>6, <1>7 DEF Expire

-----------------------------------------------------------------------------
(* Theorem.                                                                *)

LEMMA OwnedInit == Init => OwnedInv
<1> SUFFICES ASSUME Init PROVE OwnedInv
  OBVIOUS
<1>1. /\ machine.canonical = None /\ machine.active = None /\ machine.job = None
      /\ machine.queued = None /\ machine.waiters = {} /\ ~machine.stopped
  BY DEF Init, NewMachine
<1>2. late = {} /\ worker.at = "idle" /\ \A c \in Caller : call[c].at = "idle"
  BY DEF Init, Idle
<1>3. Work(machine, Owned) /\ ~Undecided(machine)
  BY <1>1 DEF Work, Tasks, Guided, Numbered, Undecided, Plays, ActiveHere
<1> QED BY <1>1, <1>2, <1>3 DEF OwnedInv, CallsInProject, NotBehind, Reports

LEMMA OwnedStep ==
    ~Expiry /\ "switch" \notin Purpose /\ IInv /\ IInv' /\ OrderInv /\ AnswerInv /\ OwnedInv /\ [Next]_vars
        => OwnedInv'
<1> QED BY CallerOwns, WorkerOwns, SurroundingsOwn DEF Next

\* ProposalIsOwned: a proposal that plays without being canonical has a caller
\* that is still deciding about it or repairing it, unless a failure is on
\* record.  Nobody's deadline passes and no other Project is opened.
THEOREM ProposalsAreOwned == ~Expiry /\ "switch" \notin Purpose /\ Spec => []ProposalIsOwned
<1>1. OwnedInv => ProposalIsOwned
  BY DEF OwnedInv, Owner, Idle, Undecided, Plays, ProposalIsOwned
<1> DEFINE Quiet == ~Expiry /\ "switch" \notin Purpose /\ OwnedInv
<1>2. ~Expiry /\ "switch" \notin Purpose /\ Init => Quiet
  BY OwnedInit
<1>3. Quiet /\ IInv /\ IInv' /\ OrderInv /\ AnswerInv /\ [Next]_vars => Quiet'
  BY OwnedStep
<1>4. Quiet => ProposalIsOwned
  BY <1>1
<1> QED BY <1>2, <1>3, <1>4, Invariance, OrderInvariance, AnswersAreOwed, PTL DEF Spec
=============================================================================

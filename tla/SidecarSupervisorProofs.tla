----------------------- MODULE SidecarSupervisorProofs -----------------------
(***************************************************************************)
(* What SidecarSupervisor promises for any number of processes, device     *)
(* threads and device recoveries: its types, at most one sidecar, none     *)
(* after shutdown, commands that reach the generation they waited for, no  *)
(* sidecar unmuted before it has the canonical graph, and, as long as only *)
(* unexpected exits go wrong, no rest before what they left is repaired.   *)
(***************************************************************************)
EXTENDS SidecarSupervisor, TLAPS

\* Where a thread holds the command gate.
Critical == {"confirm", "spawn", "store"}

\* Who replaces the process holds the command gate, and the slot is empty.
GateHeld ==
    /\ \A t \in Thread : thread[t].at \in Critical => commandGate = t
    /\ commandGate # None => slot = 0

\* The slot holds the current process.
SlotIsCurrent == slot # 0 => slot = generation

\* A generation is spawned once: recovery of g has not begun while its reader
\* is at work, and the reader of a generation to come does not exist.
SpawnedOnce ==
    /\ \A g \in Generations : reader[g] # "gone" => thread[g].at = "idle"
    /\ \A g \in Generations : g > generation => reader[g] = "none"
    /\ \A t \in Thread : thread[t].at \in {"confirm", "spawn"} => reader[generation] = "none"

\* After shutdown there is no process, and none is about to be stored.
ShutDown ==
    shutdown = "done" => slot = 0 /\ \A t \in Thread : thread[t].at # "store"

\* The inductive invariant.
SupervisorInv ==
    /\ SupervisorTypeOK
    /\ GateHeld
    /\ SlotIsCurrent
    /\ SpawnedOnce
    /\ OneSidecar
    /\ ShutDown
    /\ CommandsReachTheirGeneration

-----------------------------------------------------------------------------
(* What the helpers do to the threads and their requests.                  *)

Threads == [Thread -> ThreadState]
Requests == [Thread -> Request \union {None}]

\* A thread that goes on changes its own state only.
LEMMA GoMoves ==
    ASSUME NEW t \in Thread, NEW at \in ThreadAt, thread \in Threads, Go(t, at)
    PROVE  /\ thread' \in Threads
           /\ thread'[t].at = at
           /\ \A u \in Thread \ {t} : thread'[u] = thread[u]
<1>1. Idle \in ThreadState /\ Idle.at = "idle"
  BY BoundAssumption DEF Idle, ThreadState, ThreadAt, Requesting
<1>2. thread[t] \in ThreadState
  BY DEF Threads
<1>3. [thread[t] EXCEPT !.at = at] \in ThreadState /\ [thread[t] EXCEPT !.at = at].at = at
  BY <1>2 DEF ThreadState
<1> QED
  BY <1>1, <1>3 DEF Go, Threads

\* An answer concerns one request and is well formed.
LEMMA AnswerKeeps ==
    ASSUME NEW t \in Thread, NEW result \in Failure \union {"ok"}, request \in Requests,
           Answer(t, result)
    PROVE  /\ request' \in Requests
           /\ request'[t].at = "done"
           /\ \A u \in Thread \ {t} : request'[u] = request[u]
<1>1. Done(result) \in Request /\ Done(result).at = "done"
  BY BoundAssumption DEF Done, Request
<1> QED
  BY <1>1 DEF Answer, Requests

\* Failing what is pending leaves no request that was sent.
LEMMA FailPendingKeeps ==
    ASSUME NEW result \in Failure, request \in Requests, FailPending(result)
    PROVE  /\ request' \in Requests
           /\ \A t \in Thread : request'[t] = None \/ request'[t].at # "sent"
<1>1. Done(result) \in Request /\ Done(result).at = "done"
  BY BoundAssumption DEF Done, Request
<1> QED
  BY <1>1 DEF FailPending, Requests

\* A thread that consumes its answer goes on at one of the points given.
LEMMA ThenMoves ==
    ASSUME NEW t \in Thread, NEW points \in SUBSET ThreadAt, thread \in Threads,
           request \in Requests, Then(t, points)
    PROVE  /\ thread' \in Threads
           /\ thread'[t].at \in points
           /\ \A u \in Thread \ {t} : thread'[u] = thread[u]
           /\ request' \in Requests
           /\ request' = [request EXCEPT ![t] = None]
<1>1. PICK at \in points : Go(t, at)
  BY DEF Then
<1>2. request' = [request EXCEPT ![t] = None]
  BY DEF Then, Finish
<1>3. request' \in Requests
  BY <1>2 DEF Requests
<1> QED
  BY <1>1, <1>2, <1>3, GoMoves

-----------------------------------------------------------------------------
(* Types.                                                                  *)

LEMMA InitTypes == Init => SupervisorTypeOK
<1> SUFFICES ASSUME Init PROVE SupervisorTypeOK
  OBVIOUS
<1>1. 1 \in Generations /\ 0 \in 0 .. MaxGeneration /\ 0 \in Nat
  BY BoundAssumption DEF Generations
<1>2. Idle \in ThreadState /\ [Idle EXCEPT !.at = "begin"] \in ThreadState
  BY <1>1 DEF Idle, ThreadState, ThreadAt
<1>3. NewSidecar \in Sidecar /\ NoSidecar \in Sidecar
  BY DEF NewSidecar, NoSidecar, Sidecar
<1>4. thread \in [Thread -> ThreadState]
  BY <1>2 DEF Init
<1>5. request \in [Thread -> Request \union {None}]
  BY DEF Init
<1>6. /\ sidecar \in [Generations -> Sidecar] /\ reader \in [Generations -> ReaderAt]
      /\ slot \in 0 .. MaxGeneration /\ faulted \in BOOLEAN
  BY <1>1, <1>3, BoundAssumption DEF Init, ReaderAt
<1> QED
  BY <1>1, <1>4, <1>5, <1>6, BoundAssumption DEF Init, SupervisorTypeOK

\* A request takes its steps, the sidecar's included.
LEMMA RequestTypes ==
    ASSUME SupervisorTypeOK, NEW t \in Thread, RequestStep(t)
    PROVE  SupervisorTypeOK'
<1> USE DEF SupervisorTypeOK
<1>1. request \in Requests
  BY DEF Requests
<1>2. ASSUME NEW result \in Failure \union {"ok"}, Answer(t, result) PROVE request' \in Requests
  BY <1>1, <1>2, AnswerKeeps
<1>3. {"lost", "timeout", "changed", "stopping", "failed", "ok"} \subseteq Failure \union {"ok"}
  BY DEF Failure
<1>4. 0 \in 0 .. MaxGeneration /\ generation \in 0 .. MaxGeneration
  BY BoundAssumption DEF Generations
<1>5. CASE BeginRequest(t)
  <2>1. [at |-> "wait", generation |-> generation, process |-> 0, result |-> None] \in Request
    BY <1>4 DEF Request
  <2>2. request' \in Requests
    BY <1>1, <1>2, <1>3, <1>5, <2>1 DEF BeginRequest, Requests
  <2> QED
    BY <1>5, <2>2 DEF BeginRequest, RequestFrame, process, gates, Requests
<1>6. CASE AwaitReady(t)
  <2>1. request[t] \in Request
    BY <1>6 DEF AwaitReady, InRequest
  <2>2. [request[t] EXCEPT !.at = "gate"] \in Request
    BY <2>1 DEF Request
  <2>3. request' \in Requests
    BY <1>1, <1>2, <1>3, <1>6, <2>2 DEF AwaitReady, Requests
  <2> QED
    BY <1>6, <2>3 DEF AwaitReady, RequestFrame, process, gates, Requests
<1>7. CASE Send(t)
  <2>1. request[t] \in Request
    BY <1>7 DEF Send, InRequest
  <2>2. /\ [request[t] EXCEPT !.at = "wait", !.generation = generation] \in Request
        /\ [request[t] EXCEPT !.at = "sent", !.process = slot] \in Request
    BY <1>4, <2>1 DEF Request
  <2>3. request' \in Requests
    BY <1>1, <1>2, <1>3, <1>7, <2>2 DEF Send, Requests
  <2> QED
    BY <1>7, <2>3 DEF Send, RequestFrame, process, gates, Requests
<1>8. CASE Execute(t)
  <2>1. request' \in Requests /\ faulted' \in BOOLEAN
    BY <1>1, <1>2, <1>3, <1>8 DEF Execute, Fault, Faultless
  <2>2. ASSUME NEW s \in Sidecar, NEW at \in ThreadAt PROVE Effect(s, at) \in Sidecar
    BY DEF Effect, Sidecar
  <2>3. thread[t].at \in ThreadAt
    BY DEF ThreadState
  <2>4. sidecar' \in [Generations -> Sidecar]
    BY <1>8, <2>2, <2>3 DEF Execute
  <2> QED
    BY <1>8, <2>1, <2>4 DEF Execute, process, gates, Requests
<1>9. CASE TimeOut(t)
  <2>1. request' \in Requests /\ faulted' \in BOOLEAN
    BY <1>2, <1>3, <1>9 DEF TimeOut, Fault
  <2> QED
    BY <1>9, <2>1 DEF TimeOut, process, gates, Requests
<1> QED
  BY <1>5, <1>6, <1>7, <1>8, <1>9 DEF RequestStep

\* A process or its reader takes a step.
LEMMA SidecarTypes ==
    ASSUME SupervisorTypeOK, NEW g \in Generations, SidecarStep(g)
    PROVE  SupervisorTypeOK'
<1> USE DEF SupervisorTypeOK
<1>1. NoSidecar \in Sidecar
  BY DEF NoSidecar, Sidecar
<1>2. g \in 0 .. MaxGeneration /\ g \in Thread
  BY BoundAssumption DEF Generations, Thread
<1>3. CASE Crash(g)
  BY <1>1, <1>3 DEF Crash, process, gates
<1>4. CASE ReadReady(g)
  BY <1>2, <1>4 DEF ReadReady, Fault, gates
<1>5. CASE EndOfOutput(g)
  BY <1>2, <1>5 DEF EndOfOutput, ReaderGoes, ReaderAt, MarkTerminated, gates
<1>6. CASE HandleExit(g)
  <2>1. request' \in [Thread -> Request \union {None}]
    BY <1>6, FailPendingKeeps DEF HandleExit, Failure, Requests
  <2>2. [at |-> "gate", expected |-> g] \in ThreadState
    BY <1>2 DEF ThreadState, ThreadAt
  <2>3. thread' \in [Thread -> ThreadState]
    BY <1>6, <2>2 DEF HandleExit
  <2> QED
    BY <1>2, <1>6, <2>1, <2>3 DEF HandleExit, ReaderGoes, ReaderAt, MarkTerminated, gates
<1> QED
  BY <1>3, <1>4, <1>5, <1>6 DEF SidecarStep

LEMMA AfterRestartPoint ==
    ASSUME NEW t, NEW ok PROVE AfterRestart(t, ok) \in {"status", "unmute", "idle"}
  BY DEF AfterRestart

\* A thread takes a step of a restart.
LEMMA RestartTypes ==
    ASSUME SupervisorTypeOK, NEW t \in Device \union Generations, RestartStep(t)
    PROVE  SupervisorTypeOK'
<1> USE DEF SupervisorTypeOK
<1>1. t \in Thread
  BY DEF Thread
<1>2. {"command", "confirm", "spawn", "store", "restore", "graph", "unmute", "status", "idle"}
        \subseteq ThreadAt
  BY DEF ThreadAt, Requesting
<1>3. /\ thread \in Threads /\ request \in Requests
      /\ thread[t] \in ThreadState
  BY <1>1 DEF Threads, Requests
<1>4. ASSUME NEW at \in ThreadAt, Go(t, at) PROVE thread' \in [Thread -> ThreadState]
  BY <1>1, <1>3, <1>4, GoMoves DEF Threads
<1>5. ASSUME NEW points \in SUBSET ThreadAt, Then(t, points)
      PROVE  thread' \in [Thread -> ThreadState] /\ request' \in [Thread -> Request \union {None}]
  BY <1>1, <1>3, <1>5, ThenMoves DEF Threads, Requests
<1>6. NewSidecar \in Sidecar /\ NoSidecar \in Sidecar
  BY DEF NewSidecar, NoSidecar, Sidecar
<1>7. ASSUME FailRestart(t)
      PROVE  /\ thread' \in [Thread -> ThreadState]
             /\ outcomes' \in [Generations -> {"ok", "failed", None}]
             /\ restartGate' = None /\ commandGate' = None
  BY <1>2, <1>4, <1>7, AfterRestartPoint DEF FailRestart
<1>8. generation \in 0 .. MaxGeneration /\ generation + 1 \in Nat /\ MaxGeneration \in Nat
  BY BoundAssumption DEF Generations
<1>9. CASE TakeRestartGate(t)
  BY <1>1, <1>2, <1>4, <1>9, AfterRestartPoint DEF TakeRestartGate, Unaffected, process
<1>10. CASE JoinRestart(t)
  BY <1>2, <1>4, <1>10, AfterRestartPoint DEF JoinRestart, Unaffected, process
<1>11. CASE Replace(t)
  <2>1. generation' \in Generations
    BY <1>8, <1>11 DEF Replace, NextGeneration, Generations
  <2>2. request' \in [Thread -> Request \union {None}]
    BY <1>3, <1>11, FailPendingKeeps DEF Replace, Failure, Requests
  <2>3. thread' \in [Thread -> ThreadState]
    BY <1>2, <1>4, <1>11 DEF Replace
  <2>4. sidecar' \in [Generations -> Sidecar]
    BY <1>6, <1>11 DEF Replace, Kill
  <2>5. planned' \in SUBSET Generations /\ slot' \in 0 .. MaxGeneration
    BY <1>8, <1>11 DEF Replace, PreviousGeneration
  <2> QED
    BY <1>1, <1>11, <2>1, <2>2, <2>3, <2>4, <2>5 DEF Replace
<1>12. CASE Confirm(t)
  BY <1>2, <1>4, <1>7, <1>12 DEF Confirm, gates, Fault
<1>13. CASE Spawn(t)
  <2>1. sidecar' \in [Generations -> Sidecar] /\ reader' \in [Generations -> ReaderAt]
    BY <1>6, <1>13 DEF Spawn, ReaderGoes, ReaderAt
  <2>2. faulted' \in BOOLEAN
    BY <1>13 DEF Spawn
  <2> QED
    BY <1>2, <1>4, <1>7, <1>13, <2>1, <2>2 DEF Spawn, process, gates
<1>14. CASE Store(t)
  <2>1. sidecar' \in [Generations -> Sidecar] /\ slot' \in 0 .. MaxGeneration
    BY <1>6, <1>8, <1>14 DEF Store, Kill
  <2> QED
    BY <1>2, <1>4, <1>7, <1>14, <2>1 DEF Store
<1>15. CASE Restored(t)
  <2>1. outcomes' \in [Generations -> {"ok", "failed", None}]
    BY <1>15 DEF Restored
  <2>2. restartGate' \in Thread \union {None}
    BY <1>1, <1>15 DEF Restored, GateKept
  <2>3. \E points \in SUBSET ThreadAt : Then(t, points)
    BY <1>2, <1>15, AfterRestartPoint DEF Restored
  <2> QED
    BY <1>5, <1>15, <2>1, <2>2, <2>3 DEF Restored, Unaffected, process
<1>16. CASE Handler(t)
  <2>1. \E points \in SUBSET ThreadAt : Then(t, points)
    BY <1>2, <1>16 DEF Handler
  <2> QED
    BY <1>5, <1>16, <2>1 DEF Handler, Unaffected, process
<1> QED
  BY <1>9, <1>10, <1>11, <1>12, <1>13, <1>14, <1>15, <1>16 DEF RestartStep

\* The startup thread takes a step.
LEMMA StartupTypes ==
    ASSUME SupervisorTypeOK, StartupStep
    PROVE  SupervisorTypeOK'
<1> USE DEF SupervisorTypeOK
<1>1. Startup \in Thread
  BY DEF Thread
<1>2. {"idle", "begin", "status", "next", "graph", "unmute", "expose", "check"} \subseteq ThreadAt
  BY DEF ThreadAt, Requesting
<1>3. thread \in Threads /\ request \in Requests
  BY DEF Threads, Requests
<1>4. ASSUME NEW points \in SUBSET ThreadAt, Then(Startup, points)
      PROVE  thread' \in [Thread -> ThreadState] /\ request' \in [Thread -> Request \union {None}]
  BY <1>1, <1>3, <1>4, ThenMoves DEF Threads, Requests
<1>5. /\ [at |-> "status", expected |-> generation] \in ThreadState
      /\ [at |-> "graph", expected |-> generation] \in ThreadState
  BY <1>2, BoundAssumption DEF ThreadState, Generations
<1>6. /\ startup' \in {"pending", "completed", "failed"}
      /\ thread' \in [Thread -> ThreadState]
      /\ request' \in [Thread -> Request \union {None}]
  <2>1. CASE BeginStartup
    BY <1>2, <1>4, <1>5, <2>1 DEF BeginStartup, StartupFails
  <2>2. CASE StartupStatus
    BY <1>2, <1>4, <1>5, <2>2 DEF StartupStatus, StartupFails, StartupRetries, Finish
  <2>3. CASE StartupNext
    BY <1>2, <1>4, <2>3 DEF StartupNext, StartupFails
  <2>4. CASE StartupGraph
    BY <1>2, <1>4, <2>4 DEF StartupGraph, StartupFails, StartupRetries
  <2>5. CASE StartupUnmuted
    BY <1>2, <1>4, <2>5 DEF StartupUnmuted, StartupFails, StartupRetries
  <2>6. CASE StartupChecked
    BY <1>2, <1>4, <2>6 DEF StartupChecked, StartupFails, StartupRetries
  <2>7. CASE RetryStartup
    BY <1>1, <1>2, <1>3, <2>7, GoMoves DEF RetryStartup, Threads
  <2> QED
    BY <2>1, <2>2, <2>3, <2>4, <2>5, <2>6, <2>7 DEF StartupStep
<1>7. StartupQuiet
  BY DEF StartupStep, BeginStartup, StartupStatus, StartupNext, StartupGraph, StartupUnmuted,
         StartupChecked, RetryStartup
<1> QED
  BY <1>6, <1>7 DEF StartupQuiet, Unaffected, process, gates

\* A device thread takes a step of its own.
LEMMA DeviceTypes ==
    ASSUME SupervisorTypeOK, NEW t \in Device, DeviceStep(t)
    PROVE  SupervisorTypeOK'
<1> USE DEF SupervisorTypeOK
<1>1. t \in Thread
  BY DEF Thread
<1>2. {"idle", "mute", "device", "gate", "status", "graph", "unmute"} \subseteq ThreadAt
  BY DEF ThreadAt, Requesting
<1>3. thread \in Threads /\ request \in Requests
  BY DEF Threads, Requests
<1>4. ASSUME NEW points \in SUBSET ThreadAt, Then(t, points)
      PROVE  thread' \in [Thread -> ThreadState] /\ request' \in [Thread -> Request \union {None}]
  BY <1>1, <1>3, <1>4, ThenMoves DEF Threads, Requests
<1>5. ASSUME NEW at \in ThreadAt, Go(t, at) PROVE thread' \in [Thread -> ThreadState]
  BY <1>1, <1>3, <1>5, GoMoves DEF Threads
<1>6. [at |-> "device", expected |-> generation] \in ThreadState
  BY <1>2, BoundAssumption DEF ThreadState, Generations
<1>7. CASE BeginDevice(t)
  BY <1>2, <1>5, <1>7 DEF BeginDevice, DeviceQuiet, process, gates
<1>8. CASE DeviceMuted(t)
  <2>1. request' \in [Thread -> Request \union {None}]
    BY <1>8 DEF DeviceMuted, Finish
  <2> QED
    BY <1>2, <1>5, <1>6, <1>8, <2>1 DEF DeviceMuted, DeviceQuiet, process, gates
<1>9. CASE DeviceAnswered(t)
  BY <1>2, <1>4, <1>9 DEF DeviceAnswered, DeviceQuiet, process, gates
<1>10. CASE DeviceRestored(t)
  BY <1>2, <1>4, <1>10 DEF DeviceRestored, DeviceQuiet, process, gates
<1> QED
  BY <1>7, <1>8, <1>9, <1>10 DEF DeviceStep

\* The Host shuts down.
LEMMA ShutdownTypes ==
    ASSUME SupervisorTypeOK, CancelWaits \/ ForceShutdown
    PROVE  SupervisorTypeOK'
<1> USE DEF SupervisorTypeOK
<1>1. request' \in [Thread -> Request \union {None}]
  BY FailPendingKeeps DEF CancelWaits, ForceShutdown, Failure, Requests
<1>2. CASE CancelWaits
  BY <1>1, <1>2 DEF CancelWaits, process, gates
<1>3. CASE ForceShutdown
  <2>1. NoSidecar \in Sidecar /\ 0 \in 0 .. MaxGeneration
    BY BoundAssumption DEF NoSidecar, Sidecar
  <2>2. sidecar' \in [Generations -> Sidecar]
    BY <1>3, <2>1 DEF ForceShutdown, Kill
  <2>3. slot' \in 0 .. MaxGeneration /\ planned' \in SUBSET Generations
    BY <1>3, <2>1 DEF ForceShutdown
  <2> QED
    BY <1>1, <1>3, <2>2, <2>3 DEF ForceShutdown, gates
<1> QED
  BY <1>2, <1>3

LEMMA TypeStep ==
    ASSUME SupervisorTypeOK, [Next]_vars PROVE SupervisorTypeOK'
<1>1. CASE Next
  BY <1>1, RequestTypes, SidecarTypes, RestartTypes, StartupTypes, DeviceTypes, ShutdownTypes
     DEF Next
<1>2. CASE UNCHANGED vars
  BY <1>2 DEF SupervisorTypeOK, vars, process, gates
<1> QED
  BY <1>1, <1>2

-----------------------------------------------------------------------------
(* The inductive invariant.                                                *)

\* A thread stays where it is, or moves outside the critical points; the
\* recovery of a generation does not begin.
Moves(u) ==
    \/ thread'[u] = thread[u]
    \/ /\ thread[u].at \notin Critical /\ thread'[u].at \notin Critical
       /\ u \in Generations => thread[u].at # "idle"

\* What is sent went to the generation it waited for.
SentRight(u) ==
    request[u] # None /\ request[u].at = "sent" => request[u].process = request[u].generation

\* Steps that leave the gate, the slot and the readers alone.
LEMMA CalmStep ==
    ASSUME SupervisorInv, SupervisorTypeOK',
           UNCHANGED <<generation, slot, commandGate, reader>>,
           shutdown' = "done" => shutdown = "done",
           \A g \in Generations : sidecar'[g].alive => sidecar[g].alive,
           \A u \in Thread : Moves(u) /\ SentRight(u)'
    PROVE  SupervisorInv'
<1> USE DEF SupervisorInv, Moves, Critical
<1>0. Generations \subseteq Thread /\ Device \union Generations \subseteq Thread
  BY DEF Thread
<1>1. GateHeld'
  BY DEF GateHeld
<1>2. SlotIsCurrent'
  BY DEF SlotIsCurrent
<1>3. SpawnedOnce'
  <2>1. ASSUME NEW g \in Generations, reader'[g] # "gone" PROVE thread'[g].at = "idle"
    BY <1>0, <2>1 DEF SpawnedOnce
  <2> QED
    BY <2>1 DEF SpawnedOnce
<1>4. OneSidecar'
  BY <1>0 DEF OneSidecar, At
<1>5. ShutDown'
  BY DEF ShutDown
<1>6. CommandsReachTheirGeneration'
  BY DEF CommandsReachTheirGeneration, SentRight
<1> QED
  BY <1>1, <1>2, <1>3, <1>4, <1>5, <1>6

\* A thread that goes on, outside the critical points, moves calmly.
LEMMA GoIsCalm ==
    ASSUME SupervisorTypeOK, NEW t \in Thread, NEW at \in ThreadAt \ Critical, Go(t, at),
           thread[t].at \notin Critical, t \in Generations => thread[t].at # "idle"
    PROVE  \A u \in Thread : Moves(u)
<1>1. thread \in Threads
  BY DEF SupervisorTypeOK, Threads
<1> QED
  BY <1>1, GoMoves DEF Moves

\* So does one that consumes its answer, and nothing is sent.
LEMMA ThenIsCalm ==
    ASSUME SupervisorInv, NEW t \in Thread, NEW points \in SUBSET (ThreadAt \ Critical),
           Then(t, points),
           thread[t].at \notin Critical, t \in Generations => thread[t].at # "idle"
    PROVE  \A u \in Thread : Moves(u) /\ SentRight(u)'
<1>1. thread \in Threads /\ request \in Requests /\ points \in SUBSET ThreadAt
  BY DEF SupervisorInv, SupervisorTypeOK, Threads, Requests
<1>2. \A u \in Thread : Moves(u)
  BY <1>1, ThenMoves DEF Moves
<1>3. request' = [request EXCEPT ![t] = None]
  BY <1>1, ThenMoves
<1>4. \A u \in Thread : SentRight(u)'
  BY <1>1, <1>3 DEF SupervisorInv, CommandsReachTheirGeneration, SentRight, Requests
<1> QED
  BY <1>2, <1>4

LEMMA InitInv == Init => SupervisorInv
<1> SUFFICES ASSUME Init PROVE SupervisorInv
  OBVIOUS
<1>1. SupervisorTypeOK
  BY InitTypes
<1>2. \A t \in Thread : thread[t].at \in {"begin", "idle"} /\ request[t] = None
  BY DEF Init, Idle
<1>3. \A g \in Generations : thread[g].at = "idle"
  BY ThreadAssumption DEF Init, Idle, Generations, Thread
<1>4. GateHeld /\ SlotIsCurrent /\ ShutDown
  BY <1>2 DEF Init, GateHeld, SlotIsCurrent, ShutDown, Critical
<1>5. SpawnedOnce
  <2>1. \A g \in Generations : g > generation => reader[g] = "none"
    BY DEF Init
  <2> QED
    BY <1>2, <1>3, <2>1 DEF SpawnedOnce
<1>6. OneSidecar
  BY DEF Init, OneSidecar, NoSidecar
<1>7. CommandsReachTheirGeneration
  BY <1>2 DEF CommandsReachTheirGeneration
<1> QED
  BY <1>1, <1>4, <1>5, <1>6, <1>7 DEF SupervisorInv

\* Requests: the second look under the command gate.
LEMMA RequestKeepsInv ==
    ASSUME SupervisorInv, NEW t \in Thread, RequestStep(t)
    PROVE  SupervisorInv'
<1>1. SupervisorTypeOK /\ SupervisorTypeOK'
  BY RequestTypes DEF SupervisorInv
<1>2. /\ UNCHANGED <<generation, slot, commandGate, reader, shutdown, thread>>
  BY DEF RequestStep, BeginRequest, AwaitReady, Send, Execute, TimeOut, RequestFrame, process, gates
<1>3. \A g \in Generations : sidecar'[g].alive => sidecar[g].alive
  <2>1. CASE Execute(t)
    <3>1. ASSUME NEW s \in Sidecar, NEW at PROVE Effect(s, at).alive = s.alive
      BY DEF Effect, Sidecar
    <3> QED
      BY <1>1, <2>1, <3>1 DEF Execute, SupervisorTypeOK
  <2>2. CASE ~Execute(t)
    BY <2>2 DEF RequestStep, BeginRequest, AwaitReady, Send, TimeOut, RequestFrame
  <2> QED
    BY <2>1, <2>2
<1>4. \A u \in Thread : SentRight(u)'
  <2>1. request \in Requests /\ \A u \in Thread : SentRight(u)
    BY <1>1 DEF SupervisorInv, SupervisorTypeOK, CommandsReachTheirGeneration, SentRight, Requests
  <2>2. \A u \in Thread \ {t} : request'[u] = request[u]
    BY <2>1 DEF RequestStep, BeginRequest, AwaitReady, Send, Execute, TimeOut, Answer, Requests
  <2>3. ASSUME NEW result, Answer(t, result) PROVE SentRight(t)'
    BY <2>1, <2>3 DEF Answer, Done, SentRight, Requests
  <2>4. SentRight(t)'
    <3>1. CASE BeginRequest(t)
      BY <2>1, <2>3, <3>1 DEF BeginRequest, SentRight, Requests
    <3>2. CASE AwaitReady(t)
      <4>1. request[t] \in Request
        BY <2>1, <3>2 DEF AwaitReady, InRequest, Requests
      <4> QED
        BY <2>1, <2>3, <3>2, <4>1 DEF AwaitReady, SentRight, Requests, Request
    <3>3. CASE Send(t)
      <4>1. request[t] \in Request
        BY <2>1, <3>3 DEF Send, InRequest, Requests
      <4>2. slot # 0 => slot = generation
        BY DEF SupervisorInv, SlotIsCurrent
      <4> QED
        BY <2>1, <2>3, <3>3, <4>1, <4>2 DEF Send, SentRight, Requests, Request, IsReady
    <3>4. CASE Execute(t) \/ TimeOut(t)
      BY <2>3, <3>4 DEF Execute, TimeOut
    <3> QED
      BY <3>1, <3>2, <3>3, <3>4 DEF RequestStep
  <2> QED
    BY <2>1, <2>2, <2>4 DEF SentRight
<1> QED
  BY <1>1, <1>2, <1>3, <1>4, CalmStep DEF Moves

\* A process ends, or its reader goes on.
LEMMA SidecarKeepsInv ==
    ASSUME SupervisorInv, NEW g \in Generations, SidecarStep(g)
    PROVE  SupervisorInv'
<1>1. SupervisorTypeOK /\ SupervisorTypeOK'
  BY SidecarTypes DEF SupervisorInv
<1>2. Generations \subseteq Thread
  BY DEF Thread
<1>3. request \in Requests /\ \A u \in Thread : SentRight(u)
  BY <1>1 DEF SupervisorInv, SupervisorTypeOK, CommandsReachTheirGeneration, SentRight, Requests
<1>4. CASE Crash(g)
  <2>1. \A h \in Generations : sidecar'[h].alive => sidecar[h].alive
    BY <1>1, <1>4 DEF Crash, NoSidecar, SupervisorTypeOK
  <2>2. UNCHANGED <<generation, slot, commandGate, reader, shutdown, thread, request>>
    BY <1>4 DEF Crash, process, gates
  <2> QED
    BY <1>1, <1>3, <2>1, <2>2, CalmStep DEF Moves, SentRight
<1>5. CASE ReadReady(g)
  <2>1. UNCHANGED <<generation, slot, commandGate, reader, shutdown, thread, request, sidecar>>
    BY <1>5 DEF ReadReady, gates
  <2> QED
    BY <1>1, <1>3, <2>1, CalmStep DEF Moves, SentRight
<1>6. CASE EndOfOutput(g) \/ HandleExit(g)
  <2>1. UNCHANGED <<generation, slot, commandGate, shutdown, sidecar>>
    BY <1>6 DEF EndOfOutput, HandleExit, gates
  <2>2. /\ reader[g] \in {"reading", "exit"}
        /\ reader'[g] \in {"exit", "gone"}
        /\ EndOfOutput(g) => thread' = thread /\ request' = request
        /\ HandleExit(g) => reader'[g] = "gone"
        /\ \A h \in Generations \ {g} : reader'[h] = reader[h]
    BY <1>1, <1>6 DEF EndOfOutput, HandleExit, ReaderGoes, SupervisorTypeOK
  <2>3. /\ \A u \in Thread \ {g} : thread'[u] = thread[u]
        /\ thread'[g] = thread[g] \/ (HandleExit(g) /\ thread'[g].at = "gate")
    BY <1>1, <1>2, <1>6, <2>2 DEF HandleExit, SupervisorTypeOK
  <2>4. thread[g].at = "idle" /\ ~(g > generation)
    BY <2>2 DEF SupervisorInv, SpawnedOnce
  <2>5. \A u \in Thread : thread'[u] = thread[u] \/ thread'[u].at \notin Critical
    BY <1>2, <2>3 DEF Critical
  <2>6. GateHeld' /\ SlotIsCurrent' /\ ShutDown'
    BY <2>1, <2>5 DEF SupervisorInv, GateHeld, SlotIsCurrent, ShutDown, Critical
  <2>7. SpawnedOnce'
    <3>1. \A h \in Generations : reader'[h] # "gone" => thread'[h].at = "idle"
      BY <1>2, <2>2, <2>3, <2>4 DEF SupervisorInv, SpawnedOnce
    <3>2. \A h \in Generations : h > generation' => reader'[h] = "none"
      BY <2>1, <2>2, <2>4 DEF SupervisorInv, SpawnedOnce
    <3>3. \A t \in Thread : thread'[t].at \in {"confirm", "spawn"} => reader'[generation] = "none"
      <4>1. SUFFICES ASSUME NEW t \in Thread, thread'[t].at \in {"confirm", "spawn"}
                     PROVE  reader'[generation] = "none"
        OBVIOUS
      <4>2. thread'[t] = thread[t]
        BY <2>5, <4>1 DEF Critical
      <4>3. reader[generation] = "none" /\ generation \in Generations
        BY <1>1, <4>1, <4>2 DEF SupervisorInv, SpawnedOnce, SupervisorTypeOK
      <4> QED
        BY <2>2, <4>3
    <3> QED
      BY <2>1, <3>1, <3>2, <3>3 DEF SpawnedOnce
  <2>8. OneSidecar'
    <3>1. \A u \in Thread : thread[u].at = "store" => thread'[u].at = "store"
      BY <2>3, <2>4
    <3> QED
      BY <2>1, <3>1 DEF SupervisorInv, OneSidecar, At, Thread
  <2>9. CommandsReachTheirGeneration'
    <3>1. CASE EndOfOutput(g)
      BY <2>2, <3>1 DEF SupervisorInv, CommandsReachTheirGeneration
    <3>2. CASE HandleExit(g)
      BY <1>3, <3>2, FailPendingKeeps DEF HandleExit, Failure, CommandsReachTheirGeneration
    <3> QED
      BY <1>6, <3>1, <3>2
  <2> QED
    BY <1>1, <2>6, <2>7, <2>8, <2>9 DEF SupervisorInv
<1> QED
  BY <1>4, <1>5, <1>6 DEF SidecarStep

\* The startup thread never holds the command gate.
LEMMA StartupKeepsInv ==
    ASSUME SupervisorInv, StartupStep
    PROVE  SupervisorInv'
<1>1. SupervisorTypeOK /\ SupervisorTypeOK'
  BY StartupTypes DEF SupervisorInv
<1>2. Startup \in Thread /\ Startup \notin Generations
  BY ThreadAssumption DEF Thread, Generations
<1>3. UNCHANGED <<generation, slot, commandGate, reader, shutdown, sidecar>>
  BY DEF StartupStep, BeginStartup, StartupStatus, StartupNext, StartupGraph, StartupUnmuted,
         StartupChecked, RetryStartup, StartupQuiet, Unaffected, process, gates
<1>4. thread[Startup].at \notin Critical
  BY DEF StartupStep, BeginStartup, StartupStatus, StartupNext, StartupGraph, StartupUnmuted,
         StartupChecked, RetryStartup, Answered, At, Critical
<1>5. {"idle", "begin", "status", "next", "graph", "unmute", "expose", "check"}
        \subseteq ThreadAt \ Critical
  BY DEF ThreadAt, Requesting, Critical
<1>6. ASSUME NEW points \in SUBSET (ThreadAt \ Critical), Then(Startup, points)
      PROVE  \A u \in Thread : Moves(u) /\ SentRight(u)'
  BY <1>2, <1>4, <1>6, ThenIsCalm
<1>7. \A u \in Thread : SentRight(u)
  BY DEF SupervisorInv, CommandsReachTheirGeneration, SentRight
<1>8. \A u \in Thread : Moves(u) /\ SentRight(u)'
  <2>1. CASE BeginStartup
    <3>1. CASE Stopping
      BY <1>5, <1>6, <2>1, <3>1 DEF BeginStartup, StartupFails
    <3>2. CASE ~Stopping
      BY <1>1, <1>2, <1>4, <1>7, <2>1, <3>2
         DEF BeginStartup, Moves, SentRight, Critical, SupervisorTypeOK
    <3> QED
      BY <3>1, <3>2
  <2>2. CASE StartupStatus
    <3>1. CASE \E points \in SUBSET (ThreadAt \ Critical) : Then(Startup, points)
      BY <1>6, <3>1
    <3>2. CASE /\ Finish(Startup)
               /\ thread' = [thread EXCEPT ![Startup] = [at |-> "graph", expected |-> generation]]
      <4>1. \A u \in Thread : Moves(u)
        BY <1>1, <1>2, <1>4, <3>2 DEF Moves, Critical, SupervisorTypeOK
      <4>2. \A u \in Thread : SentRight(u)'
        BY <1>1, <1>7, <3>2 DEF Finish, SentRight, SupervisorTypeOK
      <4> QED
        BY <4>1, <4>2
    <3> QED
      BY <1>5, <2>2, <3>1, <3>2 DEF StartupStatus, StartupFails, StartupRetries
  <2>3. CASE StartupNext
    BY <1>5, <1>6, <2>3 DEF StartupNext, StartupFails
  <2>4. CASE StartupGraph
    BY <1>5, <1>6, <2>4 DEF StartupGraph, StartupFails, StartupRetries
  <2>5. CASE StartupUnmuted
    BY <1>5, <1>6, <2>5 DEF StartupUnmuted, StartupFails, StartupRetries
  <2>6. CASE StartupChecked
    BY <1>5, <1>6, <2>6 DEF StartupChecked, StartupFails, StartupRetries
  <2>7. CASE RetryStartup
    BY <1>1, <1>2, <1>4, <1>5, <1>7, <2>7, GoIsCalm DEF RetryStartup, SentRight
  <2> QED
    BY <2>1, <2>2, <2>3, <2>4, <2>5, <2>6, <2>7 DEF StartupStep
<1> QED
  BY <1>1, <1>3, <1>8, CalmStep

\* Neither does a device thread outside a restart.
LEMMA DeviceKeepsInv ==
    ASSUME SupervisorInv, NEW t \in Device, DeviceStep(t)
    PROVE  SupervisorInv'
<1>1. SupervisorTypeOK /\ SupervisorTypeOK'
  BY DeviceTypes DEF SupervisorInv
<1>2. t \in Thread /\ t \notin Generations
  BY ThreadAssumption DEF Thread, Generations
<1>3. UNCHANGED <<generation, slot, commandGate, reader, shutdown, sidecar>>
  BY DEF DeviceStep, BeginDevice, DeviceMuted, DeviceAnswered, DeviceRestored, DeviceQuiet,
         process, gates
<1>4. thread[t].at \notin Critical
  BY DEF DeviceStep, BeginDevice, DeviceMuted, DeviceAnswered, DeviceRestored, Answered, At,
         Critical
<1>5. {"idle", "mute", "device", "gate", "status", "graph", "unmute"} \subseteq ThreadAt \ Critical
  BY DEF ThreadAt, Requesting, Critical
<1>6. ASSUME NEW points \in SUBSET (ThreadAt \ Critical), Then(t, points)
      PROVE  \A u \in Thread : Moves(u) /\ SentRight(u)'
  BY <1>2, <1>4, <1>6, ThenIsCalm
<1>7. \A u \in Thread : SentRight(u)
  BY DEF SupervisorInv, CommandsReachTheirGeneration, SentRight
<1>8. ASSUME NEW at \in ThreadAt \ Critical, Go(t, at) PROVE \A u \in Thread : Moves(u)
  BY <1>1, <1>2, <1>4, <1>8, GoIsCalm
<1>9. \A u \in Thread : Moves(u) /\ SentRight(u)'
  <2>1. CASE BeginDevice(t)
    BY <1>5, <1>7, <1>8, <2>1 DEF BeginDevice, SentRight
  <2>2. CASE DeviceMuted(t)
    <3>1. \A u \in Thread : SentRight(u)'
      BY <1>1, <1>7, <2>2 DEF DeviceMuted, Finish, SentRight, SupervisorTypeOK
    <3>2. thread' = [thread EXCEPT ![t] = [at |-> "device", expected |-> generation]]
             => \A u \in Thread : Moves(u)
      BY <1>1, <1>2, <1>4 DEF Moves, Critical, SupervisorTypeOK
    <3> QED
      BY <1>5, <1>8, <2>2, <3>1, <3>2 DEF DeviceMuted
  <2>3. CASE DeviceAnswered(t)
    BY <1>5, <1>6, <2>3 DEF DeviceAnswered
  <2>4. CASE DeviceRestored(t)
    BY <1>5, <1>6, <2>4 DEF DeviceRestored
  <2> QED
    BY <2>1, <2>2, <2>3, <2>4 DEF DeviceStep
<1> QED
  BY <1>1, <1>3, <1>9, CalmStep

\* Restart steps that do not touch the command gate.
LEMMA WaitingRestartKeepsInv ==
    ASSUME SupervisorInv, NEW t \in Device \union Generations,
           TakeRestartGate(t) \/ JoinRestart(t) \/ Restored(t) \/ Handler(t)
    PROVE  SupervisorInv'
<1>1. SupervisorTypeOK /\ SupervisorTypeOK'
  BY RestartTypes DEF SupervisorInv, RestartStep
<1>2. t \in Thread
  BY DEF Thread
<1>3. UNCHANGED <<generation, slot, commandGate, reader, shutdown, sidecar>>
  BY DEF TakeRestartGate, JoinRestart, Restored, Handler, Unaffected, process
<1>4. thread[t].at \notin Critical /\ thread[t].at # "idle"
  BY DEF TakeRestartGate, JoinRestart, Restored, Handler, Answered, At, Critical
<1>5. {"command", "graph", "status", "unmute", "idle"} \subseteq ThreadAt \ Critical
  BY DEF ThreadAt, Requesting, Critical
<1>6. ASSUME NEW points \in SUBSET (ThreadAt \ Critical), Then(t, points)
      PROVE  \A u \in Thread : Moves(u) /\ SentRight(u)'
  BY <1>2, <1>4, <1>6, ThenIsCalm
<1>7. \A u \in Thread : SentRight(u)
  BY DEF SupervisorInv, CommandsReachTheirGeneration, SentRight
<1>8. ASSUME NEW at \in ThreadAt \ Critical, Go(t, at) PROVE \A u \in Thread : Moves(u)
  BY <1>1, <1>2, <1>4, <1>8, GoIsCalm
<1>9. \A u \in Thread : Moves(u) /\ SentRight(u)'
  <2>1. CASE TakeRestartGate(t) \/ JoinRestart(t)
    <3>1. \E at \in ThreadAt \ Critical : Go(t, at)
      <4>1. CASE TakeRestartGate(t)
        BY <1>5, <4>1, AfterRestartPoint DEF TakeRestartGate
      <4>2. CASE JoinRestart(t)
        <5>1. AfterRestart(t, outcomes[thread[t].expected] = "ok") \in ThreadAt \ Critical
          BY <1>5 DEF AfterRestart
        <5> QED
          BY <4>2, <5>1 DEF JoinRestart
      <4> QED
        BY <2>1, <4>1, <4>2
    <3>2. request' = request
      BY <2>1 DEF TakeRestartGate, JoinRestart
    <3> QED
      BY <1>7, <1>8, <3>1, <3>2 DEF SentRight
  <2>2. CASE Restored(t)
    BY <1>5, <1>6, <2>2, AfterRestartPoint DEF Restored
  <2>3. CASE Handler(t)
    BY <1>5, <1>6, <2>3 DEF Handler
  <2> QED
    BY <2>1, <2>2, <2>3
<1> QED
  BY <1>1, <1>3, <1>9, CalmStep

\* The process is replaced: the only one that can be alive is killed, and the
\* reader of the next does not exist yet.
LEMMA ReplaceKeepsInv ==
    ASSUME SupervisorInv, NEW t \in Device \union Generations, Replace(t)
    PROVE  SupervisorInv'
<1>1. SupervisorTypeOK /\ SupervisorTypeOK'
  BY RestartTypes DEF SupervisorInv, RestartStep
<1>2. t \in Thread /\ Generations \subseteq Thread /\ Device \subseteq Thread
  BY DEF Thread
<1>3. thread[t].at = "command" /\ commandGate = None /\ commandGate' = t /\ UNCHANGED <<shutdown, reader>>
  BY DEF Replace, At
<1>4. /\ generation \in Nat /\ generation' \in Generations /\ generation' > generation
  <2>1. generation' = generation + 1 /\ generation < MaxGeneration
    BY DEF Replace, NextGeneration
  <2>2. generation \in 1 .. MaxGeneration /\ MaxGeneration \in Nat
    BY <1>1, BoundAssumption DEF SupervisorTypeOK, Generations
  <2> QED
    BY <2>1, <2>2 DEF Generations
<1>5. thread'[t].at \in {"confirm", "spawn"} /\ \A u \in Thread \ {t} : thread'[u] = thread[u]
  <2>1. {"confirm", "spawn"} \subseteq ThreadAt
    BY DEF ThreadAt
  <2> QED
    BY <1>1, <1>2, <2>1, GoMoves DEF Replace, SupervisorTypeOK, Threads
<1>6. \A u \in Thread : thread[u].at \notin Critical
  <2>1. None \notin Thread
    BY NoneAssumption
  <2> QED
    BY <1>3, <2>1 DEF SupervisorInv, GateHeld
<1>7. slot' = 0
  BY DEF Replace
<1>8. \A g \in Generations : ~sidecar'[g].alive
  <2>1. \A g \in Generations : sidecar[g].alive => slot = g
    BY <1>2, <1>6 DEF SupervisorInv, OneSidecar, At, Critical
  <2>2. CASE slot = 0
    BY <2>1, <2>2, BoundAssumption DEF Replace, Generations
  <2>3. CASE slot # 0
    BY <1>1, <2>1, <2>3 DEF Replace, Kill, NoSidecar, SupervisorTypeOK
  <2> QED
    BY <2>2, <2>3
<1>9. GateHeld'
  BY <1>3, <1>5, <1>6, <1>7 DEF GateHeld
<1>10. SlotIsCurrent' /\ OneSidecar'
  BY <1>7, <1>8 DEF SlotIsCurrent, OneSidecar
<1>11. SpawnedOnce'
  <2>1. \A g \in Generations : reader'[g] # "gone" => thread'[g].at = "idle"
    BY <1>2, <1>3, <1>5 DEF SupervisorInv, SpawnedOnce
  <2>2. \A g \in Generations : g > generation' => reader'[g] = "none"
    BY <1>3, <1>4 DEF SupervisorInv, SpawnedOnce, Generations
  <2>3. reader'[generation'] = "none"
    BY <1>3, <1>4 DEF SupervisorInv, SpawnedOnce
  <2> QED
    BY <2>1, <2>2, <2>3 DEF SpawnedOnce
<1>12. ShutDown'
  BY <1>3, <1>5, <1>6, <1>7 DEF ShutDown, Critical
<1>13. CommandsReachTheirGeneration'
  BY <1>1, FailPendingKeeps DEF Replace, Failure, CommandsReachTheirGeneration, SupervisorTypeOK, Requests
<1> QED
  BY <1>1, <1>9, <1>10, <1>11, <1>12, <1>13 DEF SupervisorInv

\* The holder of the command gate goes on, or fails and lets go of it; it may
\* spawn the process nobody has spawned, and hands it over.
LEMMA HolderKeepsInv ==
    ASSUME SupervisorInv, NEW t \in Device \union Generations,
           Confirm(t) \/ Spawn(t) \/ Store(t)
    PROVE  SupervisorInv'
<1>1. SupervisorTypeOK /\ SupervisorTypeOK'
  BY RestartTypes DEF SupervisorInv, RestartStep
<1>2. t \in Thread /\ Generations \subseteq Thread /\ Device \subseteq Thread
  BY DEF Thread
<1>3. thread[t].at \in Critical
  BY DEF Confirm, Spawn, Store, At, Critical
<1>4. /\ generation \in Generations /\ generation \in Nat /\ generation # 0
      /\ UNCHANGED <<generation, shutdown, request>>
  BY <1>1, BoundAssumption
     DEF Confirm, Spawn, Store, process, SupervisorTypeOK, Generations
<1>5. commandGate = t /\ \A u \in Thread \ {t} : thread[u].at \notin Critical
  BY <1>2, <1>3 DEF SupervisorInv, GateHeld
<1>6. slot = 0 /\ (slot' = 0 \/ slot' = generation)
  BY <1>2, <1>3, NoneAssumption, <1>5
     DEF SupervisorInv, GateHeld, Confirm, Spawn, Store, process
<1>7. \A g \in Generations : sidecar[g].alive => g = generation /\ thread[t].at = "store"
  BY <1>2, <1>5, <1>6 DEF SupervisorInv, OneSidecar, At, Critical, Generations
<1>8. CommandsReachTheirGeneration'
  BY <1>4 DEF SupervisorInv, CommandsReachTheirGeneration
<1>9. thread \in Threads
  BY <1>1 DEF SupervisorTypeOK, Threads
<1>10. ASSUME FailRestart(t), slot' = 0, reader' = reader,
              \A g \in Generations : ~sidecar'[g].alive
       PROVE  SupervisorInv'
  <2>1. PICK at \in {"status", "unmute", "idle"} : Go(t, at)
    BY <1>10, AfterRestartPoint DEF FailRestart
  <2>2. at \in ThreadAt
    BY DEF ThreadAt, Requesting
  <2>3. thread'[t].at = at /\ \A u \in Thread \ {t} : thread'[u] = thread[u]
    BY <1>2, <1>9, <2>1, <2>2, GoMoves
  <2>4. commandGate' = None /\ \A u \in Thread : thread'[u].at \notin Critical
    BY <1>5, <1>10, <2>3 DEF FailRestart, Critical
  <2>5. GateHeld' /\ SlotIsCurrent' /\ ShutDown' /\ OneSidecar'
    BY <1>10, <2>4 DEF GateHeld, SlotIsCurrent, ShutDown, OneSidecar, Critical
  <2>6. SpawnedOnce'
    BY <1>2, <1>3, <1>4, <1>10, <2>3, <2>4 DEF SupervisorInv, SpawnedOnce, Critical
  <2> QED
    BY <1>1, <1>8, <2>5, <2>6 DEF SupervisorInv
<1>11. ASSUME NEW at \in ThreadAt, Go(t, at)
       PROVE  thread'[t].at = at /\ \A u \in Thread \ {t} : thread'[u] = thread[u]
  BY <1>2, <1>9, <1>11, GoMoves
<1>12. {"spawn", "store", "restore"} \subseteq ThreadAt
  BY DEF ThreadAt, Requesting
<1>13. CASE Confirm(t)
  <2>1. slot' = slot /\ sidecar' = sidecar /\ reader' = reader /\ thread[t].at = "confirm"
    BY <1>13 DEF Confirm, At
  <2>2. CASE FailRestart(t)
    BY <1>6, <1>7, <1>10, <2>1, <2>2
  <2>3. CASE Go(t, "spawn") /\ UNCHANGED gates
    <3>1. thread'[t].at = "spawn" /\ \A u \in Thread \ {t} : thread'[u] = thread[u]
      BY <1>11, <1>12, <2>3
    <3>2. commandGate' = t
      BY <1>5, <2>3 DEF gates
    <3>3. GateHeld' /\ SlotIsCurrent' /\ ShutDown'
      BY <1>4, <1>5, <1>6, <2>1, <3>1, <3>2
         DEF SupervisorInv, GateHeld, SlotIsCurrent, ShutDown, Critical
    <3>4. OneSidecar'
      BY <1>7, <2>1 DEF OneSidecar
    <3>5. SpawnedOnce'
      BY <1>2, <1>4, <2>1, <3>1 DEF SupervisorInv, SpawnedOnce
    <3> QED
      BY <1>1, <1>8, <3>3, <3>4, <3>5 DEF SupervisorInv
  <2> QED
    BY <1>13, <2>2, <2>3 DEF Confirm
<1>14. CASE Spawn(t)
  <2>1. slot' = 0 /\ thread[t].at = "spawn"
    BY <1>6, <1>14 DEF Spawn, At, process
  <2>2. CASE FailRestart(t) /\ UNCHANGED <<sidecar, reader>>
    BY <1>7, <1>10, <2>1, <2>2
  <2>3. CASE /\ ~Stopping /\ sidecar' = [sidecar EXCEPT ![generation] = NewSidecar]
             /\ ReaderGoes(generation, "reading") /\ Go(t, "store") /\ UNCHANGED gates
    <3>1. thread'[t].at = "store" /\ \A u \in Thread \ {t} : thread'[u] = thread[u]
      BY <1>11, <1>12, <2>3
    <3>2. commandGate' = t /\ shutdown' # "done"
      BY <1>4, <1>5, <2>3 DEF gates, Stopping
    <3>3. GateHeld' /\ SlotIsCurrent' /\ ShutDown'
      BY <1>5, <2>1, <3>1, <3>2 DEF GateHeld, SlotIsCurrent, ShutDown, Critical
    <3>4. OneSidecar'
      BY <1>1, <1>4, <1>7, <2>1, <2>3, <3>1 DEF OneSidecar, At, SupervisorTypeOK
    <3>5. reader[generation] = "none" /\ thread[generation].at = "idle"
      BY <1>2, <1>4, <2>1 DEF SupervisorInv, SpawnedOnce
    <3>6. \A g \in Generations : reader'[g] = IF g = generation THEN "reading" ELSE reader[g]
      BY <1>1, <2>3 DEF ReaderGoes, SupervisorTypeOK
    <3>7. \A g \in Generations : reader'[g] # "gone" => thread'[g].at = "idle"
      BY <1>2, <2>1, <3>1, <3>5, <3>6 DEF SupervisorInv, SpawnedOnce
    <3>8. \A g \in Generations : g > generation => reader'[g] = "none"
      BY <1>4, <3>6 DEF SupervisorInv, SpawnedOnce
    <3>9. \A u \in Thread : thread'[u].at \notin {"confirm", "spawn"}
      BY <1>5, <3>1 DEF Critical
    <3>10. SpawnedOnce'
      BY <1>4, <3>7, <3>8, <3>9 DEF SpawnedOnce
    <3> QED
      BY <1>1, <1>8, <3>3, <3>4, <3>10 DEF SupervisorInv
  <2> QED
    BY <1>14, <2>2, <2>3 DEF Spawn
<1>15. CASE Store(t)
  <2>1. reader' = reader /\ thread[t].at = "store"
    BY <1>15 DEF Store, At
  <2>2. CASE Stopping
    <3>1. \A g \in Generations : ~sidecar'[g].alive
      BY <1>1, <1>4, <1>7, <1>15, <2>2 DEF Store, Kill, NoSidecar, SupervisorTypeOK
    <3>2. slot' = 0 /\ FailRestart(t)
      BY <1>6, <1>15, <2>2 DEF Store
    <3> QED
      BY <1>10, <2>1, <3>1, <3>2
  <2>3. CASE ~Stopping
    <3>1. slot' = generation /\ commandGate' = None /\ sidecar' = sidecar
      BY <1>15, <2>3 DEF Store
    <3>2. thread'[t].at = "restore" /\ \A u \in Thread \ {t} : thread'[u] = thread[u]
      BY <1>11, <1>12, <1>15, <2>3 DEF Store
    <3>3. \A u \in Thread : thread'[u].at \notin Critical
      BY <1>5, <3>2 DEF Critical
    <3>4. GateHeld' /\ SlotIsCurrent' /\ OneSidecar'
      BY <1>4, <1>7, <3>1, <3>3 DEF GateHeld, SlotIsCurrent, OneSidecar
    <3>5. ShutDown'
      BY <1>4, <2>3 DEF ShutDown, Stopping
    <3>6. SpawnedOnce'
      BY <1>2, <1>4, <2>1, <3>2, <3>3 DEF SupervisorInv, SpawnedOnce, Critical
    <3> QED
      BY <1>1, <1>8, <3>4, <3>5, <3>6 DEF SupervisorInv
  <2> QED
    BY <2>2, <2>3
<1> QED
  BY <1>13, <1>14, <1>15

\* The Host shuts down: force_shutdown finds the command gate free, so what
\* it kills is the only process.
LEMMA ShutdownKeepsInv ==
    ASSUME SupervisorInv, CancelWaits \/ ForceShutdown
    PROVE  SupervisorInv'
<1>1. SupervisorTypeOK /\ SupervisorTypeOK'
  BY ShutdownTypes DEF SupervisorInv
<1>2. \A u \in Thread : SentRight(u)'
  BY <1>1, FailPendingKeeps
     DEF CancelWaits, ForceShutdown, Failure, SentRight, SupervisorTypeOK, Requests
<1>3. CASE CancelWaits
  BY <1>1, <1>2, <1>3, CalmStep DEF CancelWaits, Moves, process, gates
<1>4. CASE ForceShutdown
  <2>1. commandGate = None /\ UNCHANGED <<generation, commandGate, reader, thread>> /\ slot' = 0
    BY <1>4 DEF ForceShutdown, CanForce, gates
  <2>2. \A u \in Thread : thread[u].at \notin Critical
    BY <2>1, NoneAssumption DEF SupervisorInv, GateHeld
  <2>3. \A g \in Generations : sidecar[g].alive => slot = g /\ slot # 0
    BY <2>2, BoundAssumption DEF SupervisorInv, OneSidecar, At, Critical, Thread, Generations
  <2>4. \A g \in Generations : ~sidecar'[g].alive
    BY <1>1, <1>4, <2>3 DEF ForceShutdown, Kill, NoSidecar, SupervisorTypeOK
  <2>5. GateHeld' /\ SlotIsCurrent' /\ OneSidecar' /\ ShutDown'
    BY <2>1, <2>2, <2>4 DEF GateHeld, SlotIsCurrent, OneSidecar, ShutDown, Critical
  <2>6. SpawnedOnce'
    BY <2>1 DEF SupervisorInv, SpawnedOnce
  <2>7. CommandsReachTheirGeneration'
    BY <1>2 DEF CommandsReachTheirGeneration, SentRight
  <2> QED
    BY <1>1, <2>5, <2>6, <2>7 DEF SupervisorInv
<1> QED
  BY <1>3, <1>4

LEMMA StepKeepsInv ==
    ASSUME SupervisorInv, [Next]_vars PROVE SupervisorInv'
<1>1. CASE UNCHANGED vars
  BY <1>1
     DEF vars, process, gates, SupervisorInv, SupervisorTypeOK, GateHeld, SlotIsCurrent,
         SpawnedOnce, OneSidecar, At, ShutDown, CommandsReachTheirGeneration
<1>2. ASSUME NEW t \in Device \union Generations, RestartStep(t) PROVE SupervisorInv'
  BY <1>2, WaitingRestartKeepsInv, ReplaceKeepsInv, HolderKeepsInv DEF RestartStep
<1>3. CASE Next
  BY <1>2, <1>3, RequestKeepsInv, SidecarKeepsInv, StartupKeepsInv, DeviceKeepsInv,
     ShutdownKeepsInv DEF Next
<1> QED
  BY <1>1, <1>3

\* The invariant, for any number of processes and threads.
THEOREM InvHolds == SupervisorSpec => []SupervisorInv
<1> QED
  BY InitInv, StepKeepsInv, PTL DEF SupervisorSpec

\* The state stays well formed.
THEOREM TypeCorrect == SupervisorSpec => []SupervisorTypeOK
<1>1. SupervisorInv => SupervisorTypeOK
  BY DEF SupervisorInv
<1> QED
  BY <1>1, InvHolds, PTL

\* There is never a second sidecar process, whatever recoveries, device
\* restarts, crashes and shutdown overlap.
THEOREM AtMostOneSidecar == SupervisorSpec => []OneSidecar
<1>1. SupervisorInv => OneSidecar
  BY DEF SupervisorInv
<1> QED
  BY <1>1, InvHolds, PTL

\* Once the Host's shutdown is over no sidecar runs, or will ever be spawned.
THEOREM ShutdownIsFinal == SupervisorSpec => []NoSidecarAfterShutdown
<1>1. SupervisorInv => NoSidecarAfterShutdown
  BY DEF SupervisorInv, SupervisorTypeOK, ShutDown, OneSidecar, NoSidecarAfterShutdown, At, Thread,
         Generations
<1> QED
  BY <1>1, InvHolds, PTL

\* A command reaches the generation it waited for or none.
THEOREM CommandsAreNotMisdelivered == SupervisorSpec => []CommandsReachTheirGeneration
<1>1. SupervisorInv => CommandsReachTheirGeneration
  BY DEF SupervisorInv
<1> QED
  BY <1>1, InvHolds, PTL

-----------------------------------------------------------------------------
(* Restoration.  From its turn at the restart gate to the end of the        *)
(* handler a recovery thread is the only one that can retire a generation,  *)
(* so what it was told the graph was given to is what it unmutes.           *)

Restarting == {"command", "confirm", "spawn", "store", "restore"}

\* Who restarts holds the restart gate, the runtime restart handler included.
Holding(t) ==
    \/ t \in Device \union Generations /\ thread[t].at \in Restarting
    \/ t \in Generations /\ thread[t].at \in {"graph", "unmute"}

RestartHeld == \A t \in Thread : Holding(t) => restartGate = t

\* What is sent and unanswered went to the current process.
SentToCurrent == \A t \in Thread : InRequest(t, "sent") => request[t].process = generation

\* A process of this generation was spawned, and it has the graph or is gone.
Whole(g) == reader[g] # "none" /\ (sidecar[g].graph \/ ~sidecar[g].alive)

\* The thread was told that the graph is there.
Given(t) == At(t, "graph") /\ InRequest(t, "done") /\ Result(t) = "ok"

RecoveryRestored == \A t \in Generations : Given(t) \/ At(t, "unmute") => Whole(generation)

\* The startup transaction may find itself overtaken, but not unawares.
StartupRestored ==
    thread[Startup].at \in {"graph", "unmute", "check"} =>
        /\ thread[Startup].expected <= generation
        /\ thread[Startup].expected = generation /\ (Given(Startup) \/ ~At(Startup, "graph"))
              => Whole(generation)

RestoreInv == RestartHeld /\ SentToCurrent /\ RecoveryRestored /\ StartupRestored

\* A point of a thread that RestoreInv speaks of.
Tracked(t) == Holding(t) \/ (t = Startup /\ thread[t].at \in {"graph", "unmute", "check"})

\* The request stays, is over, or fails.
Fades(t) ==
    \/ request'[t] \in {request[t], None}
    \/ request'[t] # None /\ request'[t].at = "done" /\ request'[t].result # "ok"

\* Steps that retire nobody, send nothing and give nobody the graph.
LEMMA QuietRestores ==
    ASSUME SupervisorInv, RestoreInv, UNCHANGED <<generation, restartGate>>,
           \A g \in Generations : Whole(g) => Whole(g)',
           \A t \in Thread : (thread'[t] = thread[t] \/ ~Tracked(t)') /\ Fades(t)
    PROVE  RestoreInv'
<1>1. /\ generation \in Generations /\ request \in Requests /\ Startup \in Thread
      /\ Generations \subseteq Thread
  BY DEF SupervisorInv, SupervisorTypeOK, Requests, Thread
<1>2. RestartHeld'
  BY DEF RestoreInv, RestartHeld, Tracked, Holding
<1>3. SentToCurrent'
  BY DEF RestoreInv, SentToCurrent, InRequest, Fades
<1>4. ASSUME NEW t \in Thread, Given(t)', thread'[t] = thread[t] PROVE Given(t)
  BY <1>4 DEF Given, At, InRequest, Result, Fades
<1>5. RecoveryRestored'
  <2> SUFFICES ASSUME NEW t \in Generations, Given(t)' \/ At(t, "unmute")' PROVE Whole(generation)'
    BY DEF RecoveryRestored
  <2>1. Tracked(t)'
    BY DEF Tracked, Holding, Given, At
  <2>2. Given(t) \/ At(t, "unmute")
    BY <1>1, <1>4, <2>1 DEF At
  <2> QED BY <1>1, <2>2 DEF RestoreInv, RecoveryRestored
<1>6. StartupRestored'
  <2> SUFFICES ASSUME thread'[Startup].at \in {"graph", "unmute", "check"} PROVE StartupRestored'
    BY DEF StartupRestored
  <2>1. thread'[Startup] = thread[Startup]
    BY <1>1 DEF Tracked
  <2> QED BY <1>1, <1>4, <2>1 DEF RestoreInv, StartupRestored, At
<1> QED BY <1>2, <1>3, <1>5, <1>6 DEF RestoreInv

\* Requests: what is sent goes to the current process, and the answer to a
\* graph comes from the process that has it.
LEMMA RequestRestores ==
    ASSUME SupervisorInv, RestoreInv, NEW t \in Thread, RequestStep(t)
    PROVE  RestoreInv'
<1>1. /\ generation \in Generations /\ request \in Requests /\ sidecar \in [Generations -> Sidecar]
      /\ Startup \in Thread /\ Generations \subseteq Thread /\ thread \in Threads
  BY DEF SupervisorInv, SupervisorTypeOK, Requests, Thread, Threads
<1>2. UNCHANGED <<generation, restartGate, thread, reader>>
  BY DEF RequestStep, BeginRequest, AwaitReady, Send, Execute, TimeOut, RequestFrame, process, gates
<1>3. \A g \in Generations : Whole(g) => Whole(g)'
  <2>1. CASE Execute(t)
    <3>1. ASSUME NEW s \in Sidecar, NEW at
          PROVE  Effect(s, at).alive = s.alive /\ (s.graph => Effect(s, at).graph)
      BY DEF Effect, Sidecar
    <3> QED BY <1>1, <1>2, <2>1, <3>1 DEF Execute, Whole
  <2>2. CASE ~Execute(t)
    <3>1. sidecar' = sidecar
      BY <2>2 DEF RequestStep, BeginRequest, AwaitReady, Send, TimeOut, RequestFrame
    <3> QED BY <1>2, <3>1 DEF Whole
  <2> QED BY <2>1, <2>2
<1>4. \A u \in Thread \ {t} : request'[u] = request[u]
  BY <1>1 DEF RequestStep, BeginRequest, AwaitReady, Send, Execute, TimeOut, Answer, Requests
<1>5. ASSUME NEW result, result # "ok", Answer(t, result) PROVE Fades(t)
  BY <1>1, <1>5, NoneAssumption DEF Answer, Done, Fades, Requests
<1>6. CASE Fades(t)
  <2>1. \A u \in Thread : thread'[u] = thread[u] /\ Fades(u)
    BY <1>2, <1>4, <1>6 DEF Fades
  <2> QED BY <1>2, <1>3, <2>1, QuietRestores
<1>7. ASSUME request'[t].at \in {"wait", "gate", "sent"},
             request'[t].at = "sent" => request'[t].process = generation
      PROVE  RestoreInv'
  <2>1. SentToCurrent'
    BY <1>2, <1>4, <1>7 DEF RestoreInv, SentToCurrent, InRequest
  <2>2. \A u \in Thread : Given(u)' => Given(u)
    BY <1>2, <1>4, <1>7 DEF Given, At, InRequest, Result
  <2>3. RestartHeld' /\ RecoveryRestored'
    BY <1>1, <1>2, <1>3, <2>2 DEF RestoreInv, RestartHeld, Holding, RecoveryRestored, At
  <2>4. StartupRestored'
    BY <1>1, <1>2, <1>3, <2>2 DEF RestoreInv, StartupRestored, At
  <2> QED BY <2>1, <2>3, <2>4 DEF RestoreInv
<1>8. CASE BeginRequest(t)
  <2>1. CASE Answer(t, "stopping")
    BY <1>5, <1>6, <2>1
  <2>2. CASE request' = [request EXCEPT ![t] =
                [at |-> "wait", generation |-> generation, process |-> 0, result |-> None]]
    <3> DEFINE new == [at |-> "wait", generation |-> generation, process |-> 0, result |-> None]
    <3>1. request'[t] = new
      BY <1>1, <2>2 DEF Requests
    <3> QED BY <1>7, <3>1
  <2> QED BY <1>8, <2>1, <2>2 DEF BeginRequest
<1>9. CASE AwaitReady(t) \/ Send(t)
  <2>1. request[t] \in Request
    BY <1>1, <1>9 DEF AwaitReady, Send, InRequest, Requests
  <2>2. CASE \E result \in Failure : Answer(t, result)
    BY <1>5, <1>6, <2>2 DEF Failure
  <2>3. CASE request' = [request EXCEPT ![t].at = "gate"]
    <3>1. request'[t].at = "gate"
      BY <1>1, <2>1, <2>3 DEF Request, Requests
    <3> QED BY <1>7, <3>1
  <2>4. CASE request' = [request EXCEPT ![t].at = "wait", ![t].generation = generation]
    <3>1. request'[t].at = "wait"
      BY <1>1, <2>1, <2>4 DEF Request, Requests
    <3> QED BY <1>7, <3>1
  <2>5. CASE slot # 0 /\ request' = [request EXCEPT ![t].at = "sent", ![t].process = slot]
    <3>1. slot = generation
      BY <2>5 DEF SupervisorInv, SlotIsCurrent
    <3>2. request'[t].at = "sent" /\ request'[t].process = slot
      BY <1>1, <2>1, <2>5 DEF Request, Requests
    <3> QED BY <1>7, <3>1, <3>2
  <2> QED BY <1>9, <2>2, <2>3, <2>4, <2>5 DEF AwaitReady, Send, Failure
<1>10. CASE TimeOut(t)
  BY <1>5, <1>6, <1>10 DEF TimeOut
<1>11. CASE Execute(t)
  <2> DEFINE g == request[t].process
  <2>1. CASE Answer(t, "timeout") \/ Answer(t, "failed")
    BY <1>5, <1>6, <2>1
  <2>2. CASE /\ reader[g] = "reading" /\ generation = g /\ Answer(t, "ok")
             /\ sidecar' = [sidecar EXCEPT ![g] = Effect(@, thread[t].at)]
    <3>1. request'[t].at = "done"
      BY <1>1, <2>2 DEF Answer, Done, Requests
    <3>2. thread[t].at = "graph" => Whole(generation)'
      BY <1>1, <1>2, <2>2 DEF Whole, Effect, Sidecar
    <3>3. \A u \in Thread : Given(u)' => Given(u) \/ Whole(generation)'
      BY <1>2, <1>4, <3>2 DEF Given, At, InRequest, Result
    <3>4. SentToCurrent'
      BY <1>2, <1>4, <3>1 DEF RestoreInv, SentToCurrent, InRequest
    <3>5. RestartHeld' /\ RecoveryRestored'
      BY <1>1, <1>2, <1>3, <3>3 DEF RestoreInv, RestartHeld, Holding, RecoveryRestored, At
    <3>6. StartupRestored'
      BY <1>1, <1>2, <1>3, <3>3 DEF RestoreInv, StartupRestored, At
    <3> QED BY <3>4, <3>5, <3>6 DEF RestoreInv
  <2> QED BY <1>11, <2>1, <2>2 DEF Execute
<1> QED BY <1>8, <1>9, <1>10, <1>11 DEF RequestStep

\* The sidecar and its reader, and the Host's shutdown.
LEMMA SurroundingsRestore ==
    ASSUME SupervisorInv, RestoreInv,
           (\E g \in Generations : SidecarStep(g)) \/ CancelWaits \/ ForceShutdown
    PROVE  RestoreInv'
<1>1. /\ request \in Requests /\ sidecar \in [Generations -> Sidecar] /\ thread \in Threads
      /\ reader \in [Generations -> ReaderAt] /\ Generations \subseteq Thread /\ Startup \notin Generations
  BY ThreadAssumption DEF SupervisorInv, SupervisorTypeOK, Requests, Threads, Thread, Generations
<1>2. UNCHANGED <<generation, restartGate>>
  BY DEF SidecarStep, Crash, ReadReady, EndOfOutput, HandleExit, CancelWaits, ForceShutdown, process,
         gates
<1>3. \A h \in Generations : Whole(h) => Whole(h)'
  <2>1. \A h \in Generations : sidecar'[h] \in {sidecar[h], NoSidecar}
    BY <1>1 DEF SidecarStep, Crash, ReadReady, EndOfOutput, HandleExit, CancelWaits, ForceShutdown, Kill
  <2>2. \A h \in Generations : reader[h] # "none" => reader'[h] # "none"
    BY <1>1 DEF SidecarStep, Crash, ReadReady, EndOfOutput, HandleExit, CancelWaits, ForceShutdown,
                ReaderGoes
  <2> QED BY <2>1, <2>2 DEF Whole, NoSidecar
<1>4. ASSUME NEW result \in Failure, FailPending(result) PROVE \A t \in Thread : Fades(t)
  BY <1>1, <1>4, NoneAssumption DEF FailPending, Fades, Done, Requests, Failure
<1>5. \A t \in Thread : Fades(t)
  <2>1. CASE request' = request
    BY <2>1 DEF Fades
  <2>2. CASE \E result \in Failure : FailPending(result)
    BY <1>4, <2>2
  <2> QED BY <2>1, <2>2
             DEF SidecarStep, Crash, ReadReady, EndOfOutput, HandleExit, CancelWaits, ForceShutdown, Failure
<1>6. \A t \in Thread : thread'[t] = thread[t] \/ ~Tracked(t)'
  <2>1. CASE thread' = thread
    BY <2>1
  <2>2. CASE \E g \in Generations : HandleExit(g) /\ thread' # thread
    <3>1. PICK g \in Generations : thread' = [thread EXCEPT ![g] = [at |-> "gate", expected |-> g]]
      BY <2>2 DEF HandleExit
    <3>2. /\ \A t \in Thread \ {g} : thread'[t] = thread[t]
          /\ thread'[g].at = "gate" /\ g # Startup
      BY <1>1, <3>1 DEF Threads
    <3> QED BY <3>2 DEF Tracked, Holding, Restarting
  <2> QED BY <2>1, <2>2
             DEF SidecarStep, Crash, ReadReady, EndOfOutput, HandleExit, CancelWaits, ForceShutdown
<1> QED BY <1>2, <1>3, <1>5, <1>6, QuietRestores

\* A device thread outside a restart is not looked at.
LEMMA DeviceRestores ==
    ASSUME SupervisorInv, RestoreInv, NEW t \in Device, DeviceStep(t)
    PROVE  RestoreInv'
<1>1. /\ thread \in Threads /\ request \in Requests /\ t \in Thread /\ t \notin Generations /\ t # Startup
      /\ generation \in 0 .. MaxGeneration
  BY ThreadAssumption, BoundAssumption
     DEF SupervisorInv, SupervisorTypeOK, Requests, Threads, Thread, Generations
<1>2. UNCHANGED <<generation, restartGate, reader, sidecar>>
  BY DEF DeviceStep, BeginDevice, DeviceMuted, DeviceAnswered, DeviceRestored, DeviceQuiet, process, gates
<1> DEFINE points == {"idle", "mute", "device", "gate", "status", "graph", "unmute"}
<1>3. points \subseteq ThreadAt /\ points \intersect Restarting = {}
  BY DEF ThreadAt, Requesting, Restarting
<1>4. thread'[t].at \in points /\ \A u \in Thread \ {t} : thread'[u] = thread[u]
  <2>1. CASE \E at \in points : Go(t, at)
    BY <1>1, <1>3, <2>1, GoMoves
  <2>2. CASE thread' = [thread EXCEPT ![t] = [at |-> "device", expected |-> generation]]
    BY <1>1, <2>2 DEF Threads
  <2> QED BY <2>1, <2>2
             DEF DeviceStep, BeginDevice, DeviceMuted, DeviceAnswered, DeviceRestored, Then
<1>5. \A u \in Thread : Fades(u)
  <2>1. request' \in {request, [request EXCEPT ![t] = None]}
    BY DEF DeviceStep, BeginDevice, DeviceMuted, DeviceAnswered, DeviceRestored, Then, Finish
  <2> QED BY <1>1, <2>1 DEF Fades, Requests
<1> HIDE DEF points
<1>6. ~Tracked(t)'
  BY <1>1, <1>3, <1>4 DEF Tracked, Holding
<1>7. \A g \in Generations : Whole(g) => Whole(g)'
  BY <1>2 DEF Whole
<1>8. \A u \in Thread : (thread'[u] = thread[u] \/ ~Tracked(u)') /\ Fades(u)
  BY <1>4, <1>5, <1>6
<1> QED BY <1>2, <1>7, <1>8, QuietRestores

\* The startup thread looks at the generation before it goes on to unmute.
LEMMA StartupRestores ==
    ASSUME SupervisorInv, RestoreInv, StartupStep
    PROVE  RestoreInv'
<1>1. /\ thread \in Threads /\ request \in Requests /\ Startup \in Thread /\ Startup \notin Generations
      /\ Startup \notin Device /\ generation \in Generations /\ generation \in 0 .. MaxGeneration
      /\ Generations \subseteq Thread
  BY ThreadAssumption, BoundAssumption
     DEF SupervisorInv, SupervisorTypeOK, Requests, Threads, Thread, Generations
<1>2. UNCHANGED <<generation, restartGate, reader, sidecar>>
  BY DEF StartupStep, BeginStartup, StartupStatus, StartupNext, StartupGraph, StartupUnmuted,
         StartupChecked, RetryStartup, StartupQuiet, Unaffected, process, gates
<1>3. \A g \in Generations : Whole(g) <=> Whole(g)'
  BY <1>2 DEF Whole
<1>4. \A u \in Thread : Fades(u)
  <2>1. request' \in {request, [request EXCEPT ![Startup] = None]}
    BY DEF StartupStep, BeginStartup, StartupStatus, StartupNext, StartupGraph, StartupUnmuted,
           StartupChecked, RetryStartup, StartupFails, StartupRetries, Then, Finish
  <2> QED BY <1>1, <2>1 DEF Fades, Requests
<1>5. ASSUME NEW at \in ThreadAt, Go(Startup, at)
      PROVE  /\ thread'[Startup].at = at
             /\ at # "idle" => thread'[Startup].expected = thread[Startup].expected
             /\ \A u \in Thread \ {Startup} : thread'[u] = thread[u]
  <2>1. /\ thread'[Startup].at = at
        /\ \A u \in Thread \ {Startup} : thread'[u] = thread[u]
    BY <1>1, <1>5, GoMoves
  <2>2. at # "idle" => thread'[Startup].expected = thread[Startup].expected
    BY <1>1, <1>5 DEF Go, Threads, ThreadState
  <2> QED BY <2>1, <2>2
<1>6. ASSUME NEW at \in {"idle", "begin", "next", "expose"}, Go(Startup, at)
      PROVE  RestoreInv'
  <2>1. at \in ThreadAt
    BY DEF ThreadAt, Requesting
  <2>2. ~Tracked(Startup)' /\ \A u \in Thread \ {Startup} : thread'[u] = thread[u]
    BY <1>1, <1>5, <1>6, <2>1 DEF Tracked, Holding
  <2> QED BY <1>2, <1>3, <1>4, <2>2, QuietRestores
<1>7. ASSUME \A u \in Thread \ {Startup} : thread'[u] = thread[u],
             StartupRestored'
      PROVE  RestoreInv'
  <2>1. \A t \in Thread : Holding(t)' <=> Holding(t)
    BY <1>1, <1>7 DEF Holding
  <2>2. RestartHeld' /\ SentToCurrent'
    BY <1>2, <1>4, <2>1 DEF RestoreInv, RestartHeld, SentToCurrent, InRequest, Fades
  <2>3. \A t \in Generations : /\ Given(t)' => Given(t)
                               /\ At(t, "unmute")' => At(t, "unmute")
    BY <1>1, <1>4, <1>7 DEF Given, At, InRequest, Result, Fades
  <2>4. RecoveryRestored'
    BY <1>1, <1>2, <1>3, <2>3 DEF RestoreInv, RecoveryRestored
  <2> QED BY <1>7, <2>2, <2>4 DEF RestoreInv
<1>8. ASSUME NEW at \in {"unmute", "check"}, Then(Startup, {at}),
             thread[Startup].at \in {"graph", "unmute"}, Given(Startup) \/ ~At(Startup, "graph")
      PROVE  RestoreInv'
  <2>1. Go(Startup, at) /\ at \in ThreadAt
    BY <1>8 DEF Then, ThreadAt, Requesting
  <2>2. /\ thread'[Startup].at = at /\ thread'[Startup].expected = thread[Startup].expected
        /\ \A u \in Thread \ {Startup} : thread'[u] = thread[u]
    BY <1>5, <2>1
  <2>3. StartupRestored'
    BY <1>1, <1>2, <1>3, <1>8, <2>2 DEF RestoreInv, StartupRestored, At
  <2> QED BY <1>7, <2>2, <2>3
<1>9. CASE BeginStartup
  <2>1. CASE Stopping
    BY <1>6, <1>9, <2>1 DEF BeginStartup, StartupFails, Then
  <2>2. CASE thread' = [thread EXCEPT ![Startup] = [at |-> "status", expected |-> generation]]
    <3>1. thread'[Startup].at = "status" /\ \A u \in Thread \ {Startup} : thread'[u] = thread[u]
      BY <1>1, <2>2 DEF Threads
    <3>2. ~Tracked(Startup)'
      BY <1>1, <3>1 DEF Tracked, Holding
    <3> QED BY <1>2, <1>3, <1>4, <3>1, <3>2, QuietRestores
  <2> QED BY <1>9, <2>1, <2>2 DEF BeginStartup
<1>10. CASE StartupStatus
  <2>1. CASE \E at \in {"idle", "begin", "next"} : Go(Startup, at)
    BY <1>6, <2>1
  <2>2. CASE /\ thread' = [thread EXCEPT ![Startup] = [at |-> "graph", expected |-> generation]]
             /\ Finish(Startup)
    <3>1. /\ thread'[Startup].at = "graph" /\ thread'[Startup].expected = generation
          /\ \A u \in Thread \ {Startup} : thread'[u] = thread[u]
      BY <1>1, <2>2 DEF Threads
    <3>2. request'[Startup] = None
      BY <1>1, <2>2 DEF Finish, Requests
    <3>3. generation <= generation
      BY <1>1, BoundAssumption DEF Generations
    <3>4. StartupRestored'
      BY <1>2, <3>1, <3>2, <3>3 DEF StartupRestored, Given, At, InRequest
    <3> QED BY <1>7, <3>1, <3>4
  <2> QED BY <1>10, <2>1, <2>2 DEF StartupStatus, StartupRetries, StartupFails, Then
<1>11. CASE StartupGraph
  <2>1. CASE \E at \in {"idle", "begin", "expose"} : Go(Startup, at)
    BY <1>6, <2>1
  <2>2. CASE Then(Startup, {"unmute"}) /\ Result(Startup) = "ok"
    BY <1>8, <1>11, <2>2 DEF StartupGraph, Answered, Given, At
  <2> QED BY <1>11, <2>1, <2>2 DEF StartupGraph, StartupRetries, StartupFails, Then
<1>12. CASE StartupUnmuted
  <2>1. CASE \E at \in {"idle", "begin"} : Go(Startup, at)
    BY <1>6, <2>1
  <2>2. CASE Then(Startup, {"check"})
    <3>1. Answered(Startup, "unmute") \/ thread'[Startup].at # "check"
      BY <1>5, <1>12 DEF StartupUnmuted, StartupRetries, StartupFails, Then, ThreadAt, Requesting
    <3>2. thread'[Startup].at = "check"
      BY <1>5, <2>2 DEF Then, ThreadAt, Requesting
    <3> QED BY <1>8, <2>2, <3>1, <3>2 DEF Answered, At
  <2> QED BY <1>12, <2>1, <2>2 DEF StartupUnmuted, StartupRetries, StartupFails, Then
<1>13. CASE StartupNext \/ StartupChecked \/ RetryStartup
  <2>1. \E at \in {"idle", "begin"} : Go(Startup, at)
    BY <1>13 DEF StartupNext, StartupChecked, RetryStartup, StartupRetries, StartupFails, Then
  <2> QED BY <1>6, <2>1
<1> QED BY <1>9, <1>10, <1>11, <1>12, <1>13 DEF StartupStep

\* Who restarts is alone: nobody else retires a generation or unmutes what it
\* restored, and the process it spawns is of a generation nobody restored.
LEMMA RestartRestores ==
    ASSUME SupervisorInv, RestoreInv, NEW t \in Device \union Generations, RestartStep(t)
    PROVE  RestoreInv'
<1>1. /\ thread \in Threads /\ request \in Requests /\ t \in Thread /\ t # Startup
      /\ Generations \subseteq Thread /\ Startup \in Thread /\ Startup \notin Device \union Generations
      /\ sidecar \in [Generations -> Sidecar] /\ reader \in [Generations -> ReaderAt]
      /\ generation \in Generations
      /\ t \in Generations => \A ok : AfterRestart(t, ok) = "idle"
      /\ t \in Device => t \notin Generations
  BY ThreadAssumption
     DEF SupervisorInv, SupervisorTypeOK, Requests, Threads, Thread, Generations, AfterRestart
<1>2. /\ {"command", "confirm", "spawn", "store", "restore", "graph", "status", "unmute", "idle"} \subseteq ThreadAt
      /\ \A ok : AfterRestart(t, ok) \in {"status", "unmute", "idle"}
  BY AfterRestartPoint DEF ThreadAt, Requesting
<1>3. \E at \in ThreadAt : Go(t, at)
  <2>1. CASE TakeRestartGate(t) \/ JoinRestart(t) \/ Replace(t)
    BY <1>2, <2>1 DEF TakeRestartGate, JoinRestart, Replace
  <2>2. CASE Confirm(t) \/ Spawn(t) \/ Store(t)
    BY <1>2, <2>2 DEF Confirm, Spawn, Store, FailRestart
  <2>3. CASE Restored(t) \/ Handler(t)
    BY <1>2, <2>3 DEF Restored, Handler, Then
  <2> QED BY <2>1, <2>2, <2>3 DEF RestartStep
<1>4. \A u \in Thread \ {t} : thread'[u] = thread[u]
  BY <1>1, <1>3, GoMoves
<1>5. ASSUME NEW at \in ThreadAt, Go(t, at) PROVE thread'[t].at = at
  BY <1>1, <1>5, GoMoves
<1>6. \A u \in Thread : Fades(u)
  <2>1. CASE request' \in {request, [request EXCEPT ![t] = None]}
    BY <1>1, <2>1 DEF Fades, Requests
  <2>2. CASE FailPending("lost")
    BY <1>1, <2>2 DEF FailPending, Fades, Done, Requests
  <2> QED BY <2>1, <2>2
             DEF RestartStep, TakeRestartGate, JoinRestart, Replace, Confirm, Spawn, Store, Restored,
                 Handler, Then, Finish
\* Nobody else is restarting.
<1>7. \A u \in Thread \ {t} : ~Holding(u)
  <2>1. CASE TakeRestartGate(t)
    BY <2>1, NoneAssumption DEF TakeRestartGate, RestoreInv, RestartHeld
  <2>2. CASE ~TakeRestartGate(t)
    <3>1. Holding(t)
      BY <2>2 DEF RestartStep, JoinRestart, Replace, Confirm, Spawn, Store, Restored, Handler, Answered, At,
                  Holding, Restarting
    <3> QED BY <1>1, <3>1 DEF RestoreInv, RestartHeld
  <2> QED BY <2>1, <2>2
<1>8. ASSUME NEW ok, Go(t, AfterRestart(t, ok)) PROVE ~Holding(t)'
  <2>1. thread'[t].at = IF t \in Device THEN IF ok THEN "status" ELSE "unmute" ELSE "idle"
    BY <1>2, <1>5, <1>8 DEF AfterRestart
  <2> QED BY <1>1, <2>1 DEF Holding, Restarting
<1>9. Holding(t)' => restartGate' = t
  <2>1. thread[t].at # "gate" => restartGate = t
    BY <1>1 DEF RestartStep, TakeRestartGate, JoinRestart, Replace, Confirm, Spawn, Store, Restored, Handler,
                Answered, At, Holding, Restarting, RestoreInv, RestartHeld
  <2>2. CASE TakeRestartGate(t)
    BY <1>8, <2>2 DEF TakeRestartGate
  <2>3. CASE JoinRestart(t)
    BY <1>8, <2>3 DEF JoinRestart
  <2>4. CASE Replace(t)
    BY <2>1, <2>4 DEF Replace, At
  <2>5. CASE Confirm(t) \/ Spawn(t) \/ Store(t)
    <3>1. CASE FailRestart(t)
      BY <1>8, <3>1 DEF FailRestart
    <3>2. CASE ~FailRestart(t)
      BY <2>1, <2>5, <3>2 DEF Confirm, Spawn, Store, At, gates
    <3> QED BY <3>1, <3>2
  <2>6. CASE Restored(t)
    BY <1>8, <2>6 DEF Restored, GateKept, Then
  <2>7. CASE Handler(t)
    <3>1. CASE Then(t, {"idle"})
      BY <1>2, <1>5, <3>1 DEF Then, Holding, Restarting
    <3>2. CASE UNCHANGED restartGate
      BY <2>1, <2>7, <3>2 DEF Handler, Answered, At
    <3> QED BY <2>7, <3>1, <3>2 DEF Handler
  <2> QED BY <2>2, <2>3, <2>4, <2>5, <2>6, <2>7 DEF RestartStep
<1>10. RestartHeld'
  BY <1>4, <1>7, <1>9 DEF RestartHeld, Holding
<1>11. SentToCurrent'
  <2>1. CASE Replace(t)
    BY <1>1, <2>1, FailPendingKeeps DEF Replace, SentToCurrent, InRequest, Failure
  <2>2. CASE ~Replace(t)
    <3>1. generation' = generation
      BY <2>2 DEF RestartStep, TakeRestartGate, JoinRestart, Confirm, Spawn, Store, Restored, Handler,
                  Unaffected, process
    <3> QED BY <1>6, <3>1 DEF RestoreInv, SentToCurrent, InRequest, Fades
  <2> QED BY <2>1, <2>2
<1>12. generation' # generation \/ reader[generation] = "none"
       \/ /\ generation' = generation
          /\ \A g \in Generations : Whole(g) => Whole(g)'
  <2>1. CASE Replace(t)
    BY <1>1, <2>1, BoundAssumption DEF Replace, NextGeneration, Generations
  <2>2. CASE Spawn(t)
    BY <1>1, <2>2 DEF Spawn, At, SupervisorInv, SpawnedOnce
  <2>3. CASE TakeRestartGate(t) \/ JoinRestart(t) \/ Restored(t) \/ Handler(t)
    BY <2>3 DEF TakeRestartGate, JoinRestart, Restored, Handler, Unaffected, process, Whole
  <2>4. CASE Confirm(t) \/ Store(t)
    <3>1. \A g \in Generations : sidecar'[g] \in {sidecar[g], NoSidecar}
      BY <1>1, <2>4 DEF Confirm, Store, Kill
    <3>2. generation' = generation /\ reader' = reader
      BY <2>4 DEF Confirm, Store
    <3> QED BY <3>1, <3>2 DEF Whole, NoSidecar
  <2> QED BY <2>1, <2>2, <2>3, <2>4 DEF RestartStep
<1>13. RecoveryRestored'
  <2> SUFFICES ASSUME NEW u \in Generations, Given(u)' \/ At(u, "unmute")' PROVE Whole(generation)'
    BY DEF RecoveryRestored
  <2>1. u = t
    BY <1>1, <1>4, <1>7 DEF Holding, Given, At
  <2>2. CASE Handler(t)
    <3>1. Answered(t, "graph") /\ Result(t) = "ok"
      BY <1>1, <1>2, <1>5, <2>1, <2>2 DEF Handler, Then, Given, At
    <3>2. Whole(generation)
      BY <2>1, <3>1 DEF RestoreInv, RecoveryRestored, Given, Answered
    <3> QED BY <2>2, <3>2 DEF Handler, Unaffected, process, Whole
  <2>3. CASE Restored(t)
    <3>1. request'[t] = None
      BY <1>1, <2>3 DEF Restored, Then, Finish, Requests
    <3>2. thread'[t].at \in {"graph", "idle"}
      BY <1>1, <1>2, <1>5, <2>1, <2>3 DEF Restored, Then
    <3> QED BY <2>1, <3>1, <3>2 DEF Given, At, InRequest
  <2>4. CASE TakeRestartGate(t) \/ JoinRestart(t) \/ Replace(t)
    <3>1. thread'[t].at \in {"idle", "command", "confirm", "spawn"}
      BY <1>1, <1>2, <1>5, <2>1, <2>4 DEF TakeRestartGate, JoinRestart, Replace
    <3> QED BY <2>1, <3>1 DEF Given, At
  <2>5. CASE Confirm(t) \/ Spawn(t) \/ Store(t)
    <3>1. thread'[t].at \in {"idle", "spawn", "store", "restore"}
      BY <1>1, <1>2, <1>5, <2>1, <2>5 DEF Confirm, Spawn, Store, FailRestart
    <3> QED BY <2>1, <3>1 DEF Given, At
  <2> QED BY <2>2, <2>3, <2>4, <2>5 DEF RestartStep
<1>14. StartupRestored'
  <2>1. thread'[Startup] = thread[Startup] /\ (Given(Startup)' => Given(Startup))
    BY <1>1, <1>4, <1>6 DEF Given, At, InRequest, Result, Fades
  <2>2. /\ generation <= generation' /\ generation \in Nat /\ generation' \in Nat
        /\ thread[Startup].expected \in Nat
    <3>1. generation \in Nat /\ thread[Startup].expected \in Nat
      BY <1>1, BoundAssumption DEF Generations, Threads, ThreadState
    <3>2. generation' \in {generation, generation + 1}
      BY DEF RestartStep, TakeRestartGate, JoinRestart, Replace, Confirm, Spawn, Store, Restored, Handler,
             Unaffected, process, NextGeneration
    <3> QED BY <3>1, <3>2
  <2>3. thread'[Startup].at \in {"graph", "unmute", "check"} => thread[Startup].expected <= generation'
    BY <2>1, <2>2 DEF RestoreInv, StartupRestored
  <2>4. ASSUME thread[Startup].at \in {"graph", "unmute", "check"}, thread[Startup].expected = generation',
               Given(Startup) \/ ~At(Startup, "graph")
        PROVE  Whole(generation)'
    <3>1. generation' = generation
      BY <2>2, <2>4 DEF RestoreInv, StartupRestored
    <3>2. Whole(generation)
      BY <2>4, <3>1 DEF RestoreInv, StartupRestored
    <3> QED BY <1>1, <1>12, <3>1, <3>2 DEF Whole
  <2> QED BY <2>1, <2>3, <2>4 DEF StartupRestored, At
<1> QED BY <1>10, <1>11, <1>13, <1>14 DEF RestoreInv

\* RestoreInv holds in every reachable state.
THEOREM RestorationHolds == SupervisorSpec => []RestoreInv
<1>1. Init => RestoreInv
  <2> SUFFICES ASSUME Init PROVE RestoreInv
    OBVIOUS
  <2>1. \A t \in Thread : thread[t].at \in {"begin", "idle"} /\ request[t] = None
    BY DEF Init, Idle
  <2>2. Startup \in Thread /\ Generations \subseteq Thread
    BY DEF Thread
  <2> QED BY <2>1, <2>2 DEF RestoreInv, RestartHeld, Holding, Restarting, SentToCurrent, InRequest,
                            RecoveryRestored, StartupRestored, Given, At
<1>2. SupervisorInv /\ RestoreInv /\ [Next]_vars => RestoreInv'
  <2>1. ASSUME SupervisorInv, RestoreInv, UNCHANGED vars PROVE RestoreInv'
    <3>1. UNCHANGED <<generation, restartGate, thread, request, sidecar, reader>>
      BY <2>1 DEF vars, process, gates
    <3>2. /\ \A g \in Generations : Whole(g) => Whole(g)'
          /\ \A t \in Thread : (thread'[t] = thread[t] \/ ~Tracked(t)') /\ Fades(t)
      BY <3>1 DEF Whole, Fades
    <3> QED BY <2>1, <3>1, <3>2, QuietRestores
  <2> QED BY <2>1, RequestRestores, SurroundingsRestore, RestartRestores, StartupRestores, DeviceRestores
             DEF Next
<1> QED BY <1>1, <1>2, InvHolds, PTL DEF SupervisorSpec

\* RecoveryUnmutesRestored: the runtime restart handler unmutes no sidecar
\* that was not given the canonical graph, however many processes end,
\* requests fail and other restarts wait.
THEOREM RecoveryIsWhole == SupervisorSpec => []RecoveryUnmutesRestored
<1>1. SupervisorInv /\ RestoreInv => RecoveryUnmutesRestored
  BY DEF RestoreInv, SentToCurrent, RecoveryRestored, Whole, RecoveryUnmutesRestored, UnmutesRestored, Thread
<1> QED BY <1>1, InvHolds, RestorationHolds, PTL

\* StartupIsRestored: the startup transaction completes while no sidecar runs
\* without the graph, whatever replaced the one it restored.
THEOREM StartupIsWhole == SupervisorSpec => StartupIsRestored
<1>1. SupervisorInv /\ RestoreInv /\ [Next]_vars =>
        [startup # "completed" /\ startup' = "completed" =>
            \A g \in Generations : sidecar[g].alive => sidecar[g].graph]_vars
  <2> SUFFICES ASSUME SupervisorInv, RestoreInv, Next, startup # "completed", startup' = "completed",
                      NEW g \in Generations, sidecar[g].alive
               PROVE  sidecar[g].graph
    OBVIOUS
  <2>1. StartupChecked
    BY DEF Next, RequestStep, BeginRequest, AwaitReady, Send, Execute, TimeOut, RequestFrame,
           SidecarStep, Crash, ReadReady, EndOfOutput, HandleExit,
           RestartStep, TakeRestartGate, JoinRestart, Replace, Confirm, Spawn, Store, Restored, Handler,
           StartupStep, BeginStartup, StartupStatus, StartupNext, StartupGraph, StartupUnmuted,
           RetryStartup, StartupFails, StartupRetries,
           DeviceStep, BeginDevice, DeviceMuted, DeviceAnswered, DeviceRestored, DeviceQuiet,
           CancelWaits, ForceShutdown
  <2>2. thread[Startup].expected = generation /\ thread[Startup].at = "check"
    BY <2>1 DEF StartupChecked, StartupFails, StartupRetries, CanComplete, Transitioned, Answered, At
  <2>3. Whole(generation)
    BY <2>2 DEF RestoreInv, StartupRestored, At
  <2>4. g = generation
    BY BoundAssumption DEF SupervisorInv, OneSidecar, SlotIsCurrent, Generations
  <2> QED BY <2>3, <2>4 DEF Whole
<1> QED BY <1>1, InvHolds, RestorationHolds, PTL DEF SupervisorSpec, StartupIsRestored

-----------------------------------------------------------------------------
(* Repair.  As long as only unexpected exits go wrong, a sidecar that lacks *)
(* the graph, or is muted, has a thread that will give it what it lacks,    *)
(* and a sidecar that is gone has a reader or a recovery that will see it.  *)

Calm == ~faulted /\ ~Stopping

\* A request belongs to a point that makes requests and to a generation that
\* came to be; past its wait it belongs to a ready one.
Placed(t) ==
    /\ request[t] # None =>
         /\ thread[t].at \in Requesting
         /\ request[t].at # "done" => request[t].generation <= generation
         /\ request[t].at \in {"gate", "sent"} /\ request[t].generation = generation => ready = generation
    /\ thread[t].at = "mute" => t \in Device

PlacedInv ==
    /\ \A t \in Thread : Placed(t)
    /\ startup = "completed" => thread[Startup].at = "idle"

\* Nothing is asked for anew.
Recedes(t) ==
    \/ request'[t] \in {request[t], None}
    \/ request[t] # None /\ request'[t].at = "done"

\* At most thread t moves, and its request is over.
MovesOn(t) ==
    /\ \A u \in Thread \ {t} : thread'[u] = thread[u]
    /\ \/ thread'[t] = thread[t]
       \/ request'[t] = None /\ (thread'[t].at = "mute" => t \in Device)

LEMMA FailPendingRecedes ==
    ASSUME request \in Requests, NEW result, FailPending(result)
    PROVE  \A t \in Thread : Recedes(t)
BY DEF FailPending, Recedes, Done, Requests

LEMMA ThenMovesOn ==
    ASSUME thread \in Threads, request \in Requests, NEW t \in Thread,
           NEW points \in SUBSET (ThreadAt \ {"mute"}), Then(t, points)
    PROVE  MovesOn(t) /\ \A u \in Thread : Recedes(u)
<1>1. PICK at \in points : Go(t, at)
  BY DEF Then
<1>2. thread'[t].at # "mute" /\ \A u \in Thread \ {t} : thread'[u] = thread[u]
  BY <1>1, GoMoves
<1>3. request' = [request EXCEPT ![t] = None]
  BY DEF Then, Finish
<1> QED BY <1>2, <1>3 DEF MovesOn, Recedes, Requests

\* A thread that makes no request goes on.
LEMMA GoMovesOn ==
    ASSUME PlacedInv, thread \in Threads, request \in Requests, NEW t \in Thread, thread[t].at \notin Requesting,
           NEW at \in ThreadAt, at = "mute" => t \in Device, Go(t, at),
           \A u \in Thread : Recedes(u)
    PROVE  MovesOn(t)
<1>1. thread'[t].at = at /\ \A u \in Thread \ {t} : thread'[u] = thread[u]
  BY GoMoves
<1>2. request'[t] = None
  BY DEF PlacedInv, Placed, Recedes
<1> QED BY <1>1, <1>2 DEF MovesOn

\* Every step but a request's is of that kind.
LEMMA StepMovesOn ==
    ASSUME SupervisorInv, PlacedInv, Next, \A t \in Thread : ~RequestStep(t)
    PROVE  \E t \in Thread :
             /\ MovesOn(t) /\ \A u \in Thread : Recedes(u)
             /\ t # Startup \/ StartupStep \/ UNCHANGED thread
<1>1. /\ thread \in Threads /\ request \in Requests /\ Startup \in Thread
      /\ Device \subseteq Thread /\ Generations \subseteq Thread
      /\ generation \in Generations
  BY DEF SupervisorInv, SupervisorTypeOK, Threads, Requests, Thread
<1>2. ASSUME UNCHANGED thread, NEW t \in Thread PROVE MovesOn(t)
  BY <1>2 DEF MovesOn
<1>3. ASSUME UNCHANGED request PROVE \A u \in Thread : Recedes(u)
  BY <1>3 DEF Recedes
<1> DEFINE Theirs(t) == t # Startup \/ StartupStep \/ UNCHANGED thread
           Goal == \E t \in Thread : MovesOn(t) /\ (\A u \in Thread : Recedes(u)) /\ Theirs(t)
<1>4. ASSUME NEW t \in Thread, Theirs(t), NEW points \in SUBSET (ThreadAt \ {"mute"}), Then(t, points)
      PROVE  Goal
  BY <1>1, <1>4, ThenMovesOn
<1>5. ASSUME NEW t \in Thread, Theirs(t), thread[t].at \notin Requesting, NEW at \in ThreadAt,
             at = "mute" => t \in Device, Go(t, at), \A u \in Thread : Recedes(u)
      PROVE  Goal
  BY <1>1, <1>5, GoMovesOn
<1>6. /\ ThreadAt \ {"mute"} = {"restore", "device", "status", "graph", "unmute", "expose", "check", "idle",
                                "gate", "command", "confirm", "spawn", "store", "begin", "next"}
      /\ "mute" \in ThreadAt
      /\ {"idle", "gate", "command", "confirm", "spawn", "store", "begin", "next"} \intersect Requesting = {}
  BY DEF ThreadAt, Requesting
<1>7. \A t \in Device \union Generations : Theirs(t)
  BY ThreadAssumption DEF Generations
<1>8. ASSUME NEW g \in Generations, SidecarStep(g) PROVE Goal
  <2>1. CASE Crash(g) \/ ReadReady(g) \/ EndOfOutput(g)
    <3>1. UNCHANGED <<thread, request>>
      BY <2>1 DEF Crash, ReadReady, EndOfOutput
    <3> QED BY <1>1, <1>7, <1>2, <1>3, <3>1
  <2>2. CASE HandleExit(g)
    <3>1. \A u \in Thread : Recedes(u)
      BY <1>1, <2>2, FailPendingRecedes DEF HandleExit
    <3>2. thread[g].at = "idle"
      BY <2>2 DEF SupervisorInv, SpawnedOnce, HandleExit
    <3>3. request'[g] = None
      BY <1>1, <1>6, <3>1, <3>2 DEF PlacedInv, Placed, Recedes
    <3>4. /\ \A u \in Thread \ {g} : thread'[u] = thread[u]
          /\ thread'[g] = thread[g] \/ thread'[g].at = "gate"
      BY <1>1, <2>2 DEF HandleExit, Threads
    <3>5. MovesOn(g)
      BY <3>3, <3>4 DEF MovesOn
    <3> QED BY <1>1, <1>7, <3>1, <3>5
  <2> QED BY <1>8, <2>1, <2>2 DEF SidecarStep
<1>9. ASSUME NEW t \in Device \union Generations, RestartStep(t) PROVE Goal
  <2>1. t \in Thread /\ t # Startup /\ \A ok : AfterRestart(t, ok) \in {"status", "unmute", "idle"}
    BY <1>1, AfterRestartPoint, ThreadAssumption DEF Generations
  <2>2. CASE TakeRestartGate(t) \/ JoinRestart(t) \/ Confirm(t) \/ Spawn(t) \/ Store(t)
    <3>1. \E at \in ThreadAt \ {"mute"} : Go(t, at)
      BY <1>6, <2>1, <2>2 DEF TakeRestartGate, JoinRestart, Confirm, Spawn, Store, FailRestart
    <3>2. thread[t].at \notin Requesting /\ UNCHANGED request
      BY <1>6, <2>2 DEF TakeRestartGate, JoinRestart, Confirm, Spawn, Store, At
    <3> QED BY <1>3, <1>5, <1>7, <2>1, <3>1, <3>2
  <2>3. CASE Replace(t)
    <3>1. \E at \in ThreadAt \ {"mute"} : Go(t, at)
      BY <1>6, <2>3 DEF Replace
    <3>2. thread[t].at \notin Requesting
      BY <1>6, <2>3 DEF Replace, At
    <3>3. \A u \in Thread : Recedes(u)
      BY <1>1, <2>3, FailPendingRecedes DEF Replace
    <3> QED BY <1>5, <1>7, <2>1, <3>1, <3>2, <3>3
  <2>4. CASE Restored(t) \/ Handler(t)
    <3>1. \E points \in SUBSET (ThreadAt \ {"mute"}) : Then(t, points)
      BY <1>6, <2>1, <2>4 DEF Restored, Handler
    <3> QED BY <1>4, <1>7, <2>1, <3>1
  <2> QED BY <1>9, <2>2, <2>3, <2>4 DEF RestartStep
<1>10. CASE StartupStep
  <2>1. CASE \E points \in SUBSET (ThreadAt \ {"mute"}) : Then(Startup, points)
    BY <1>1, <1>4, <1>10, <2>1
  <2>2. CASE RetryStartup
    BY <1>1, <1>3, <1>5, <1>6, <1>10, <2>2 DEF RetryStartup, At
  <2>3. CASE /\ thread' = [thread EXCEPT ![Startup] = [at |-> "graph", expected |-> generation]]
             /\ Finish(Startup)
    <3>1. MovesOn(Startup) /\ \A u \in Thread : Recedes(u)
      BY <1>1, <2>3 DEF MovesOn, Finish, Recedes, Threads, Requests
    <3> QED BY <1>1, <1>10, <3>1
  <2>4. CASE /\ thread[Startup].at = "begin" /\ UNCHANGED request
             /\ thread' = [thread EXCEPT ![Startup] = [at |-> "status", expected |-> generation]]
    <3>1. request'[Startup] = None
      BY <1>1, <1>6, <2>4 DEF PlacedInv, Placed
    <3>2. MovesOn(Startup)
      BY <1>1, <2>4, <3>1 DEF MovesOn, Threads
    <3> QED BY <1>1, <1>3, <1>10, <2>4, <3>2
  <2> QED BY <1>6, <1>10, <2>1, <2>2, <2>3, <2>4
             DEF StartupStep, BeginStartup, StartupStatus, StartupNext, StartupGraph, StartupUnmuted,
                 StartupChecked, StartupFails, StartupRetries, At
<1>11. ASSUME NEW t \in Device, DeviceStep(t) PROVE Goal
  <2>1. CASE \E points \in SUBSET (ThreadAt \ {"mute"}) : Then(t, points)
    BY <1>1, <1>4, <1>7, <2>1
  <2>2. CASE BeginDevice(t)
    BY <1>1, <1>3, <1>5, <1>6, <1>7, <2>2 DEF BeginDevice, At
  <2>3. CASE DeviceMuted(t)
    <3>1. /\ thread'[t].at \in {"device", "unmute", "idle"}
          /\ \A u \in Thread \ {t} : thread'[u] = thread[u]
      <4>1. CASE \E at \in {"unmute", "idle"} : Go(t, at)
        BY <1>1, <1>6, <4>1, GoMoves
      <4>2. CASE thread' = [thread EXCEPT ![t] = [at |-> "device", expected |-> generation]]
        BY <1>1, <4>2 DEF Threads
      <4> QED BY <2>3, <4>1, <4>2 DEF DeviceMuted
    <3>2. request' = [request EXCEPT ![t] = None]
      BY <2>3 DEF DeviceMuted, Finish
    <3>3. MovesOn(t) /\ \A u \in Thread : Recedes(u)
      BY <1>1, <3>1, <3>2 DEF MovesOn, Recedes, Requests
    <3> QED BY <1>1, <1>7, <3>3
  <2> QED BY <1>6, <1>11, <2>1, <2>2, <2>3 DEF DeviceStep, DeviceAnswered, DeviceRestored
<1>12. CASE CancelWaits \/ ForceShutdown
  <2>1. UNCHANGED thread /\ \A u \in Thread : Recedes(u)
    BY <1>1, <1>12, FailPendingRecedes DEF CancelWaits, ForceShutdown
  <2> QED BY <1>1, <1>2, <2>1
<1> QED BY <1>8, <1>9, <1>10, <1>11, <1>12 DEF Next
\* A request takes its steps.
LEMMA RequestPlaces ==
    ASSUME SupervisorInv, PlacedInv, NEW t \in Thread, RequestStep(t)
    PROVE  PlacedInv'
<1>1. request \in Requests /\ generation \in Nat
  BY BoundAssumption DEF SupervisorInv, SupervisorTypeOK, Requests, Generations
<1>2. UNCHANGED <<generation, ready, thread, startup>>
  BY DEF RequestStep, BeginRequest, AwaitReady, Send, Execute, TimeOut, RequestFrame, process
<1>3. \A u \in Thread \ {t} : request'[u] = request[u]
  BY <1>1 DEF RequestStep, BeginRequest, AwaitReady, Send, Execute, TimeOut, Answer, Requests
<1>4. ASSUME thread[t].at \in Requesting,
             request'[t].at # "done" => request'[t].generation <= generation,
             request'[t].at \in {"gate", "sent"} /\ request'[t].generation = generation => ready = generation
      PROVE  PlacedInv'
  BY <1>2, <1>3, <1>4 DEF PlacedInv, Placed
<1>5. ASSUME thread[t].at \in Requesting, NEW result, Answer(t, result) PROVE PlacedInv'
  <2>1. request'[t].at = "done"
    BY <1>1, <1>5 DEF Answer, Done, Requests
  <2> QED BY <1>4, <1>5, <2>1
<1>6. CASE BeginRequest(t)
  <2> DEFINE new == [at |-> "wait", generation |-> generation, process |-> 0, result |-> None]
  <2>1. CASE request' = [request EXCEPT ![t] = new]
    <3>1. request'[t] = new
      BY <1>1, <2>1 DEF Requests
    <3> QED BY <1>1, <1>4, <1>6, <3>1 DEF BeginRequest
  <2> QED BY <1>5, <1>6, <2>1 DEF BeginRequest
<1>7. ASSUME request[t] # None
      PROVE  /\ request[t] \in Request /\ thread[t].at \in Requesting
             /\ request[t].at # "done" => request[t].generation <= generation
             /\ request[t].at \in {"gate", "sent"} /\ request[t].generation = generation => ready = generation
  BY <1>1, <1>7 DEF PlacedInv, Placed, Requests
<1>8. CASE AwaitReady(t)
  <2>1. CASE IsReady(request[t].generation) /\ request' = [request EXCEPT ![t].at = "gate"]
    <3>1. request'[t].at = "gate" /\ request'[t].generation = request[t].generation
      BY <1>1, <1>7, <1>8, <2>1 DEF AwaitReady, InRequest, Request, Requests
    <3> QED BY <1>1, <1>4, <1>7, <1>8, <2>1, <3>1 DEF IsReady, AwaitReady, InRequest
  <2> QED BY <1>5, <1>7, <1>8, <2>1 DEF AwaitReady, InRequest
<1>9. CASE Send(t)
  <2>1. CASE request' = [request EXCEPT ![t].at = "wait", ![t].generation = generation]
    <3>1. request'[t].at = "wait" /\ request'[t].generation = generation
      BY <1>1, <1>7, <1>9, <2>1 DEF Send, InRequest, Request, Requests
    <3> QED BY <1>1, <1>4, <1>7, <1>9, <3>1 DEF Send, InRequest
  <2>2. CASE /\ IsReady(request[t].generation)
             /\ request' = [request EXCEPT ![t].at = "sent", ![t].process = slot]
    <3>1. request'[t].at = "sent" /\ request'[t].generation = request[t].generation
      BY <1>1, <1>7, <1>9, <2>2 DEF Send, InRequest, Request, Requests
    <3> QED BY <1>1, <1>4, <1>7, <1>9, <2>2, <3>1 DEF IsReady, Send, InRequest
  <2> QED BY <1>5, <1>7, <1>9, <2>1, <2>2 DEF Send, InRequest
<1>10. CASE Execute(t) \/ TimeOut(t)
  BY <1>5, <1>7, <1>10 DEF Execute, TimeOut, InRequest
<1> QED BY <1>6, <1>8, <1>9, <1>10 DEF RequestStep

LEMMA StepPlaces ==
    ASSUME SupervisorInv, PlacedInv, [Next]_vars
    PROVE  PlacedInv'
<1>1. CASE UNCHANGED vars
  BY <1>1 DEF vars, process, PlacedInv, Placed
<1>2. CASE \E t \in Thread : RequestStep(t)
  BY <1>2, RequestPlaces
<1>3. CASE Next /\ \A t \in Thread : ~RequestStep(t)
  <2>1. PICK t \in Thread : /\ MovesOn(t) /\ \A u \in Thread : Recedes(u)
                            /\ t # Startup \/ StartupStep \/ UNCHANGED thread
    BY <1>3, StepMovesOn
  <2>2. /\ generation \in Nat /\ Startup \in Thread
        /\ thread \in Threads /\ request \in Requests
    BY BoundAssumption DEF SupervisorInv, SupervisorTypeOK, Thread, Threads, Requests, Generations
  <2>3. \/ generation' = generation /\ (ready' = ready \/ ready' = generation)
        \/ generation' = generation + 1
    BY <1>3 DEF Next, SidecarStep, Crash, ReadReady, EndOfOutput, HandleExit,
       RestartStep, TakeRestartGate, JoinRestart, Replace, Confirm, Spawn, Store, Restored, Handler,
       NextGeneration, StartupStep, BeginStartup, StartupStatus, StartupNext, StartupGraph, StartupUnmuted,
       StartupChecked, RetryStartup, StartupQuiet, Unaffected,
       DeviceStep, BeginDevice, DeviceMuted, DeviceAnswered, DeviceRestored, DeviceQuiet,
       CancelWaits, ForceShutdown, process
  <2>4. ASSUME NEW u \in Thread PROVE Placed(u)'
    <3>1. CASE thread'[u] = thread[u]
      <4>1. Placed(u) /\ Recedes(u)
        BY <2>1 DEF PlacedInv
      <4>2. request[u] # None => request[u].generation \in Nat
        BY <2>2, BoundAssumption DEF Requests, Request
      <4> QED BY <2>2, <2>3, <3>1, <4>1, <4>2 DEF Placed, Recedes
    <3>2. CASE request'[u] = None /\ (thread'[u].at = "mute" => u \in Device)
      BY <3>2 DEF Placed
    <3> QED BY <2>1, <3>1, <3>2 DEF MovesOn
  <2>5. ASSUME startup' = "completed" PROVE thread'[Startup].at = "idle"
    <3>1. CASE StartupStep
      <4>1. CASE startup = "completed"
        BY <2>5, <3>1, <4>1
           DEF PlacedInv, At, Answered, StartupStep, BeginStartup, StartupStatus, StartupNext, StartupGraph,
               StartupUnmuted, StartupChecked, RetryStartup
      <4>2. CASE startup # "completed"
        <5>1. Then(Startup, {"idle"})
          BY <2>5, <3>1, <4>2
             DEF StartupStep, BeginStartup, StartupStatus, StartupNext, StartupGraph, StartupUnmuted,
                 StartupChecked, RetryStartup, StartupFails, StartupRetries
        <5> QED BY <2>2, <5>1, ThenMoves DEF ThreadAt
      <4> QED BY <4>1, <4>2
    <3>2. CASE ~StartupStep
      <4>1. thread'[Startup] = thread[Startup]
        BY <2>1, <2>2, <3>2 DEF MovesOn
      <4>2. startup' = startup
        BY <1>3, <3>2
           DEF Next, SidecarStep, Crash, ReadReady, EndOfOutput, HandleExit,
               RestartStep, TakeRestartGate, JoinRestart, Replace, Confirm, Spawn, Store, Restored, Handler,
               DeviceStep, BeginDevice, DeviceMuted, DeviceAnswered, DeviceRestored, DeviceQuiet,
               CancelWaits, ForceShutdown
      <4> QED BY <2>5, <4>1, <4>2 DEF PlacedInv
    <3> QED BY <3>1, <3>2
  <2> QED BY <2>4, <2>5 DEF PlacedInv
<1> QED BY <1>1, <1>2, <1>3

\* The process of the current generation is read as long as it lives.
CurrentIsRead ==
    /\ sidecar[generation].alive => reader[generation] = "reading"
    /\ slot # 0 \/ (\E t \in Thread : At(t, "store")) => reader[generation] # "none"
    /\ terminated <= generation
    /\ terminated = generation => reader[generation] \in {"exit", "gone"}

\* Its end is planned only by who retires it.
PlannedIsPast ==
    /\ planned \subseteq 1 .. generation
    /\ ~Stopping => generation \notin planned

\* Its end, once seen, leads to a restart.
ExitIsSeen ==
    ~Stopping /\ reader[generation] = "gone" =>
        thread[generation].at \in {"gate", "command"} /\ thread[generation].expected = generation

\* While nothing goes wrong no generation is rejected, and the reader of an
\* earlier process is done when the current one is ready.
ReadersInTurn ==
    /\ ready <= generation
    /\ ~faulted => /\ rejected = 0
                   /\ ready = generation =>
                        \A g \in Generations : g < generation => reader[g] \notin {"reading", "exit"}

\* An empty slot is about to be filled.
SlotIsFilled ==
    Calm /\ slot = 0 => \E t \in Device \union Generations : thread[t].at \in Critical

SeenInv == CurrentIsRead /\ PlannedIsPast /\ ExitIsSeen /\ ReadersInTurn /\ SlotIsFilled

\* Steps of requests, of the startup thread and of device threads outside a
\* restart leave the processes and their readers alone.
LEMMA ElsewhereSees ==
    ASSUME SupervisorInv, SeenInv,
           UNCHANGED <<generation, ready, rejected, terminated, planned, slot, reader>>,
           \A g \in Generations : sidecar'[g].alive => sidecar[g].alive,
           Stopping => Stopping', faulted => faulted',
           \A u \in Thread : \/ thread'[u] = thread[u]
                             \/ u \notin Generations /\ thread[u].at \notin Critical /\ thread'[u].at # "store"
    PROVE  SeenInv'
<1>1. generation \in Generations /\ Generations \subseteq Thread /\ Device \subseteq Thread
  BY DEF SupervisorInv, SupervisorTypeOK, Thread
<1>2. CurrentIsRead'
  BY <1>1 DEF SeenInv, CurrentIsRead, At
<1>3. PlannedIsPast' /\ ReadersInTurn'
  BY DEF SeenInv, PlannedIsPast, ReadersInTurn
<1>4. ExitIsSeen'
  BY <1>1 DEF SeenInv, ExitIsSeen
<1>5. SlotIsFilled'
  BY <1>1 DEF SeenInv, SlotIsFilled, Calm
<1> QED BY <1>2, <1>3, <1>4, <1>5 DEF SeenInv

LEMMA RequestSees ==
    ASSUME SupervisorInv, SeenInv, NEW t \in Thread, RequestStep(t)
    PROVE  SeenInv'
<1>1. UNCHANGED <<process, reader, thread, shutdown>>
  BY DEF RequestStep, BeginRequest, AwaitReady, Send, Execute, TimeOut, RequestFrame, process
<1>2. faulted => faulted'
  BY DEF RequestStep, BeginRequest, AwaitReady, Send, Execute, TimeOut, RequestFrame, Fault, Faultless
<1>3. \A g \in Generations : sidecar'[g].alive => sidecar[g].alive
  <2>1. sidecar \in [Generations -> Sidecar]
    BY DEF SupervisorInv, SupervisorTypeOK
  <2>2. ASSUME NEW s \in Sidecar, NEW at PROVE Effect(s, at).alive = s.alive
    BY DEF Effect, Sidecar
  <2> QED BY <2>1, <2>2 DEF RequestStep, BeginRequest, AwaitReady, Send, Execute, TimeOut, RequestFrame
<1> QED BY <1>1, <1>2, <1>3, ElsewhereSees DEF process, Stopping

LEMMA StartupSees ==
    ASSUME SupervisorInv, SeenInv, StartupStep
    PROVE  SeenInv'
<1>1. /\ thread \in Threads /\ request \in Requests /\ Startup \in Thread /\ Startup \notin Generations
      /\ generation \in 0 .. MaxGeneration
  BY ThreadAssumption, BoundAssumption
     DEF SupervisorInv, SupervisorTypeOK, Requests, Threads, Thread, Generations
<1>2. UNCHANGED <<process, reader, sidecar, shutdown, faulted>>
  BY DEF StartupStep, BeginStartup, StartupStatus, StartupNext, StartupGraph, StartupUnmuted,
         StartupChecked, RetryStartup, StartupQuiet, Unaffected
<1>3. thread[Startup].at \notin Critical
  BY DEF StartupStep, BeginStartup, StartupStatus, StartupNext, StartupGraph, StartupUnmuted,
         StartupChecked, RetryStartup, Answered, At, Critical
<1> DEFINE points == {"idle", "begin", "next", "unmute", "expose", "check"}
<1>4. points \subseteq ThreadAt /\ "store" \notin points
  BY DEF ThreadAt, Requesting
<1>5. thread'[Startup].at # "store" /\ \A u \in Thread \ {Startup} : thread'[u] = thread[u]
  <2>1. CASE \E at \in points : Go(Startup, at)
    BY <1>1, <1>4, <2>1, GoMoves
  <2>2. CASE \E at \in {"status", "graph"} :
               thread' = [thread EXCEPT ![Startup] = [at |-> at, expected |-> generation]]
    BY <1>1, <2>2 DEF Threads
  <2> QED BY <2>1, <2>2
             DEF StartupStep, BeginStartup, StartupStatus, StartupNext, StartupGraph, StartupUnmuted,
                 StartupChecked, RetryStartup, StartupFails, StartupRetries, Then
<1> QED BY <1>1, <1>2, <1>3, <1>5, ElsewhereSees DEF process, Stopping

LEMMA DeviceSees ==
    ASSUME SupervisorInv, SeenInv, NEW t \in Device, DeviceStep(t)
    PROVE  SeenInv'
<1>1. /\ thread \in Threads /\ request \in Requests /\ t \in Thread /\ t \notin Generations
      /\ generation \in 0 .. MaxGeneration
  BY ThreadAssumption, BoundAssumption
     DEF SupervisorInv, SupervisorTypeOK, Requests, Threads, Thread, Generations
<1>2. UNCHANGED <<process, reader, sidecar, shutdown, faulted>>
  BY DEF DeviceStep, BeginDevice, DeviceMuted, DeviceAnswered, DeviceRestored, DeviceQuiet
<1>3. thread[t].at \notin Critical
  BY DEF DeviceStep, BeginDevice, DeviceMuted, DeviceAnswered, DeviceRestored, Answered, At, Critical
<1> DEFINE points == {"idle", "mute", "device", "gate", "status", "graph", "unmute"}
<1>4. points \subseteq ThreadAt /\ "store" \notin points
  BY DEF ThreadAt, Requesting
<1>5. thread'[t].at # "store" /\ \A u \in Thread \ {t} : thread'[u] = thread[u]
  <2>1. CASE \E at \in points : Go(t, at)
    BY <1>1, <1>4, <2>1, GoMoves
  <2>2. CASE thread' = [thread EXCEPT ![t] = [at |-> "device", expected |-> generation]]
    BY <1>1, <2>2 DEF Threads
  <2> QED BY <2>1, <2>2
             DEF DeviceStep, BeginDevice, DeviceMuted, DeviceAnswered, DeviceRestored, Then
<1> QED BY <1>1, <1>2, <1>3, <1>5, ElsewhereSees DEF process, Stopping

\* The sidecar and its reader, and the Host's shutdown.
LEMMA SurroundingsSee ==
    ASSUME SupervisorInv, SeenInv,
           (\E g \in Generations : SidecarStep(g)) \/ CancelWaits \/ ForceShutdown
    PROVE  SeenInv'
<1>1. /\ sidecar \in [Generations -> Sidecar] /\ thread \in Threads /\ generation \in Generations
      /\ reader \in [Generations -> ReaderAt] /\ Generations \subseteq Thread /\ Device \subseteq Thread
      /\ Generations \subseteq Nat /\ terminated \in Nat
  BY BoundAssumption DEF SupervisorInv, SupervisorTypeOK, Threads, Thread, Generations
<1>2. ASSUME NEW g \in Generations, reader[g] # "none" PROVE g <= generation
  BY <1>1, <1>2 DEF SupervisorInv, SpawnedOnce
<1>3. CASE (\E g \in Generations : Crash(g)) \/ CancelWaits
  <2>1. \A g \in Generations : sidecar'[g].alive => sidecar[g].alive
    BY <1>1, <1>3 DEF Crash, CancelWaits, NoSidecar
  <2> QED BY <1>3, <2>1, ElsewhereSees DEF Crash, CancelWaits, process, Stopping
<1>4. ASSUME NEW g \in Generations, ReadReady(g) PROVE SeenInv'
  <2>1. CurrentIsRead' /\ PlannedIsPast' /\ ExitIsSeen'
    BY <1>4 DEF ReadReady, SeenInv, CurrentIsRead, PlannedIsPast, ExitIsSeen, Stopping, At
  <2>2. ReadersInTurn'
    <3>1. ready' <= generation
      BY <1>1, <1>4 DEF ReadReady, SeenInv, ReadersInTurn
    <3>2. ASSUME ~faulted' PROVE ~faulted /\ UNCHANGED rejected
      BY <1>4, <3>2 DEF ReadReady, Fault
    <3>3. ASSUME ~faulted', ready' = g, NEW h \in Generations, h < g PROVE reader[h] \notin {"reading", "exit"}
      <4>1. h \in 1 .. g - 1
        BY <1>1, <3>3 DEF Generations
      <4> QED BY <1>4, <3>3, <4>1 DEF ReadReady, Fault
    <3>4. UNCHANGED <<generation, reader>> /\ (ready' = generation => ready' = g)
      BY <1>4 DEF ReadReady
    <3> QED BY <3>1, <3>2, <3>3, <3>4, <1>4 DEF ReadReady, SeenInv, ReadersInTurn
  <2>3. SlotIsFilled'
    BY <1>4 DEF ReadReady, SeenInv, SlotIsFilled, Calm, Stopping, Fault
  <2> QED BY <2>1, <2>2, <2>3 DEF SeenInv
<1>5. ASSUME NEW g \in Generations, EndOfOutput(g) PROVE SeenInv'
  <2>1. g <= generation /\ reader'[g] \in {"exit", "gone"} /\ (g = generation => reader'[g] = "exit")
    BY <1>1, <1>2, <1>5 DEF EndOfOutput, ReaderGoes
  <2>2. \A h \in Generations \ {g} : reader'[h] = reader[h]
    BY <1>1, <1>5 DEF EndOfOutput, ReaderGoes
  <2>3. CurrentIsRead'
    BY <1>1, <1>5, <2>1, <2>2 DEF EndOfOutput, SeenInv, CurrentIsRead, MarkTerminated, At
  <2>4. PlannedIsPast' /\ ExitIsSeen'
    BY <1>1, <1>5, <2>1, <2>2 DEF EndOfOutput, SeenInv, PlannedIsPast, ExitIsSeen, Stopping
  <2>5. ReadersInTurn'
    BY <1>1, <1>5, <2>1, <2>2 DEF EndOfOutput, SeenInv, ReadersInTurn
  <2>6. SlotIsFilled'
    BY <1>5 DEF EndOfOutput, SeenInv, SlotIsFilled, Calm, Stopping
  <2> QED BY <2>3, <2>4, <2>5, <2>6 DEF SeenInv
<1>6. ASSUME NEW g \in Generations, HandleExit(g) PROVE SeenInv'
  <2>1. g <= generation /\ reader'[g] = "gone" /\ \A h \in Generations \ {g} : reader'[h] = reader[h]
    BY <1>1, <1>2, <1>6 DEF HandleExit, ReaderGoes
  <2>2. thread[g].at = "idle" /\ \A u \in Thread \ {g} : thread'[u] = thread[u]
    BY <1>1, <1>6 DEF HandleExit, SupervisorInv, SpawnedOnce, Threads
  <2>3. thread'[g].at \in {"idle", "gate"}
    BY <1>1, <1>6, <2>2 DEF HandleExit, Threads
  <2>4. CurrentIsRead'
    BY <1>1, <1>6, <2>1, <2>2, <2>3 DEF HandleExit, SeenInv, CurrentIsRead, MarkTerminated, At
  <2>5. PlannedIsPast'
    BY <1>6 DEF HandleExit, SeenInv, PlannedIsPast, Stopping
  <2>6. ExitIsSeen'
    <3>1. CASE g = generation /\ ~Stopping
      <4>1. thread' = [thread EXCEPT ![g] = [at |-> "gate", expected |-> g]]
        BY <1>6, <3>1 DEF HandleExit, SeenInv, PlannedIsPast
      <4> QED BY <1>1, <1>6, <3>1, <4>1 DEF HandleExit, ExitIsSeen, Threads
    <3>2. CASE g # generation \/ Stopping
      BY <1>1, <1>6, <2>1, <2>2, <3>2 DEF HandleExit, SeenInv, ExitIsSeen, Stopping
    <3> QED BY <3>1, <3>2
  <2>7. ReadersInTurn'
    BY <1>1, <1>6, <2>1 DEF HandleExit, SeenInv, ReadersInTurn
  <2>8. SlotIsFilled'
    BY <1>1, <1>6, <2>2 DEF HandleExit, SeenInv, SlotIsFilled, Calm, Stopping, Critical
  <2> QED BY <2>4, <2>5, <2>6, <2>7, <2>8 DEF SeenInv
<1>7. CASE ForceShutdown
  <2>1. Stopping' /\ UNCHANGED <<generation, ready, rejected, terminated, reader, thread, faulted>>
    BY <1>7 DEF ForceShutdown, Stopping
  <2>2. \A g \in Generations : sidecar'[g].alive => sidecar[g].alive
    BY <1>1, <1>7 DEF ForceShutdown, Kill, NoSidecar
  <2>3. (slot' # 0 => slot # 0) /\ planned' \subseteq planned \union {generation}
    BY <1>7 DEF ForceShutdown
  <2>4. CurrentIsRead' /\ ExitIsSeen' /\ ReadersInTurn' /\ SlotIsFilled'
    BY <1>1, <2>1, <2>2, <2>3 DEF SeenInv, CurrentIsRead, ExitIsSeen, ReadersInTurn, SlotIsFilled, Calm, At
  <2>5. PlannedIsPast'
    BY <1>1, <2>1, <2>3 DEF SeenInv, PlannedIsPast, Generations
  <2> QED BY <2>4, <2>5 DEF SeenInv
<1> QED BY <1>3, <1>4, <1>5, <1>6, <1>7 DEF SidecarStep

\* A restart moves its own thread.
LEMMA RestartGoes ==
    ASSUME SupervisorInv, NEW t \in Device \union Generations, RestartStep(t)
    PROVE  /\ thread \in Threads /\ request \in Requests /\ t \in Thread /\ t # Startup
           /\ \E at \in ThreadAt : Go(t, at)
           /\ \A u \in Thread \ {t} : thread'[u] = thread[u]
<1>1. thread \in Threads /\ request \in Requests /\ t \in Thread /\ t # Startup
  BY ThreadAssumption DEF SupervisorInv, SupervisorTypeOK, Threads, Requests, Thread, Generations
<1>2. /\ {"command", "confirm", "spawn", "store", "restore", "graph", "status", "unmute", "idle"} \subseteq ThreadAt
      /\ \A ok : AfterRestart(t, ok) \in {"status", "unmute", "idle"}
  BY AfterRestartPoint DEF ThreadAt, Requesting
<1>3. \E at \in ThreadAt : Go(t, at)
  BY <1>2 DEF RestartStep, TakeRestartGate, JoinRestart, Replace, Confirm, Spawn, Store, FailRestart,
              Restored, Handler, Then
<1> QED BY <1>1, <1>3, GoMoves

\* Who restarts retires a process whose end it planned, and fills the slot.
LEMMA RestartSees ==
    ASSUME SupervisorInv, SeenInv, NEW t \in Device \union Generations, RestartStep(t)
    PROVE  SeenInv'
<1>1. /\ thread \in Threads /\ t \in Thread /\ Generations \subseteq Thread /\ generation \in Generations
      /\ sidecar \in [Generations -> Sidecar] /\ reader \in [Generations -> ReaderAt]
      /\ \A u \in Thread \ {t} : thread'[u] = thread[u]
      /\ Generations = 1 .. MaxGeneration /\ MaxGeneration \in Nat /\ slot \in 0 .. MaxGeneration
      /\ terminated \in Nat /\ ready \in Nat
  BY RestartGoes, BoundAssumption DEF SupervisorInv, SupervisorTypeOK, Threads, Thread, Generations
<1>2. /\ {"command", "confirm", "spawn", "store", "restore", "graph", "status", "unmute", "idle"} \subseteq ThreadAt
      /\ \A ok : AfterRestart(t, ok) \in {"status", "unmute", "idle"}
  BY AfterRestartPoint DEF ThreadAt, Requesting
<1>3. ASSUME NEW at \in ThreadAt, Go(t, at)
      PROVE  thread'[t].at = at /\ (at # "idle" => thread'[t].expected = thread[t].expected)
  <2>1. thread'[t].at = at
    BY <1>1, <1>3, GoMoves
  <2> QED BY <1>1, <1>3, <2>1 DEF Go, Threads, ThreadState
<1>4. CASE TakeRestartGate(t) \/ JoinRestart(t) \/ Restored(t) \/ Handler(t)
  <2>1. UNCHANGED <<process, sidecar, reader, shutdown, faulted>>
    BY <1>4 DEF TakeRestartGate, JoinRestart, Restored, Handler, Unaffected
  <2>2. thread[t].at \in {"gate", "command", "restore", "graph", "unmute"}
    BY <1>4 DEF TakeRestartGate, JoinRestart, Restored, Handler, Answered, At
  <2>3. thread'[t].at \in {"command", "graph", "status", "unmute", "idle"}
    <3>1. PICK at \in {"command", "graph", "status", "unmute", "idle"} : Go(t, at)
      BY <1>2, <1>4 DEF TakeRestartGate, JoinRestart, Restored, Handler, Then
    <3> QED BY <1>2, <1>3, <3>1
  <2>4. CurrentIsRead'
    BY <1>1, <2>1, <2>3 DEF SeenInv, CurrentIsRead, At, process
  <2>5. PlannedIsPast' /\ ReadersInTurn'
    BY <2>1 DEF SeenInv, PlannedIsPast, ReadersInTurn, Stopping, process
  <2>6. ExitIsSeen'
    <3> SUFFICES ASSUME ~Stopping, reader[generation] = "gone", t = generation
                 PROVE  thread'[t].at \in {"gate", "command"} /\ thread'[t].expected = generation
      BY <1>1, <2>1 DEF SeenInv, ExitIsSeen, Stopping, process
    <3>1. thread[t].at \in {"gate", "command"} /\ thread[t].expected = generation
      BY DEF SeenInv, ExitIsSeen
    <3>2. TakeRestartGate(t)
      BY <1>4, <3>1 DEF JoinRestart, Restored, Handler, Answered, At
    <3> QED BY <1>2, <1>3, <3>1, <3>2 DEF TakeRestartGate
  <2>7. SlotIsFilled'
    <3> SUFFICES ASSUME Calm, slot = 0
                 PROVE  \E u \in Device \union Generations : thread'[u].at \in Critical
      BY <2>1 DEF SlotIsFilled, Calm, Stopping, process
    <3>1. PICK u \in Device \union Generations : thread[u].at \in Critical
      BY DEF SeenInv, SlotIsFilled
    <3>2. u \in Thread \ {t}
      BY <2>2, <3>1 DEF Critical, Thread
    <3> QED BY <1>1, <3>1, <3>2
  <2> QED BY <2>4, <2>5, <2>6, <2>7 DEF SeenInv
<1>5. CASE Replace(t)
  <2>1. /\ generation' = generation + 1 /\ generation' \in Generations /\ slot' = 0
        /\ UNCHANGED <<ready, rejected, terminated, reader, shutdown, faulted>>
    BY <1>1, <1>5 DEF Replace, NextGeneration
  <2>2. thread'[t].at \in {"confirm", "spawn"}
    BY <1>2, <1>3, <1>5 DEF Replace
  <2>3. reader[generation + 1] = "none"
    BY <1>1, <2>1 DEF SupervisorInv, SpawnedOnce
  <2>4. ~sidecar'[generation + 1].alive
    <3>1. ~sidecar[generation + 1].alive
      BY <1>1, <2>1 DEF SupervisorInv, OneSidecar, SlotIsCurrent
    <3>2. ASSUME Kill(slot) PROVE \A g \in Generations : sidecar'[g] \in {sidecar[g], NoSidecar}
      BY <1>1, <3>2 DEF Kill
    <3>3. Kill(slot) \/ UNCHANGED sidecar
      BY <1>5 DEF Replace
    <3> QED BY <2>1, <3>1, <3>2, <3>3 DEF NoSidecar
  <2>5. \A u \in Thread : thread'[u].at # "store"
    <3>1. \A u \in Thread : thread[u].at # "store"
      BY <1>5, NoneAssumption DEF Replace, SupervisorInv, GateHeld, Critical
    <3> QED BY <1>1, <2>2, <3>1
  <2>6. CurrentIsRead'
    BY <1>1, <2>1, <2>3, <2>4, <2>5 DEF SeenInv, CurrentIsRead, At
  <2>7. PlannedIsPast'
    <3>1. planned' \subseteq planned \union {generation}
      BY <1>5 DEF Replace, PreviousGeneration
    <3> QED BY <1>1, <2>1, <3>1 DEF SeenInv, PlannedIsPast
  <2>8. ExitIsSeen'
    BY <1>1, <2>1, <2>3 DEF ExitIsSeen
  <2>9. ReadersInTurn'
    BY <1>1, <2>1 DEF SeenInv, ReadersInTurn
  <2>10. SlotIsFilled'
    BY <2>2 DEF SlotIsFilled, Critical
  <2> QED BY <2>6, <2>7, <2>8, <2>9, <2>10 DEF SeenInv
<1>6. CASE Confirm(t)
  <2>1. UNCHANGED <<generation, ready, rejected, terminated, planned, slot, sidecar, reader, shutdown>>
    BY <1>6 DEF Confirm
  <2>2. \/ thread'[t].at = "spawn" /\ UNCHANGED faulted
        \/ thread'[t].at \in {"status", "unmute", "idle"} /\ faulted'
    BY <1>2, <1>3, <1>6 DEF Confirm, FailRestart, Fault
  <2>3. thread[t].at = "confirm"
    BY <1>6 DEF Confirm, At
  <2>4. CurrentIsRead'
    BY <1>1, <2>1, <2>2 DEF SeenInv, CurrentIsRead, At
  <2>5. PlannedIsPast' /\ ReadersInTurn'
    BY <2>1, <2>2 DEF SeenInv, PlannedIsPast, ReadersInTurn, Stopping
  <2>6. ExitIsSeen'
    BY <1>1, <2>1, <2>3 DEF SeenInv, ExitIsSeen, Stopping
  <2>7. SlotIsFilled'
    BY <2>2 DEF SlotIsFilled, Calm, Critical
  <2> QED BY <2>4, <2>5, <2>6, <2>7 DEF SeenInv
<1>7. CASE Spawn(t)
  <2>1. /\ thread[t].at = "spawn" /\ reader[generation] = "none"
        /\ UNCHANGED <<generation, ready, rejected, terminated, planned, slot, shutdown>>
    BY <1>1, <1>7 DEF Spawn, At, process, SupervisorInv, SpawnedOnce
  <2>2. CASE FailRestart(t) /\ faulted' = (faulted \/ ~Stopping) /\ UNCHANGED <<sidecar, reader>>
    <3>1. thread'[t].at \in {"status", "unmute", "idle"}
      BY <1>2, <1>3, <2>2 DEF FailRestart
    <3>2. (faulted => faulted') /\ (~Stopping => faulted')
      BY <2>2
    <3>3. CurrentIsRead'
      BY <1>1, <2>1, <2>2, <3>1 DEF SeenInv, CurrentIsRead, At
    <3>4. PlannedIsPast' /\ ReadersInTurn' /\ ExitIsSeen'
      BY <1>1, <2>1, <2>2, <3>2 DEF SeenInv, PlannedIsPast, ReadersInTurn, ExitIsSeen, Stopping
    <3>5. SlotIsFilled'
      BY <2>1, <3>2 DEF SlotIsFilled, Calm, Stopping
    <3> QED BY <3>3, <3>4, <3>5 DEF SeenInv
  <2>3. CASE Go(t, "store") /\ ReaderGoes(generation, "reading") /\ UNCHANGED faulted
             /\ sidecar' = [sidecar EXCEPT ![generation] = NewSidecar]
    <3>1. thread'[t].at = "store"
      BY <1>2, <1>3, <2>3
    <3>2. reader'[generation] = "reading" /\ \A g \in Generations \ {generation} : reader'[g] = reader[g]
      BY <1>1, <2>3 DEF ReaderGoes
    <3>3. CurrentIsRead'
      BY <1>1, <2>1, <3>2 DEF SeenInv, CurrentIsRead
    <3>4. PlannedIsPast' /\ ReadersInTurn' /\ ExitIsSeen'
      BY <1>1, <2>1, <2>3, <3>2 DEF SeenInv, PlannedIsPast, ReadersInTurn, ExitIsSeen, Stopping
    <3>5. SlotIsFilled'
      BY <3>1 DEF SlotIsFilled, Critical
    <3> QED BY <3>3, <3>4, <3>5 DEF SeenInv
  <2> QED BY <1>7, <2>2, <2>3 DEF Spawn
<1>8. CASE Store(t)
  <2>1. /\ thread[t].at = "store" /\ reader[generation] # "none"
        /\ UNCHANGED <<generation, ready, rejected, terminated, reader, shutdown, faulted>>
    BY <1>1, <1>8 DEF Store, At, SeenInv, CurrentIsRead
  <2>2. \A g \in Generations : sidecar'[g].alive => sidecar[g].alive
    BY <1>1, <1>8 DEF Store, Kill, NoSidecar
  <2>3. CurrentIsRead'
    BY <1>1, <2>1, <2>2 DEF SeenInv, CurrentIsRead
  <2>4. PlannedIsPast'
    <3>1. planned' \subseteq planned \union {generation} /\ (~Stopping => planned' = planned)
      BY <1>8 DEF Store
    <3> QED BY <1>1, <2>1, <3>1 DEF SeenInv, PlannedIsPast, Stopping
  <2>5. ReadersInTurn' /\ ExitIsSeen'
    BY <1>1, <2>1 DEF SeenInv, ReadersInTurn, ExitIsSeen, Stopping
  <2>6. SlotIsFilled'
    BY <1>1, <1>8, <2>1 DEF SlotIsFilled, Calm, Stopping, Store
  <2> QED BY <2>3, <2>4, <2>5, <2>6 DEF SeenInv
<1> QED BY <1>4, <1>5, <1>6, <1>7, <1>8 DEF RestartStep

LEMMA StepSees ==
    ASSUME SupervisorInv, SeenInv, [Next]_vars
    PROVE  SeenInv'
<1>1. CASE UNCHANGED vars
  BY <1>1 DEF vars, process, SeenInv, CurrentIsRead, PlannedIsPast, ExitIsSeen, ReadersInTurn, SlotIsFilled,
              Calm, Stopping, At
<1> QED BY <1>1, RequestSees, SurroundingsSee, RestartSees, StartupSees, DeviceSees DEF Next

\* A request under way that waits for the current generation, or not yet made:
\* it will be carried out.
Fresh(t) ==
    \/ request[t] = None
    \/ request[t].at \in {"wait", "gate", "sent"} /\ request[t].generation = generation

Sound(t) == Fresh(t) \/ (InRequest(t, "done") /\ Result(t) = "ok")

\* The thread will give the sidecar the graph.
GivesGraph(t) ==
    \/ At(t, "store")
    \/ thread[t].at \in {"restore", "status"} /\ Sound(t)
    \/ At(t, "graph") /\ Fresh(t)

\* The thread will release the mute.
Unmutes(t) ==
    \/ /\ t \in Device
       /\ \/ thread[t].at \in {"device", "gate", "command", "store", "restore", "status"}
          \/ At(t, "mute") /\ InRequest(t, "done") /\ Result(t) = "ok"
    \/ t \in Generations /\ startup = "completed" /\ (At(t, "store") \/ (At(t, "restore") /\ Sound(t)))
    \/ At(t, "graph") /\ Sound(t)
    \/ At(t, "unmute") /\ Fresh(t)

\* The startup transaction has released the mute of this generation.
Unmuted ==
    \/ startup = "completed"
    \/ /\ thread[Startup].expected = generation
       /\ \/ At(Startup, "check")
          \/ At(Startup, "unmute") /\ InRequest(Startup, "done") /\ Result(Startup) = "ok"

GraphOwed ==
    Calm /\ startup = "completed" /\ sidecar[generation].alive /\ ~sidecar[generation].graph
    => \E t \in Device \union Generations : GivesGraph(t)

MuteOwed ==
    Calm /\ Unmuted /\ sidecar[generation].alive /\ sidecar[generation].muted
    => \E t \in Device \union Generations : Unmutes(t)

RepairInv == PlacedInv /\ SeenInv /\ GraphOwed /\ MuteOwed

\* What the thread owed it still owes.
Carries(t) ==
    /\ startup = "completed" /\ GivesGraph(t) => GivesGraph(t)'
    /\ Unmutes(t) => Unmutes(t)'

\* It does where it stays and its request goes on.
LEMMA StayingCarries ==
    ASSUME NEW t \in Thread, thread'[t] = thread[t], startup = "completed" => startup' = "completed",
           Fresh(t) => Fresh(t)', InRequest(t, "done") => request'[t] = request[t]
    PROVE  Carries(t)
<1>1. Sound(t) => Sound(t)'
  BY DEF Sound, InRequest, Result
<1>2. GivesGraph(t) => GivesGraph(t)'
  BY <1>1 DEF GivesGraph, At
<1>3. Unmutes(t) => Unmutes(t)'
  BY <1>1 DEF Unmutes, At, InRequest, Result
<1> QED BY <1>2, <1>3 DEF Carries

\* What lives is written to, and what is sent is carried out.
LEMMA LivingIsHeard ==
    ASSUME SupervisorInv, SeenInv, Calm, sidecar[generation].alive
    PROVE  /\ reader[generation] = "reading" /\ terminated # generation
           /\ rejected = 0 /\ generation \in Nat \ {0}
           /\ slot = generation \/ commandGate # None
<1>1. generation \in Generations /\ Generations \subseteq Nat \ {0} /\ Device \union Generations \subseteq Thread
  BY BoundAssumption DEF SupervisorInv, SupervisorTypeOK, Generations, Thread
<1>2. reader[generation] = "reading" /\ terminated # generation /\ rejected = 0
  BY DEF SeenInv, CurrentIsRead, ReadersInTurn, Calm
<1>3. slot = generation \/ \E t \in Thread : thread[t].at \in Critical /\ t # None
  BY <1>1, NoneAssumption DEF SupervisorInv, OneSidecar, At, Critical
<1> QED BY <1>1, <1>2, <1>3 DEF SupervisorInv, GateHeld

\* A request that is not carried out goes on.
LEMMA FreshStays ==
    ASSUME SupervisorInv, PlacedInv, SeenInv, Calm, Calm', sidecar[generation].alive,
           NEW t \in Thread, RequestStep(t), ~Execute(t), Fresh(t)
    PROVE  Fresh(t)'
<1>1. request \in Requests /\ generation' = generation
  BY DEF SupervisorInv, SupervisorTypeOK, Requests, RequestStep, BeginRequest, AwaitReady, Send, TimeOut,
         RequestFrame, process
<1>2. request[t] # None => request[t] \in Request
  BY <1>1 DEF Requests
<1>3. /\ terminated # generation /\ rejected = 0 /\ generation \in Nat \ {0} /\ ~Stopping
      /\ slot = generation \/ commandGate # None
  BY LivingIsHeard DEF Calm
<1>4. CASE BeginRequest(t)
  <2> DEFINE new == [at |-> "wait", generation |-> generation, process |-> 0, result |-> None]
  <2>1. request'[t] = new
    BY <1>1, <1>3, <1>4 DEF BeginRequest, Requests
  <2> QED BY <1>1, <2>1 DEF Fresh
<1>5. CASE AwaitReady(t)
  <2>1. request[t].generation = generation
    BY <1>5 DEF AwaitReady, InRequest, Fresh
  <2>2. request' = [request EXCEPT ![t].at = "gate"]
    BY <1>3, <1>5, <2>1 DEF AwaitReady
  <2>3. request'[t].at = "gate" /\ request'[t].generation = generation
    BY <1>1, <1>2, <1>5, <2>1, <2>2 DEF AwaitReady, InRequest, Requests, Request
  <2> QED BY <1>1, <2>3 DEF Fresh
<1>6. CASE Send(t)
  <2>1. request[t].generation = generation /\ request[t].at = "gate"
    BY <1>6 DEF Send, InRequest, Fresh
  <2>2. IsReady(request[t].generation)
    BY <1>6, <2>1 DEF Send, InRequest, PlacedInv, Placed, IsReady
  <2>3. ~NobodyReads
    BY <1>3, <1>6 DEF Send, NobodyReads, SupervisorInv, SupervisorTypeOK
  <2>4. request' = [request EXCEPT ![t].at = "sent", ![t].process = slot]
    BY <1>6, <2>2, <2>3 DEF Send
  <2>5. request'[t].at = "sent" /\ request'[t].generation = generation
    BY <1>1, <1>2, <1>6, <2>1, <2>4 DEF Send, InRequest, Requests, Request
  <2> QED BY <1>1, <2>5 DEF Fresh
<1>7. CASE TimeOut(t)
  BY <1>7 DEF TimeOut, Fault, Calm
<1> QED BY <1>4, <1>5, <1>6, <1>7 DEF RequestStep

\* Requests repair what they are made for.
LEMMA RequestOwes ==
    ASSUME SupervisorInv, RestoreInv, RepairInv, NEW t \in Thread, RequestStep(t)
    PROVE  GraphOwed' /\ MuteOwed'
<1>1. /\ request \in Requests /\ sidecar \in [Generations -> Sidecar] /\ generation \in Generations
      /\ Startup \in Thread /\ Device \union Generations \subseteq Thread /\ thread \in Threads
  BY DEF SupervisorInv, SupervisorTypeOK, Requests, Thread, Threads
<1>2. UNCHANGED <<generation, thread, shutdown, startup>>
  BY DEF RequestStep, BeginRequest, AwaitReady, Send, Execute, TimeOut, RequestFrame, process
<1>3. \A u \in Thread \ {t} : request'[u] = request[u]
  BY <1>1 DEF RequestStep, BeginRequest, AwaitReady, Send, Execute, TimeOut, Answer, Requests
<1>4. \A u \in Thread \ {t} : Carries(u)
  <2>1. ASSUME NEW u \in Thread \ {t} PROVE Fresh(u) => Fresh(u)'
    BY <1>2, <1>3 DEF Fresh
  <2> QED BY <1>2, <1>3, <2>1, StayingCarries
<1>5. SUFFICES ASSUME Calm', sidecar'[generation].alive PROVE GraphOwed' /\ MuteOwed'
  BY <1>2 DEF GraphOwed, MuteOwed
<1>6. Calm /\ sidecar[generation].alive
  <2>1. ASSUME NEW s \in Sidecar, NEW at PROVE Effect(s, at).alive = s.alive
    BY DEF Effect, Sidecar
  <2>2. sidecar[generation].alive
    BY <1>1, <1>5, <2>1 DEF RequestStep, BeginRequest, AwaitReady, Send, Execute, TimeOut, RequestFrame
  <2>3. Calm
    BY <1>2, <1>5 DEF RequestStep, BeginRequest, AwaitReady, Send, Execute, TimeOut, RequestFrame, Calm,
                      Stopping, Fault, Faultless
  <2> QED BY <2>2, <2>3
<1>7. CASE ~Execute(t)
  <2>1. UNCHANGED sidecar
    BY <1>7 DEF RequestStep, BeginRequest, AwaitReady, Send, TimeOut, RequestFrame
  <2>2. ~InRequest(t, "done")
    BY <1>1, <1>7 DEF RequestStep, BeginRequest, AwaitReady, Send, TimeOut, InRequest
  <2>3. Carries(t)
    BY <1>2, <1>5, <1>6, <1>7, <2>2, FreshStays, StayingCarries DEF RepairInv
  <2>4. \A u \in Thread : Carries(u)
    BY <1>4, <2>3
  <2>5. InRequest(Startup, "done")' /\ Result(Startup)' = "ok" => InRequest(Startup, "done") /\ Result(Startup) = "ok"
    <3>1. ASSUME NEW result \in Failure, Answer(t, result) PROVE request'[t].result # "ok"
      BY <1>1, <3>1 DEF Answer, Done, Requests, Failure
    <3>2. ASSUME t = Startup, InRequest(t, "done")' PROVE \E result \in Failure : Answer(t, result)
      <4>1. ASSUME NEW r, request' = [request EXCEPT ![t] = r] PROVE request'[t] = r
        BY <1>1, <4>1 DEF Requests
      <4>2. CASE BeginRequest(t)
        BY <3>2, <4>1, <4>2 DEF BeginRequest, InRequest, Failure
      <4>3. CASE AwaitReady(t) \/ Send(t)
        <5>1. request[t] \in Request
          BY <1>1, <4>3 DEF AwaitReady, Send, InRequest, Requests
        <5>2. CASE request' = [request EXCEPT ![t].at = "gate"]
          BY <1>1, <3>2, <5>1, <5>2 DEF InRequest, Requests, Request
        <5>3. CASE request' = [request EXCEPT ![t].at = "wait", ![t].generation = generation]
          BY <1>1, <3>2, <5>1, <5>3 DEF InRequest, Requests, Request
        <5>4. CASE request' = [request EXCEPT ![t].at = "sent", ![t].process = slot]
          BY <1>1, <3>2, <5>1, <5>4 DEF InRequest, Requests, Request
        <5> QED BY <4>3, <5>2, <5>3, <5>4 DEF AwaitReady, Send, Failure
      <4>4. CASE TimeOut(t)
        BY <4>4 DEF TimeOut, Failure
      <4> QED BY <1>7, <4>2, <4>3, <4>4 DEF RequestStep
    <3> QED BY <1>1, <1>3, <3>1, <3>2 DEF InRequest, Result
  <2>6. Unmuted' => Unmuted
    BY <1>2, <2>5 DEF Unmuted, At
  <2>7. GraphOwed'
    BY <1>1, <1>2, <1>6, <2>1, <2>4 DEF RepairInv, GraphOwed, Carries
  <2>8. MuteOwed'
    BY <1>1, <1>2, <1>6, <2>1, <2>4, <2>6 DEF RepairInv, MuteOwed, Carries
  <2> QED BY <2>7, <2>8
<1>8. CASE Execute(t)
  <2> DEFINE at == thread[t].at
  <2>1. /\ request[t].at = "sent" /\ request[t].process = generation /\ request[t].generation = generation
        /\ request[t] # None /\ at \in Requesting
    BY <1>8 DEF Execute, RestoreInv, SentToCurrent, InRequest, SupervisorInv, CommandsReachTheirGeneration,
                RepairInv, PlacedInv, Placed
  <2>2. sidecar' = [sidecar EXCEPT ![generation] = Effect(@, at)] /\ Answer(t, "ok")
    BY <1>5, <1>8, <2>1 DEF Execute, Calm, Fault
  <2>3. sidecar'[generation] = Effect(sidecar[generation], at) /\ request'[t] = Done("ok")
    BY <1>1, <2>2 DEF Answer, Requests
  <2>4. InRequest(t, "done")' /\ Result(t)' = "ok" /\ Done("ok") # None
    <3>1. Done("ok") # None
      BY BoundAssumption, NoRequestAssumption DEF Done, Request
    <3> QED BY <2>3, <3>1 DEF InRequest, Result, Done
  <2>5. Sound(t)' /\ thread'[t] = thread[t]
    BY <1>2, <2>4 DEF Sound
  <2> HIDE DEF at
  <2>6. GraphOwed'
    <3>1. CASE at = "graph"
      BY <1>1, <1>2, <2>3, <3>1 DEF GraphOwed, Effect, Sidecar
    <3>2. CASE at # "graph"
      <4>1. sidecar'[generation].graph = sidecar[generation].graph
        BY <1>1, <2>3, <3>2 DEF Effect, Sidecar
      <4>2. GivesGraph(t) => GivesGraph(t)'
        BY <2>5, <3>2 DEF GivesGraph, At, at
      <4> QED BY <1>1, <1>2, <1>4, <1>6, <4>1, <4>2 DEF RepairInv, GraphOwed, Carries
    <3> QED BY <3>1, <3>2
  <2>7. MuteOwed'
    <3>1. CASE at \in {"unmute", "expose"}
      BY <1>1, <1>2, <2>3, <3>1 DEF MuteOwed, Effect, Sidecar
    <3>2. CASE at = "mute"
      <4>1. t \in Device
        BY <3>2 DEF RepairInv, PlacedInv, Placed, at
      <4>2. Unmutes(t)'
        BY <2>4, <2>5, <3>2, <4>1 DEF Unmutes, At, at
      <4> QED BY <4>1, <4>2 DEF MuteOwed
    <3>3. CASE at \notin {"unmute", "expose", "mute"}
      <4>1. sidecar'[generation].muted = sidecar[generation].muted
        BY <1>1, <2>3, <3>3 DEF Effect, Sidecar
      <4>2. Unmutes(t) => Unmutes(t)'
        BY <1>2, <2>5, <3>3 DEF Unmutes, At, at
      <4>3. Unmuted' => Unmuted
        BY <1>1, <1>2, <1>3, <3>3 DEF Unmuted, At, InRequest, Result, at
      <4> QED BY <1>1, <1>2, <1>4, <1>6, <4>1, <4>2, <4>3 DEF RepairInv, MuteOwed, Carries
    <3> QED BY <3>1, <3>2, <3>3
  <2> QED BY <2>6, <2>7
<1> QED BY <1>7, <1>8

\* The sidecar and its reader, and the Host's shutdown.
LEMMA SurroundingsOwe ==
    ASSUME SupervisorInv, RepairInv,
           (\E g \in Generations : SidecarStep(g)) \/ CancelWaits \/ ForceShutdown
    PROVE  GraphOwed' /\ MuteOwed'
<1>1. /\ request \in Requests /\ sidecar \in [Generations -> Sidecar] /\ generation \in Generations
      /\ Startup \in Thread /\ Device \union Generations \subseteq Thread /\ thread \in Threads
      /\ Startup \notin Generations /\ Generations \subseteq Nat /\ Device \intersect Generations = {}
  BY ThreadAssumption, BoundAssumption
     DEF SupervisorInv, SupervisorTypeOK, Requests, Thread, Threads, Generations
<1>2. UNCHANGED <<generation, startup>>
  BY DEF SidecarStep, Crash, ReadReady, EndOfOutput, HandleExit, CancelWaits, ForceShutdown, process
<1>3. SUFFICES ASSUME Calm', sidecar'[generation].alive PROVE GraphOwed' /\ MuteOwed'
  BY <1>2 DEF GraphOwed, MuteOwed
<1>4. PICK g \in Generations : SidecarStep(g)
  BY <1>3 DEF CancelWaits, ForceShutdown, Calm, Stopping
<1>5. Calm
  <2>1. UNCHANGED shutdown
    BY <1>4 DEF SidecarStep, Crash, ReadReady, EndOfOutput, HandleExit
  <2>2. CASE ReadReady(g)
    BY <1>3, <2>1, <2>2 DEF ReadReady, Calm, Stopping, Fault
  <2>3. CASE ~ReadReady(g)
    <3>1. UNCHANGED faulted
      BY <1>4, <2>3 DEF SidecarStep, Crash, EndOfOutput, HandleExit
    <3> QED BY <1>3, <2>1, <3>1 DEF Calm, Stopping
  <2> QED BY <2>2, <2>3
<1>6. sidecar'[generation] = sidecar[generation]
  BY <1>1, <1>3, <1>4 DEF SidecarStep, Crash, ReadReady, EndOfOutput, HandleExit, NoSidecar
<1>7. sidecar[generation].alive /\ reader[generation] = "reading"
  BY <1>3, <1>5, <1>6, LivingIsHeard DEF RepairInv
<1>8. \A u \in Thread : /\ thread'[u] = thread[u] \/ (thread[u].at = "idle" /\ u \in Generations)
                        /\ Fresh(u) => Fresh(u)'
                        /\ InRequest(u, "done") => request'[u] = request[u]
                        /\ InRequest(u, "done")' /\ Result(u)' = "ok" => request'[u] = request[u]
  <2>1. CASE Crash(g) \/ ReadReady(g) \/ EndOfOutput(g)
    <3>1. UNCHANGED <<thread, request>>
      BY <2>1 DEF Crash, ReadReady, EndOfOutput
    <3> QED BY <1>2, <3>1 DEF Fresh
  <2>2. CASE HandleExit(g)
    <3>1. thread[g].at = "idle" /\ \A u \in Thread \ {g} : thread'[u] = thread[u]
      BY <1>1, <2>2 DEF HandleExit, SupervisorInv, SpawnedOnce, Threads
    <3>2. g < generation
      BY <1>1, <1>7, <2>2 DEF HandleExit, SupervisorInv, SpawnedOnce
    <3>3. ready # generation
      BY <1>5, <2>2, <3>2 DEF HandleExit, RepairInv, SeenInv, ReadersInTurn, Calm
    <3>4. \A u \in Thread : Fresh(u) => request[u] = None \/ request[u].at # "sent"
      BY <3>3 DEF Fresh, RepairInv, PlacedInv, Placed
    <3>5. \A u \in Thread : request'[u] = IF request[u] # None /\ request[u].at = "sent" THEN Done("lost")
                                          ELSE request[u]
      BY <1>1, <2>2 DEF HandleExit, FailPending, Requests
    <3>6. \A u \in Thread : \/ request'[u] = request[u]
                            \/ InRequest(u, "sent") /\ request'[u].result = "lost"
      BY <3>5 DEF Done, InRequest
    <3> QED BY <1>1, <1>2, <3>1, <3>4, <3>6 DEF Fresh, InRequest, Result
  <2> QED BY <1>4, <2>1, <2>2 DEF SidecarStep
<1>9. \A u \in Device \union Generations : Carries(u)
  <2> SUFFICES ASSUME NEW u \in Device \union Generations PROVE Carries(u)
    OBVIOUS
  <2>1. CASE thread'[u] = thread[u]
    BY <1>1, <1>2, <1>8, <2>1, StayingCarries
  <2>2. CASE thread[u].at = "idle" /\ u \in Generations
    BY <1>1, <2>2 DEF Carries, GivesGraph, Unmutes, At
  <2> QED BY <1>1, <1>8, <2>1, <2>2
<1>10. Unmuted' => Unmuted
  <2>1. thread'[Startup] = thread[Startup]
    BY <1>1, <1>8
  <2>2. InRequest(Startup, "done")' /\ Result(Startup)' = "ok" => request'[Startup] = request[Startup]
    BY <1>1, <1>8
  <2> QED BY <1>2, <2>1, <2>2 DEF Unmuted, At, InRequest, Result
<1> QED BY <1>2, <1>5, <1>6, <1>9, <1>10 DEF RepairInv, GraphOwed, MuteOwed, Carries

\* Who restarts a sidecar repairs it.
LEMMA RestartOwes ==
    ASSUME SupervisorInv, RestoreInv, RepairInv, SeenInv', NEW t \in Device \union Generations, RestartStep(t)
    PROVE  GraphOwed' /\ MuteOwed'
<1>1. /\ request \in Requests /\ sidecar \in [Generations -> Sidecar] /\ generation \in Generations
      /\ Startup \in Thread /\ Device \union Generations \subseteq Thread /\ thread \in Threads
      /\ Generations \subseteq Nat /\ Device \intersect Generations = {}
  BY ThreadAssumption, BoundAssumption
     DEF SupervisorInv, SupervisorTypeOK, Requests, Thread, Threads, Generations
<1>2. t \in Thread /\ t # Startup /\ \A u \in Thread \ {t} : thread'[u] = thread[u]
  BY RestartGoes
<1>3. UNCHANGED <<startup, shutdown>> /\ (faulted => faulted')
  <2>1. UNCHANGED <<startup, shutdown>>
    BY DEF RestartStep, TakeRestartGate, JoinRestart, Replace, Confirm, Spawn, Store, Restored, Handler
  <2>2. UNCHANGED faulted \/ faulted' = TRUE \/ faulted' = (faulted \/ ~Stopping)
    BY DEF RestartStep, TakeRestartGate, JoinRestart, Replace, Confirm, Spawn, Store, Restored, Handler,
           Unaffected, Fault
  <2>3. faulted => faulted'
    BY <2>2
  <2> QED BY <2>1, <2>3
<1>4. SUFFICES ASSUME Calm', sidecar'[generation'].alive PROVE GraphOwed' /\ MuteOwed'
  BY DEF GraphOwed, MuteOwed
<1>5. Calm /\ reader'[generation'] = "reading"
  BY <1>3, <1>4 DEF Calm, Stopping, SeenInv, CurrentIsRead
<1>6. ~Replace(t)
  BY <1>1, <1>5, BoundAssumption DEF Replace, NextGeneration, SupervisorInv, SpawnedOnce, Generations
<1>7. ~Confirm(t)
  BY <1>1, <1>2, <1>5 DEF Confirm, At, SupervisorInv, SpawnedOnce
<1>8. generation' = generation
  BY <1>6 DEF RestartStep, TakeRestartGate, JoinRestart, Confirm, Spawn, Store, Restored, Handler,
              Unaffected, process
<1>9. request' = request \/ request' = [request EXCEPT ![t] = None]
  BY <1>6 DEF RestartStep, TakeRestartGate, JoinRestart, Confirm, Spawn, Store, Restored, Handler, Then, Finish
<1>10. \A u \in Thread \ {t} : request'[u] = request[u] /\ Carries(u)
  <2> SUFFICES ASSUME NEW u \in Thread \ {t} PROVE request'[u] = request[u] /\ Carries(u)
    OBVIOUS
  <2>1. request'[u] = request[u]
    BY <1>1, <1>9 DEF Requests
  <2>2. Fresh(u) => Fresh(u)'
    BY <1>8, <2>1 DEF Fresh
  <2> QED BY <1>2, <1>3, <2>1, <2>2, StayingCarries
<1>11. Unmuted' <=> Unmuted
  BY <1>1, <1>2, <1>3, <1>8, <1>10 DEF Unmuted, At, InRequest, Result
<1>12. /\ {"command", "store", "restore", "graph", "status", "unmute", "idle"} \subseteq ThreadAt
       /\ \A ok : AfterRestart(t, ok) \in {"status", "unmute", "idle"}
       /\ \A ok : AfterRestart(t, ok) = IF t \in Device THEN IF ok THEN "status" ELSE "unmute" ELSE "idle"
  BY AfterRestartPoint DEF ThreadAt, Requesting, AfterRestart
<1>13. ASSUME NEW at \in ThreadAt, Go(t, at) PROVE thread'[t].at = at
  BY <1>1, <1>2, <1>13, GoMoves
<1>14. ASSUME Carries(t), sidecar'[generation] = sidecar[generation] PROVE GraphOwed' /\ MuteOwed'
  BY <1>1, <1>3, <1>4, <1>5, <1>8, <1>10, <1>11, <1>14 DEF RepairInv, GraphOwed, MuteOwed, Carries
<1>15. thread[t].at \notin Requesting => request[t] = None
  BY <1>2 DEF RepairInv, PlacedInv, Placed
<1>16. CASE TakeRestartGate(t)
  <2>1. thread'[t].at = "command" /\ UNCHANGED sidecar /\ thread[t].at = "gate"
    BY <1>5, <1>12, <1>13, <1>16 DEF TakeRestartGate, Calm, Unaffected, At
  <2>2. Carries(t)
    BY <2>1 DEF Carries, GivesGraph, Unmutes, At
  <2> QED BY <1>14, <2>1, <2>2
<1>17. CASE JoinRestart(t)
  <2>1. thread[t].at = "command" /\ UNCHANGED sidecar /\ request' = request
    BY <1>17 DEF JoinRestart, Unaffected, At
  <2>2. Fresh(t)' /\ Sound(t)'
    BY <1>15, <2>1 DEF Requesting, Fresh, Sound
  <2>3. t \in Device => thread'[t].at \in {"status", "unmute"}
    BY <1>12, <1>13, <1>17 DEF JoinRestart
  <2>4. Carries(t)
    BY <1>1, <2>1, <2>2, <2>3 DEF Carries, GivesGraph, Unmutes, At
  <2> QED BY <1>14, <2>1, <2>4
<1>18. CASE Spawn(t)
  <2>1. thread'[t].at = "store" /\ reader[generation] = "none"
    <3>1. reader[generation] = "none"
      BY <1>2, <1>18 DEF Spawn, At, SupervisorInv, SpawnedOnce
    <3>2. Go(t, "store")
      BY <1>5, <1>8, <1>18, <3>1 DEF Spawn
    <3> QED BY <1>12, <1>13, <3>1, <3>2
  <2>2. GivesGraph(t)'
    BY <2>1 DEF GivesGraph, At
  <2>3. Unmuted => startup = "completed"
    BY <1>1, <2>1 DEF Unmuted, RestoreInv, StartupRestored, Whole, At
  <2>4. Unmuted' => Unmutes(t)'
    BY <1>3, <1>11, <2>1, <2>3 DEF Unmutes, At
  <2> QED BY <2>2, <2>4 DEF GraphOwed, MuteOwed
<1>19. CASE Store(t)
  <2>1. thread[t].at = "store" /\ thread'[t].at = "restore" /\ UNCHANGED <<sidecar, request>>
    BY <1>5, <1>12, <1>13, <1>19 DEF Store, Calm, At
  <2>2. Sound(t)'
    BY <1>15, <2>1 DEF Requesting, Fresh, Sound
  <2>3. Carries(t)
    BY <1>3, <2>1, <2>2 DEF Carries, GivesGraph, Unmutes, At
  <2> QED BY <1>14, <2>1, <2>3
<1>20. CASE Restored(t)
  <2>1. /\ thread[t].at = "restore" /\ InRequest(t, "done") /\ UNCHANGED sidecar /\ request'[t] = None
    BY <1>1, <1>2, <1>20 DEF Restored, Answered, At, Unaffected, Then, Finish, Requests
  <2>2. Fresh(t)' /\ Sound(t)' /\ (Sound(t) => Result(t) = "ok")
    BY <2>1 DEF Fresh, Sound, InRequest
  <2>3. /\ t \in Device => thread'[t].at = IF Result(t) = "ok" THEN "status" ELSE "unmute"
        /\ t \in Generations /\ Result(t) = "ok" /\ startup = "completed" => thread'[t].at = "graph"
    BY <1>1, <1>12, <1>13, <1>20 DEF Restored, Notifies, Then
  <2>4. Carries(t)
    BY <1>1, <2>1, <2>2, <2>3 DEF Carries, GivesGraph, Unmutes, At
  <2> QED BY <1>14, <2>1, <2>4
<1>21. CASE Handler(t)
  <2>1. /\ t \in Generations /\ thread[t].at \in {"graph", "unmute"} /\ InRequest(t, "done")
        /\ UNCHANGED sidecar /\ request'[t] = None
    BY <1>1, <1>2, <1>21 DEF Handler, Answered, At, Unaffected, Then, Finish, Requests
  <2>2. Fresh(t)' /\ ~Fresh(t) /\ (Sound(t) => Result(t) = "ok")
    BY <2>1 DEF Fresh, Sound, InRequest
  <2>3. thread[t].at = "graph" /\ Result(t) = "ok" => thread'[t].at = "unmute"
    BY <1>12, <1>13, <1>21 DEF Handler, Answered, At, Then
  <2>4. Carries(t)
    BY <1>1, <2>1, <2>2, <2>3 DEF Carries, GivesGraph, Unmutes, At
  <2> QED BY <1>14, <2>1, <2>4
<1> QED BY <1>6, <1>7, <1>16, <1>17, <1>18, <1>19, <1>20, <1>21 DEF RestartStep

\* The startup transaction is over when the graph is there and the mute gone.
LEMMA StartupOwes ==
    ASSUME SupervisorInv, RestoreInv, RepairInv, StartupStep
    PROVE  GraphOwed' /\ MuteOwed'
<1>1. /\ thread \in Threads /\ request \in Requests /\ Startup \in Thread
      /\ Startup \notin Device \union Generations /\ Device \union Generations \subseteq Thread
      /\ generation \in 0 .. MaxGeneration
  BY ThreadAssumption, BoundAssumption
     DEF SupervisorInv, SupervisorTypeOK, Requests, Threads, Thread, Generations
<1>2. UNCHANGED <<process, reader, sidecar, shutdown, faulted>>
  BY DEF StartupStep, BeginStartup, StartupStatus, StartupNext, StartupGraph, StartupUnmuted,
         StartupChecked, RetryStartup, StartupQuiet, Unaffected
<1> DEFINE points == {"idle", "begin", "next", "unmute", "expose", "check"}
<1>3. points \subseteq ThreadAt
  BY DEF ThreadAt, Requesting
<1>4. ASSUME NEW at \in points, Go(Startup, at)
      PROVE  /\ thread'[Startup].at = at /\ (at # "idle" => thread'[Startup].expected = thread[Startup].expected)
             /\ \A u \in Thread \ {Startup} : thread'[u] = thread[u]
  <2>1. thread'[Startup].at = at /\ \A u \in Thread \ {Startup} : thread'[u] = thread[u]
    BY <1>1, <1>3, <1>4, GoMoves
  <2> QED BY <1>1, <1>4, <2>1 DEF Go, Threads, ThreadState
<1>5. /\ thread'[Startup].at \in points \union {"status", "graph"}
      /\ \A u \in Thread \ {Startup} : thread'[u] = thread[u]
  <2>1. CASE \E at \in points : Go(Startup, at)
    BY <1>4, <2>1
  <2>2. CASE \E at \in {"status", "graph"} :
               thread' = [thread EXCEPT ![Startup] = [at |-> at, expected |-> generation]]
    BY <1>1, <2>2 DEF Threads
  <2> QED BY <2>1, <2>2
             DEF StartupStep, BeginStartup, StartupStatus, StartupNext, StartupGraph, StartupUnmuted,
                 StartupChecked, RetryStartup, StartupFails, StartupRetries, Then
<1>6. request' = request \/ request' = [request EXCEPT ![Startup] = None]
  BY DEF StartupStep, BeginStartup, StartupStatus, StartupNext, StartupGraph, StartupUnmuted,
         StartupChecked, RetryStartup, StartupFails, StartupRetries, Then, Finish
<1>7. startup = "completed" => FALSE
  BY DEF StartupStep, BeginStartup, StartupStatus, StartupNext, StartupGraph, StartupUnmuted,
         StartupChecked, RetryStartup, Answered, At, RepairInv, PlacedInv
<1>8. \A u \in Device \union Generations : Carries(u)
  <2> SUFFICES ASSUME NEW u \in Device \union Generations PROVE Carries(u)
    OBVIOUS
  <2>1. request'[u] = request[u] /\ thread'[u] = thread[u]
    BY <1>1, <1>5, <1>6 DEF Requests
  <2>2. Fresh(u) => Fresh(u)'
    BY <1>2, <2>1 DEF Fresh, process
  <2> QED BY <1>1, <1>7, <2>1, <2>2, StayingCarries
<1>9. startup' = "completed" => At(Startup, "check") /\ thread[Startup].expected = generation
  BY <1>7 DEF StartupStep, BeginStartup, StartupStatus, StartupNext, StartupGraph, StartupUnmuted,
              StartupChecked, RetryStartup, StartupFails, StartupRetries, Answered, CanComplete, Transitioned
<1>10. GraphOwed'
  <2>1. startup' = "completed" => Whole(generation)
    BY <1>9 DEF RestoreInv, StartupRestored, At
  <2> QED BY <1>2, <2>1 DEF GraphOwed, Whole, process
<1>11. Unmuted' => Unmuted
  <2>1. CASE startup' = "completed"
    BY <1>9, <2>1 DEF Unmuted
  <2>2. CASE StartupUnmuted /\ Then(Startup, {"check"})
    <3>1. Result(Startup) = "ok" /\ Answered(Startup, "unmute")
      BY <1>4, <1>5, <2>2 DEF StartupUnmuted, StartupFails, StartupRetries, Then
    <3>2. thread'[Startup].expected = thread[Startup].expected
      BY <1>4, <2>2 DEF Then
    <3> QED BY <1>2, <1>9, <3>1, <3>2 DEF Unmuted, Answered, process
  <2>3. CASE ~(StartupUnmuted /\ Then(Startup, {"check"}))
    <3>1. thread'[Startup].at # "check"
      BY <1>1, <1>4, <2>3
         DEF StartupStep, BeginStartup, StartupStatus, StartupNext, StartupGraph, StartupUnmuted,
             StartupChecked, RetryStartup, StartupFails, StartupRetries, Then, Threads
    <3>2. thread'[Startup].at = "unmute" => request'[Startup] = None
      BY <1>1, <1>4
         DEF StartupStep, BeginStartup, StartupStatus, StartupNext, StartupGraph, StartupUnmuted,
             StartupChecked, RetryStartup, StartupFails, StartupRetries, Then, Finish, Threads, Requests
    <3> QED BY <1>9, <3>1, <3>2 DEF Unmuted, At, InRequest
  <2> QED BY <2>2, <2>3
<1>12. MuteOwed'
  BY <1>2, <1>8, <1>11 DEF RepairInv, MuteOwed, Calm, Stopping, Carries, process
<1> QED BY <1>10, <1>12

\* A device thread that muted the sidecar unmutes it.
LEMMA DeviceOwes ==
    ASSUME SupervisorInv, RepairInv, NEW t \in Device, DeviceStep(t)
    PROVE  GraphOwed' /\ MuteOwed'
<1>1. /\ thread \in Threads /\ request \in Requests /\ t \in Thread /\ t # Startup /\ Startup \in Thread
      /\ t \notin Generations /\ Device \union Generations \subseteq Thread /\ generation \in 0 .. MaxGeneration
  BY ThreadAssumption, BoundAssumption
     DEF SupervisorInv, SupervisorTypeOK, Requests, Threads, Thread, Generations
<1>2. UNCHANGED <<process, reader, sidecar, shutdown, faulted, startup>>
  BY DEF DeviceStep, BeginDevice, DeviceMuted, DeviceAnswered, DeviceRestored, DeviceQuiet
<1> DEFINE points == {"idle", "mute", "gate", "graph", "unmute"}
<1>3. points \subseteq ThreadAt
  BY DEF ThreadAt, Requesting
<1>4. ASSUME NEW at \in points, Go(t, at)
      PROVE  thread'[t].at = at /\ \A u \in Thread \ {t} : thread'[u] = thread[u]
  BY <1>1, <1>3, <1>4, GoMoves
<1>5. ASSUME thread' = [thread EXCEPT ![t] = [at |-> "device", expected |-> generation]]
      PROVE  thread'[t].at = "device" /\ \A u \in Thread \ {t} : thread'[u] = thread[u]
  BY <1>1, <1>5 DEF Threads
<1>6. \A u \in Thread \ {t} : thread'[u] = thread[u]
  BY <1>4, <1>5 DEF DeviceStep, BeginDevice, DeviceMuted, DeviceAnswered, DeviceRestored, Then
<1>7. request' = request \/ request' = [request EXCEPT ![t] = None]
  BY DEF DeviceStep, BeginDevice, DeviceMuted, DeviceAnswered, DeviceRestored, Then, Finish
<1>8. \A u \in Thread \ {t} : request'[u] = request[u] /\ Carries(u)
  <2> SUFFICES ASSUME NEW u \in Thread \ {t} PROVE request'[u] = request[u] /\ Carries(u)
    OBVIOUS
  <2>1. request'[u] = request[u]
    BY <1>1, <1>7 DEF Requests
  <2>2. Fresh(u) => Fresh(u)'
    BY <1>2, <2>1 DEF Fresh, process
  <2> QED BY <1>2, <1>6, <2>1, <2>2, StayingCarries
<1>9. Carries(t)
  <2>1. CASE BeginDevice(t)
    BY <1>1, <2>1 DEF BeginDevice, Carries, GivesGraph, Unmutes, At
  <2>2. CASE DeviceMuted(t) \/ DeviceAnswered(t) \/ DeviceRestored(t)
    <3>1. InRequest(t, "done") /\ request'[t] = None
      BY <1>1, <2>2 DEF DeviceMuted, DeviceAnswered, DeviceRestored, Answered, Then, Finish, Requests
    <3>2. Fresh(t)' /\ Sound(t)' /\ ~Fresh(t) /\ (Sound(t) => Result(t) = "ok")
      BY <3>1 DEF Fresh, Sound, InRequest
    <3>3. CASE DeviceMuted(t)
      <4>1. thread[t].at = "mute" /\ (Result(t) = "ok" => thread'[t].at \in {"device", "unmute"})
        BY <1>4, <1>5, <3>3 DEF DeviceMuted, Answered, At
      <4> QED BY <3>2, <4>1 DEF Carries, GivesGraph, Unmutes, At
    <3>4. CASE DeviceAnswered(t)
      <4>1. thread[t].at = "device" /\ thread'[t].at \in {"graph", "gate", "unmute"}
        BY <1>4, <3>4 DEF DeviceAnswered, Answered, At, Then
      <4> QED BY <3>2, <4>1 DEF Carries, GivesGraph, Unmutes, At
    <3>5. CASE DeviceRestored(t)
      <4>1. \/ thread[t].at = "status" /\ thread'[t].at = IF Result(t) = "ok" THEN "graph" ELSE "unmute"
            \/ thread[t].at = "graph" /\ (Result(t) = "ok" => thread'[t].at = "unmute")
            \/ thread[t].at = "unmute"
        BY <1>4, <3>5 DEF DeviceRestored, Answered, At, Then
      <4> QED BY <1>1, <3>2, <4>1 DEF Carries, GivesGraph, Unmutes, At
    <3> QED BY <2>2, <3>3, <3>4, <3>5
  <2> QED BY <2>1, <2>2 DEF DeviceStep
<1>10. \A u \in Device \union Generations : Carries(u)
  BY <1>1, <1>8, <1>9
<1>11. Unmuted' <=> Unmuted
  BY <1>1, <1>2, <1>6, <1>8 DEF Unmuted, At, InRequest, Result, process
<1>12. GraphOwed'
  BY <1>2, <1>10 DEF RepairInv, GraphOwed, Calm, Stopping, Carries, process
<1>13. MuteOwed'
  BY <1>2, <1>10, <1>11 DEF RepairInv, MuteOwed, Calm, Stopping, Carries, process
<1> QED BY <1>12, <1>13

\* RepairInv holds in every reachable state.
THEOREM RepairHolds == SupervisorSpec => []RepairInv
<1>1. Init => RepairInv
  <2> SUFFICES ASSUME Init PROVE RepairInv
    OBVIOUS
  <2>1. /\ \A t \in Thread : thread[t].at \in {"begin", "idle"} /\ request[t] = None
        /\ Startup \in Thread /\ thread[Startup].at = "begin" /\ startup = "pending"
    BY DEF Init, Idle, Thread
  <2>2. /\ generation = 1 /\ 1 \in Generations /\ ready = 0 /\ rejected = 0 /\ terminated = 0 /\ planned = {}
        /\ reader[1] \in {"none", "reading"} /\ (slot # 0 => reader[1] = "reading")
        /\ sidecar[1].alive => reader[1] = "reading"
        /\ slot = 0 => faulted
    <3>1. generation = 1 /\ 1 \in Generations /\ ready = 0 /\ rejected = 0 /\ terminated = 0 /\ planned = {}
      BY BoundAssumption DEF Init, Generations
    <3>2. PICK spawned \in BOOLEAN :
            /\ slot = IF spawned THEN 1 ELSE 0
            /\ sidecar = [g \in Generations |-> IF spawned /\ g = 1 THEN NewSidecar ELSE NoSidecar]
            /\ reader = [g \in Generations |-> IF spawned /\ g = 1 THEN "reading" ELSE "none"]
            /\ faulted = ~spawned
      BY DEF Init
    <3>3. CASE spawned
      BY <3>1, <3>2, <3>3
    <3>4. CASE ~spawned
      BY <3>1, <3>2, <3>4 DEF NoSidecar
    <3> QED BY <3>1, <3>3, <3>4
  <2>3. PlacedInv
    BY <2>1 DEF PlacedInv, Placed
  <2>4. SeenInv
    BY <2>1, <2>2 DEF SeenInv, CurrentIsRead, PlannedIsPast, ExitIsSeen, ReadersInTurn, SlotIsFilled, Calm, At
  <2>5. GraphOwed /\ MuteOwed
    BY <2>1 DEF GraphOwed, MuteOwed, Unmuted, At
  <2> QED BY <2>3, <2>4, <2>5 DEF RepairInv
<1>2. SupervisorInv /\ RestoreInv /\ RepairInv /\ [Next]_vars => RepairInv'
  <2>1. ASSUME SupervisorInv, RestoreInv, RepairInv, [Next]_vars PROVE PlacedInv' /\ SeenInv'
    BY <2>1, StepPlaces, StepSees DEF RepairInv
  <2>2. ASSUME RepairInv, UNCHANGED vars PROVE GraphOwed' /\ MuteOwed'
    BY <2>2 DEF vars, process, RepairInv, GraphOwed, MuteOwed, GivesGraph, Unmutes, Unmuted, Fresh, Sound,
                Calm, Stopping, At, InRequest, Result
  <2>3. ASSUME SupervisorInv, RestoreInv, RepairInv, SeenInv', Next PROVE GraphOwed' /\ MuteOwed'
    BY <2>3, RequestOwes, SurroundingsOwe, RestartOwes, StartupOwes, DeviceOwes DEF Next
  <2> QED BY <2>1, <2>2, <2>3 DEF RepairInv
<1> QED BY <1>1, <1>2, InvHolds, RestorationHolds, PTL DEF SupervisorSpec

\* CrashesAreRepaired: a Host that completed its startup and meets nothing
\* worse than unexpected exits comes to rest only with a sidecar that plays
\* the canonical graph unmuted, whatever restarts and recoveries overlapped.
THEOREM RestIsRepaired == SupervisorSpec => []CrashesAreRepaired
<1>1. SupervisorInv /\ RepairInv => CrashesAreRepaired
  <2> SUFFICES ASSUME SupervisorInv, RepairInv, ~faulted, Quiet, ~Stopping, startup = "completed"
               PROVE  slot # 0 /\ sidecar[slot].graph /\ ~sidecar[slot].muted
    BY DEF CrashesAreRepaired
  <2>1. /\ generation \in Generations /\ Device \union Generations \subseteq Thread
        /\ reader[generation] \in ReaderAt /\ \A t \in Thread : thread[t].at = "idle"
        /\ sidecar[generation] \in Sidecar
    BY DEF SupervisorInv, SupervisorTypeOK, Thread, Quiet, At
  <2>2. slot # 0 /\ slot = generation
    BY <2>1 DEF RepairInv, SeenInv, SlotIsFilled, Calm, Critical, SupervisorInv, SlotIsCurrent
  <2>3. reader[generation] = "reading"
    BY <2>1, <2>2 DEF RepairInv, SeenInv, CurrentIsRead, ExitIsSeen, Quiet, ReaderAt
  <2>4. sidecar[generation].alive
    BY <2>1, <2>3 DEF Quiet
  <2>5. \A t \in Device \union Generations : ~GivesGraph(t) /\ ~Unmutes(t)
    BY <2>1 DEF GivesGraph, Unmutes, At
  <2>6. sidecar[generation].graph /\ ~sidecar[generation].muted
    BY <2>4, <2>5 DEF RepairInv, GraphOwed, MuteOwed, Unmuted, Calm
  <2> QED BY <2>2, <2>6
<1> QED BY <1>1, InvHolds, RepairHolds, PTL
=============================================================================

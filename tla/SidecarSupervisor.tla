-------------------------- MODULE SidecarSupervisor --------------------------
(***************************************************************************)
(* AudioSupervisor of riffra-runtime/src/audio: one audio sidecar at a     *)
(* time, numbered by generations, and the threads that talk to it.         *)
(*                                                                         *)
(*   sidecar_process.rs   generations, readiness, terminations, the child  *)
(*   command_bus.rs       requests                                         *)
(*   lifecycle.rs         spawn, the stdout reader, restart, shutdown      *)
(*   startup.rs           the startup safety transaction                   *)
(*   host/audio.rs        audio device recovery                            *)
(*                                                                         *)
(* A sidecar starts with the engine transition mute engaged and without a  *)
(* timeline graph.  The commands that matter here mute, unmute and project *)
(* the canonical graph; apply_and_wait is one such command, answered ok if *)
(* the generation that carried it out is still the current one.            *)
(***************************************************************************)
EXTENDS Naturals, FiniteSets

CONSTANTS Startup,         \* the startup thread
          Device,          \* threads that recover the audio device
          None,
          MaxGeneration,   \* bound on sidecar processes
          MaxCommand       \* bound on audio device recoveries

Generations == 1 .. MaxGeneration

ASSUME BoundAssumption == MaxGeneration \in Nat \ {0} /\ MaxCommand \in Nat
ASSUME ThreadAssumption == Startup \notin Nat \union Device /\ Device \intersect Nat = {}

\* The recovery thread of a generation is named by the generation.
Thread == {Startup} \union Device \union Generations

ASSUME NoneAssumption == None \notin Thread \union STRING

VARIABLES generation,   \* SidecarProcess.generation
          ready,        \* .ready_generation
          rejected,     \* .startup_failure's generation, 0 for none
          terminated,   \* .terminated_generation
          confirmed,    \* .terminated_generations
          planned,      \* .planned_terminations
          slot,         \* .child: the generation of the process it owns, 0 for none
          shutdown,     \* "no", "cancelled" once shutting_down is set, then "done"
          startup,      \* startup_state
          outcomes,     \* RecoveryState.restart_outcomes
          restartGate,  \* who holds RecoveryState.restart_gate
          commandGate,  \* who holds SidecarProcess.command_gate across steps
          sidecar,      \* the processes
          reader,       \* their stdout readers
          thread,       \* where each thread is
          request,      \* the request it is making: CommandBus.pending
          commands,     \* audio device recoveries so far
          faulted       \* whether anything but an unexpected exit went wrong

process == <<generation, ready, rejected, terminated, confirmed, planned, slot>>
gates == <<restartGate, commandGate>>
vars == <<process, gates, shutdown, startup, outcomes, sidecar, reader, thread, request, commands,
          faulted>>

ReaderAt == {"none", "reading", "exit", "gone"}
Failure == {"lost", "timeout", "changed", "stopping", "failed"}
\* A thread at one of these points makes a request.
Requesting == {"restore", "mute", "device", "status", "graph", "unmute", "expose", "check"}
ThreadAt == Requesting \union
    {"idle", "gate", "command", "confirm", "spawn", "store", "begin", "next"}
ThreadState == [at : ThreadAt, expected : 0 .. MaxGeneration]
Sidecar == [alive : BOOLEAN, muted : BOOLEAN, graph : BOOLEAN]
Request == [at : {"wait", "gate", "sent", "done"}, generation : 0 .. MaxGeneration,
            process : 0 .. MaxGeneration, result : Failure \union {"ok", None}]

ASSUME NoRequestAssumption == None \notin Request

SupervisorTypeOK ==
    /\ generation \in Generations
    /\ {ready, rejected, terminated, slot} \subseteq 0 .. MaxGeneration
    /\ {confirmed, planned} \subseteq SUBSET Generations
    /\ shutdown \in {"no", "cancelled", "done"}
    /\ startup \in {"pending", "completed", "failed"}
    /\ outcomes \in [Generations -> {"ok", "failed", None}]
    /\ restartGate \in Thread \union {None} /\ commandGate \in Thread \union {None}
    /\ sidecar \in [Generations -> Sidecar]
    /\ reader \in [Generations -> ReaderAt]
    /\ thread \in [Thread -> ThreadState]
    /\ request \in [Thread -> Request \union {None}]
    /\ commands \in Nat /\ faulted \in BOOLEAN

Idle == [at |-> "idle", expected |-> 0]
NewSidecar == [alive |-> TRUE, muted |-> TRUE, graph |-> FALSE]
NoSidecar == [alive |-> FALSE, muted |-> TRUE, graph |-> FALSE]
Stopping == shutdown # "no"

\* AudioSupervisor::start, whose spawn may have failed, and the startup thread
Init ==
    /\ generation = 1 /\ ready = 0 /\ rejected = 0 /\ terminated = 0
    /\ confirmed = {} /\ planned = {}
    /\ shutdown = "no" /\ startup = "pending"
    /\ outcomes = [g \in Generations |-> None]
    /\ restartGate = None /\ commandGate = None
    /\ \E spawned \in BOOLEAN :
         /\ slot = IF spawned THEN 1 ELSE 0
         /\ sidecar = [g \in Generations |-> IF spawned /\ g = 1 THEN NewSidecar ELSE NoSidecar]
         /\ reader = [g \in Generations |-> IF spawned /\ g = 1 THEN "reading" ELSE "none"]
         /\ faulted = ~spawned
    /\ thread = [t \in Thread |-> IF t = Startup THEN [Idle EXCEPT !.at = "begin"] ELSE Idle]
    /\ request = [t \in Thread |-> None]
    /\ commands = 0

At(t, at) == thread[t].at = at
Go(t, at) ==
    thread' = [thread EXCEPT ![t] = IF at = "idle" THEN Idle ELSE [@ EXCEPT !.at = at]]
Faultless == UNCHANGED faulted
Fault == faulted' = TRUE

\* is_ready
IsReady(g) == generation = g /\ ready = g

\* sidecar_transitioned
Transitioned(g) == generation # g \/ terminated = g

Done(result) == [at |-> "done", generation |-> 0, process |-> 0, result |-> result]

\* fail_pending_requests
FailPending(result) ==
    request' = [t \in Thread |->
        IF request[t] # None /\ request[t].at = "sent" THEN Done(result) ELSE request[t]]

-----------------------------------------------------------------------------
(* Requests (request_inner).                                               *)

Answer(t, result) == request' = [request EXCEPT ![t] = Done(result)]

RequestFrame == UNCHANGED <<process, gates, shutdown, startup, outcomes, sidecar, reader, thread,
                            commands, faulted>>

\* It reads the generation it will wait for.
BeginRequest(t) ==
    /\ thread[t].at \in Requesting /\ request[t] = None
    /\ IF Stopping
       THEN Answer(t, "stopping")
       ELSE request' = [request EXCEPT ![t] =
                [at |-> "wait", generation |-> generation, process |-> 0, result |-> None]]
    /\ RequestFrame

InRequest(t, at) == request[t] # None /\ request[t].at = at

\* wait_until_ready
AwaitReady(t) ==
    /\ InRequest(t, "wait")
    /\ LET g == request[t].generation
       IN \/ IsReady(g) /\ request' = [request EXCEPT ![t].at = "gate"]
          \/ generation # g /\ Answer(t, "changed")
          \/ ~IsReady(g) /\ generation = g /\ rejected = g /\ Answer(t, "failed")
          \/ ~IsReady(g) /\ generation = g /\ terminated = g /\ rejected # g /\ Answer(t, "lost")
          \/ ~IsReady(g) /\ Stopping /\ Answer(t, "stopping")
    /\ RequestFrame

\* The write fails: there is no process, or it has ended.
NobodyReads == \A g \in Generations : slot = g => ~sidecar[g].alive

\* Mutant: the generation is not looked at again under the gate.
SendUnchecked(t) ==
    /\ InRequest(t, "gate") /\ commandGate = None
    /\ \/ /\ slot # 0
          /\ request' = [request EXCEPT ![t].at = "sent", ![t].process = slot]
       \/ /\ NobodyReads
          /\ Answer(t, "lost")
    /\ RequestFrame

\* Under the command gate: another try for a new generation, up to the third,
\* or the write, which may still succeed when the process has just ended.
Send(t) ==
    /\ InRequest(t, "gate") /\ commandGate = None
    /\ \/ /\ ~IsReady(request[t].generation)
          /\ \/ request' = [request EXCEPT ![t].at = "wait", ![t].generation = generation]
             \/ Answer(t, "changed")
       \/ /\ IsReady(request[t].generation) /\ slot # 0
          /\ request' = [request EXCEPT ![t].at = "sent", ![t].process = slot]
       \/ /\ IsReady(request[t].generation)
          /\ NobodyReads
          /\ Answer(t, "lost")
    /\ RequestFrame

\* What the command at this point does to the sidecar.
Effect(s, at) ==
    CASE at = "graph" -> [s EXCEPT !.graph = TRUE]
      [] at = "mute" -> [s EXCEPT !.muted = TRUE]
      [] at \in {"unmute", "expose"} -> [s EXCEPT !.muted = FALSE]
      [] OTHER -> s

\* The sidecar carries a command out or refuses it; the answer arrives when
\* the reader still serves the current generation, or too late.
Execute(t) ==
    /\ InRequest(t, "sent")
    /\ LET g == request[t].process
           Heard == reader[g] = "reading" /\ generation = g
       IN /\ sidecar[g].alive
          /\ \/ /\ sidecar' = [sidecar EXCEPT ![g] = Effect(@, thread[t].at)]
                /\ \/ Heard /\ Answer(t, "ok") /\ Faultless
                   \/ Answer(t, "timeout") /\ Fault
             \/ Heard /\ Answer(t, "failed") /\ Fault /\ UNCHANGED sidecar
    /\ UNCHANGED <<process, gates, shutdown, startup, outcomes, reader, thread, commands>>

\* Neither readiness nor an answer came in time.
TimeOut(t) ==
    /\ InRequest(t, "wait") \/ InRequest(t, "sent")
    /\ Answer(t, "timeout")
    /\ Fault
    /\ UNCHANGED <<process, gates, shutdown, startup, outcomes, sidecar, reader, thread, commands>>

RequestStep(t) == BeginRequest(t) \/ AwaitReady(t) \/ Send(t) \/ Execute(t) \/ TimeOut(t)

\* The request made at this point is over.
Answered(t, at) == At(t, at) /\ InRequest(t, "done")
Result(t) == request[t].result
Finish(t) == request' = [request EXCEPT ![t] = None]

\* The thread goes on at one of several points.
Then(t, points) ==
    /\ Finish(t)
    /\ \E at \in points : Go(t, at)

Unaffected == UNCHANGED <<process, sidecar, reader, commands, faulted>>

-----------------------------------------------------------------------------
(* The sidecar and its stdout reader.                                      *)

\* Mutant: the handle is dropped, which leaves the process running.
DropHandle(g) == sidecar' = [sidecar EXCEPT ![g] = @]

\* ChildProcess::kill, which waits for the end
Kill(g) == sidecar' = [sidecar EXCEPT ![g] = NoSidecar]

\* The sidecar ends unexpectedly.
Crash(g) ==
    /\ sidecar[g].alive /\ g < MaxGeneration
    /\ sidecar' = [sidecar EXCEPT ![g] = NoSidecar]
    /\ UNCHANGED <<process, gates, shutdown, startup, outcomes, reader, thread, request, commands,
                   faulted>>

ReaderGoes(g, at) == reader' = [reader EXCEPT ![g] = at]

\* A ready event of the current generation: mark_ready, or fail_startup for
\* another protocol version.  That the reader of an earlier process is still
\* at work then counts as a fault.
ReadReady(g) ==
    /\ reader[g] = "reading" /\ generation = g /\ ready # g /\ rejected # g
    /\ \/ /\ ready' = g /\ UNCHANGED rejected
          /\ faulted' = (faulted \/ \E h \in 1 .. g - 1 : reader[h] \in {"reading", "exit"})
       \/ rejected' = g /\ UNCHANGED ready /\ Fault
    /\ UNCHANGED <<generation, terminated, confirmed, planned, slot, gates, shutdown, startup,
                   outcomes, sidecar, reader, thread, request, commands>>

MarkTerminated(g) ==
    /\ terminated' = IF g > terminated THEN g ELSE terminated
    /\ confirmed' = confirmed \union {g}

\* The output ended, or a line arrived for another generation: the reader
\* marks the end, first thing of handle_sidecar_exit or its last.
EndOfOutput(g) ==
    /\ reader[g] = "reading"
    /\ ~sidecar[g].alive \/ generation # g
    /\ ReaderGoes(g, IF generation = g THEN "exit" ELSE "gone")
    /\ MarkTerminated(g)
    /\ UNCHANGED <<generation, ready, rejected, planned, slot, gates, shutdown, startup, outcomes,
                   sidecar, thread, request, commands, faulted>>

\* The rest of handle_sidecar_exit: it fails whatever is pending, of whatever
\* generation, and starts recovery unless the end was planned.
HandleExit(g) ==
    /\ reader[g] = "exit"
    /\ ReaderGoes(g, "gone")
    /\ MarkTerminated(g)
    /\ FailPending("lost")
    /\ planned' = planned \ {g}
    /\ IF g \in planned \/ Stopping
       THEN UNCHANGED thread
       ELSE thread' = [thread EXCEPT ![g] = [at |-> "gate", expected |-> g]]
    /\ UNCHANGED <<generation, ready, rejected, slot, gates, shutdown, startup, outcomes, sidecar,
                   commands, faulted>>

SidecarStep(g) == Crash(g) \/ ReadReady(g) \/ EndOfOutput(g) \/ HandleExit(g)

-----------------------------------------------------------------------------
(* restart_sidecar_with_timeout, on a recovery or a device thread.         *)

\* Mutant: the notifying and the plain restart are confused.
NotifiesDevice(t) == t \in Device

\* notify_runtime_restart
Notifies(t) == t \in Generations

\* What a caller does with the result: recovery is over, a device thread
\* looks at the restored status or ends its transition.
AfterRestart(t, ok) ==
    IF t \in Device THEN IF ok THEN "status" ELSE "unmute" ELSE "idle"

TakeRestartGate(t) ==
    /\ At(t, "gate") /\ restartGate = None
    /\ IF Stopping
       THEN Go(t, AfterRestart(t, FALSE)) /\ UNCHANGED restartGate
       ELSE Go(t, "command") /\ restartGate' = t
    /\ UNCHANGED <<commandGate, shutdown, startup, outcomes, request>> /\ Unaffected

\* Somebody else replaced this generation; its outcome counts.
JoinRestart(t) ==
    /\ At(t, "command") /\ commandGate = None
    /\ generation # thread[t].expected
    /\ Go(t, AfterRestart(t, outcomes[thread[t].expected] = "ok"))
    /\ restartGate' = None
    /\ UNCHANGED <<commandGate, shutdown, startup, outcomes, request>> /\ Unaffected

\* next_generation
NextGeneration(g) == g + 1

\* Mutant: the generation is read after next_generation.
GenerationAfter(g) == g + 1

\* previous_generation, read before next_generation
PreviousGeneration(g) == g

\* Retires the current process.
Replace(t) ==
    /\ At(t, "command") /\ commandGate = None
    /\ generation = thread[t].expected /\ generation < MaxGeneration
    /\ commandGate' = t
    /\ generation' = NextGeneration(generation)
    /\ FailPending("lost")
    /\ IF slot # 0
       THEN /\ planned' = planned \union {PreviousGeneration(generation)}
            /\ Kill(slot)
            /\ slot' = 0
            /\ Go(t, "confirm")
       ELSE /\ Go(t, "spawn")
            /\ UNCHANGED <<planned, sidecar, slot>>
    /\ UNCHANGED <<ready, rejected, terminated, confirmed, restartGate, shutdown, startup,
                   outcomes, reader, commands, faulted>>

\* record_restart_outcome with an error, before there is a new process
FailRestart(t) ==
    /\ Go(t, AfterRestart(t, FALSE))
    /\ outcomes' = [outcomes EXCEPT ![thread[t].expected] = "failed"]
    /\ restartGate' = None /\ commandGate' = None

\* wait_for_termination
Confirm(t) ==
    /\ At(t, "confirm")
    /\ \/ /\ thread[t].expected \in confirmed
          /\ confirmed' = confirmed \ {thread[t].expected}
          /\ Go(t, "spawn")
          /\ UNCHANGED <<gates, outcomes, faulted>>
       \/ /\ FailRestart(t)
          /\ Fault
          /\ UNCHANGED confirmed
    /\ UNCHANGED <<generation, ready, rejected, terminated, planned, slot, shutdown, startup,
                   sidecar, reader, request, commands>>

\* spawn_sidecar
Spawn(t) ==
    /\ At(t, "spawn")
    /\ \/ /\ ~Stopping
          /\ sidecar' = [sidecar EXCEPT ![generation] = NewSidecar]
          /\ ReaderGoes(generation, "reading")
          /\ Go(t, "store")
          /\ UNCHANGED <<gates, outcomes, faulted>>
       \/ /\ FailRestart(t)
          /\ faulted' = (faulted \/ ~Stopping)
          /\ UNCHANGED <<sidecar, reader>>
    /\ UNCHANGED <<process, shutdown, startup, request, commands>>

\* The new process is handed over, or killed when the Host shut down meanwhile.
Store(t) ==
    /\ At(t, "store")
    /\ IF Stopping
       THEN /\ planned' = planned \union {generation}
            /\ Kill(generation)
            /\ FailRestart(t)
            /\ UNCHANGED slot
       ELSE /\ slot' = generation
            /\ commandGate' = None
            /\ Go(t, "restore")
            /\ UNCHANGED <<planned, sidecar, restartGate, outcomes>>
    /\ UNCHANGED <<generation, ready, rejected, terminated, confirmed, shutdown, startup,
                   reader, request, commands, faulted>>

\* Mutant: the gate is free before the runtime is restored.
GateDropped(t) == None

\* _restart_gate lives until the function returns.
GateKept(t) == t

\* restore_runtime_controls is done: the outcome is recorded, and recovery
\* calls the runtime restart handler, with the restart gate held.
Restored(t) ==
    /\ Answered(t, "restore")
    /\ LET ok == Result(t) = "ok"
       IN /\ outcomes' = [outcomes EXCEPT ![thread[t].expected] = IF ok THEN "ok" ELSE "failed"]
          /\ IF Notifies(t) /\ ok /\ startup = "completed"
             THEN Then(t, {"graph"}) /\ restartGate' = GateKept(t)
             ELSE Then(t, {AfterRestart(t, ok)}) /\ restartGate' = None
    /\ UNCHANGED <<commandGate, shutdown, startup>> /\ Unaffected

\* The runtime restart handler: the canonical graph, then the mute.
Handler(t) ==
    /\ t \in Generations
    /\ \/ Answered(t, "graph") /\ Result(t) = "ok" /\ Then(t, {"unmute"}) /\ UNCHANGED restartGate
       \/ Answered(t, "graph") /\ Result(t) # "ok" /\ Then(t, {"idle"}) /\ restartGate' = None
       \/ Answered(t, "unmute") /\ Then(t, {"idle"}) /\ restartGate' = None
    /\ UNCHANGED <<commandGate, shutdown, startup, outcomes>> /\ Unaffected

RestartStep(t) ==
    \/ TakeRestartGate(t) \/ JoinRestart(t) \/ Replace(t) \/ Confirm(t) \/ Spawn(t)
    \/ Store(t) \/ Restored(t) \/ Handler(t)

-----------------------------------------------------------------------------
(* The startup transaction (initialize_runtime).                           *)

StartupQuiet == UNCHANGED <<gates, shutdown, outcomes>> /\ Unaffected

\* mark_startup_failed
StartupFails == startup' = "failed" /\ Then(Startup, {"idle"})

\* `continue`, or the end of the last of three attempts
StartupRetries ==
    \/ Then(Startup, {"begin"}) /\ UNCHANGED startup
    \/ StartupFails

\* initialize_audio_safety takes the generation it will make safe.
BeginStartup ==
    /\ At(Startup, "begin")
    /\ IF Stopping
       THEN StartupFails
       ELSE /\ thread' = [thread EXCEPT ![Startup] = [at |-> "status", expected |-> generation]]
            /\ UNCHANGED <<startup, request>>
    /\ StartupQuiet

\* should_wait_for_next_generation
NeedsNextGeneration(result) ==
    generation # thread[Startup].expected \/ result \in {"lost", "changed"}
        \/ terminated = thread[Startup].expected

\* The status is safe, or not (safe_for_startup_restore), or an error.  The
\* generation to restore is read again, after the last check.
StartupStatus ==
    /\ Answered(Startup, "status")
    /\ LET result == Result(Startup)
       IN \/ result = "ok" /\ Transitioned(thread[Startup].expected) /\ StartupRetries
          \/ /\ result = "ok" /\ ~Transitioned(generation)
             /\ Finish(Startup)
             /\ thread' = [thread EXCEPT ![Startup] = [at |-> "graph", expected |-> generation]]
             /\ UNCHANGED startup
          \/ result = "ok" /\ StartupFails
          \/ /\ result # "ok" /\ NeedsNextGeneration(result)
             /\ Then(Startup, {"next"}) /\ UNCHANGED startup
          \/ /\ result = "timeout" /\ ~NeedsNextGeneration(result)
             /\ StartupRetries
          \/ /\ result \in {"failed", "stopping"} /\ ~NeedsNextGeneration(result)
             /\ StartupFails
    /\ StartupQuiet

\* wait_for_next_generation
StartupNext ==
    /\ At(Startup, "next")
    /\ \/ generation > thread[Startup].expected /\ Then(Startup, {"begin"}) /\ UNCHANGED startup
       \/ StartupFails
    /\ StartupQuiet

\* restore_startup_runtime is done; release_startup_mute_for_target begins,
\* after a failed restoration too.  Another target starts again.
StartupGraph ==
    /\ Answered(Startup, "graph")
    /\ \/ StartupRetries
       \/ /\ ~Transitioned(thread[Startup].expected)
          /\ Then(Startup, {IF Result(Startup) = "ok" THEN "unmute" ELSE "expose"})
          /\ UNCHANGED startup
    /\ StartupQuiet

\* The rest of release_startup_mute.
StartupUnmuted ==
    /\ \/ /\ Answered(Startup, "unmute")
          /\ IF Result(Startup) # "ok" THEN StartupFails
             ELSE IF Transitioned(thread[Startup].expected) THEN StartupRetries
             ELSE Then(Startup, {"check"}) /\ UNCHANGED startup
       \/ /\ Answered(Startup, "expose")
          /\ IF Result(Startup) = "ok" /\ Transitioned(thread[Startup].expected)
             THEN StartupRetries
             ELSE StartupFails
    /\ StartupQuiet

\* Mutant: the generation is not looked at again.
CompletesAnyway(g) == g \in Generations

\* mark_startup_completed
CanComplete(g) == ~Transitioned(g)

\* refresh_status, and the transaction is complete.
StartupChecked ==
    /\ Answered(Startup, "check")
    /\ IF Result(Startup) # "ok" THEN StartupFails
       ELSE IF CanComplete(thread[Startup].expected)
       THEN startup' = "completed" /\ Then(Startup, {"idle"})
       ELSE StartupRetries
    /\ StartupQuiet

\* retry_runtime_startup
RetryStartup ==
    /\ At(Startup, "idle") /\ startup = "failed" /\ ~Stopping
    /\ startup' = "pending"
    /\ Go(Startup, "begin")
    /\ UNCHANGED request
    /\ StartupQuiet

StartupStep ==
    \/ BeginStartup \/ StartupStatus \/ StartupNext \/ StartupGraph \/ StartupUnmuted
    \/ StartupChecked \/ RetryStartup

-----------------------------------------------------------------------------
(* Recovery of the audio device (recover_audio_device, set_audio_driver)   *)
(* inside run_audio_transition.                                            *)

DeviceQuiet == UNCHANGED <<process, gates, shutdown, startup, outcomes, sidecar, reader, faulted>>

BeginDevice(t) ==
    /\ At(t, "idle") /\ commands < MaxCommand /\ ~Stopping
    /\ commands' = commands + 1
    /\ Go(t, "mute")
    /\ UNCHANGED request
    /\ DeviceQuiet

\* The transition began, or ends as the transport could not be stopped.  The
\* generation is read before the device command.
DeviceMuted(t) ==
    /\ Answered(t, "mute")
    /\ Finish(t)
    /\ \/ /\ Result(t) = "ok"
          /\ thread' = [thread EXCEPT ![t] = [at |-> "device", expected |-> generation]]
       \/ Result(t) = "ok" /\ Go(t, "unmute")
       \/ Result(t) # "ok" /\ Go(t, "idle")
    /\ UNCHANGED commands
    /\ DeviceQuiet

\* device_command_requires_restart; a rejection may have restored the
\* previous device, which needs the graph again.
DeviceAnswered(t) ==
    /\ Answered(t, "device")
    /\ LET result == Result(t)
       IN \/ result = "ok" /\ Then(t, {"graph"})
          \/ result \in {"lost", "timeout"} /\ Then(t, {"gate"})
          \/ result = "failed" /\ Then(t, {"graph", "unmute"})
          \/ result \in {"changed", "stopping"} /\ Then(t, {"unmute"})
    /\ UNCHANGED commands
    /\ DeviceQuiet

\* After a restart refresh_status, then the graph; graph_failed keeps the
\* mute, everything else releases it.
DeviceRestored(t) ==
    /\ \/ /\ Answered(t, "status")
          /\ Then(t, {IF Result(t) = "ok" THEN "graph" ELSE "unmute"})
       \/ /\ Answered(t, "graph")
          /\ Then(t, {IF Result(t) = "ok" THEN "unmute" ELSE "idle"})
       \/ Answered(t, "unmute") /\ Then(t, {"idle"})
    /\ UNCHANGED commands
    /\ DeviceQuiet

DeviceStep(t) == BeginDevice(t) \/ DeviceMuted(t) \/ DeviceAnswered(t) \/ DeviceRestored(t)

-----------------------------------------------------------------------------
(* Shutdown of the Host.                                                   *)

\* cancel_waits_for_shutdown
CancelWaits ==
    /\ shutdown = "no"
    /\ shutdown' = "cancelled"
    /\ FailPending("stopping")
    /\ UNCHANGED <<process, gates, startup, outcomes, sidecar, reader, thread, commands, faulted>>

\* Mutant: shutdown does not wait for a restart that is spawning.
CanForceEarly == shutdown = "cancelled"

\* force_shutdown takes the command gate.
CanForce == shutdown = "cancelled" /\ commandGate = None

ForceShutdown ==
    /\ CanForce
    /\ shutdown' = "done"
    /\ FailPending("stopping")
    /\ IF slot # 0
       THEN planned' = planned \union {generation} /\ Kill(slot) /\ slot' = 0
       ELSE UNCHANGED <<planned, sidecar, slot>>
    /\ UNCHANGED <<generation, ready, rejected, terminated, confirmed, gates, startup, outcomes,
                   reader, thread, commands, faulted>>

Next ==
    \/ \E t \in Thread : RequestStep(t)
    \/ \E g \in Generations : SidecarStep(g)
    \/ \E t \in Device \union Generations : RestartStep(t)
    \/ StartupStep
    \/ \E t \in Device : DeviceStep(t)
    \/ CancelWaits \/ ForceShutdown

SupervisorSpec == Init /\ [][Next]_vars

\* Readers and the threads that restart are scheduled.
Fairness ==
    /\ \A g \in Generations : WF_vars(EndOfOutput(g) \/ HandleExit(g))
    /\ \A t \in Device \union Generations : WF_vars(RequestStep(t) \/ RestartStep(t))

FairSupervisor == SupervisorSpec /\ Fairness

-----------------------------------------------------------------------------
(* Properties.                                                             *)

\* A living sidecar is the one in the slot, or about to be put there by the
\* restart that spawned it: there is never a second process, whatever
\* recoveries, device restarts and crashes overlap (restart_gate, the
\* generation check and the kill of lifecycle.rs).
OneSidecar ==
    \A g \in Generations : sidecar[g].alive =>
        slot = g \/ (generation = g /\ \E t \in Device \union Generations : At(t, "store"))

\* Once force_shutdown has returned no sidecar runs, also when a restart was
\* spawning one meanwhile (lifecycle.rs: the command gate, and the looks at
\* shutting_down before and after the spawn).
NoSidecarAfterShutdown == shutdown = "done" => \A g \in Generations : ~sidecar[g].alive

\* A command that waited for one generation is never written to the process
\* of another (request_inner's second look under the command gate).
CommandsReachTheirGeneration ==
    \A t \in Thread : request[t] # None /\ request[t].at = "sent" =>
        request[t].process = request[t].generation

\* What thread t unmutes at the end of a restoration holds the graph.
UnmutesRestored(t) ==
    (At(t, "unmute") /\ InRequest(t, "sent")) =>
        LET g == request[t].process IN sidecar[g].graph \/ ~sidecar[g].alive

\* The runtime restart handler never unmutes a sidecar that has not been
\* given the canonical graph: no other restart can come between its two
\* requests (host/lifecycle.rs, under restart_gate).
RecoveryUnmutesRestored == \A t \in Generations : UnmutesRestored(t)

\* Neither does the startup transaction: "a generation change never exposes
\* partially restored audio" (startup.rs).
StartupUnmutesRestored == UnmutesRestored(Startup)

\* Startup is completed only while no sidecar runs without the graph: one
\* that replaced the restored one is not passed over (mark_startup_completed).
StartupIsRestored ==
    [][startup # "completed" /\ startup' = "completed" =>
          \A g \in Generations : sidecar[g].alive => sidecar[g].graph]_vars

\* Nothing is under way.
Quiet ==
    /\ \A t \in Thread : At(t, "idle")
    /\ \A g \in Generations : reader[g] = "reading" => sidecar[g].alive
    /\ \A g \in Generations : reader[g] # "exit"

\* When nothing but unexpected exits goes wrong, a Host that once completed
\* its startup comes to rest only with a sidecar that is unmuted and holds
\* the graph: whoever replaces a process, somebody restores it.
CrashesAreRepaired ==
    (~faulted /\ Quiet /\ ~Stopping /\ startup = "completed") =>
        slot # 0 /\ sidecar[slot].graph /\ ~sidecar[slot].muted

\* A sidecar that ended unexpectedly is retired, unless the Host stops.
CrashIsReplaced ==
    \A g \in Generations \ {MaxGeneration} :
        (generation = g /\ slot = g /\ ~sidecar[g].alive) ~> (generation # g \/ Stopping)
=============================================================================

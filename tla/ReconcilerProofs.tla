--------------------------- MODULE ReconcilerProofs ---------------------------
(***************************************************************************)
(* The execution lease belongs to exactly the thread that is inside a      *)
(* transport operation, and playback begins only for a Play that is still  *)
(* wanted, for any number of callers, players, graphs and commands.        *)
(*                                                                         *)
(* Who holds the lease is read off the positions of the threads, so the    *)
(* first is inductive once the hooks that wait for the lease are told from *)
(* those that hold it.  The second rests on the first: between the look    *)
(* that finds the intent and the native Play only the holder of the lease  *)
(* may change the intent.                                                  *)
(***************************************************************************)
EXTENDS Reconciler, TLAPS

\* The hooks that hold the lease.
PlayHook == [at |-> "play"]
StopHook == [at |-> "stop"]

\* Threads have a hook each, players a position each.
Shapes ==
    /\ hook = [t \in Thread |-> hook[t]]
    /\ player = [p \in Player |-> player[p]]
    /\ \A p \in Player : "at" \in DOMAIN player[p]

\* Whoever is about to play, or waits for the graph to play, has an intent.
PlaysForIntent ==
    /\ \A t \in Thread : hook[t] = PlayHook => intent # None
    /\ \A p \in Player : player[p].at \in {"check", "play"} => intent # None

\* A player inside an operation is not inside one of its hook, which would drop
\* its lease.
OneOperation ==
    \A p \in Player : hook[p] \in {PlayHook, StopHook} => player[p].at \notin Leased

\* The keys a Play may come to require, and the operations that count them: an
\* intent is built from these.
KeysKnown ==
    /\ operations \in Nat
    /\ core.key \in Key
    /\ call = [c \in Caller |-> call[c]]
    /\ \A c \in Caller : call[c].at # "idle" => "key" \in DOMAIN call[c] /\ call[c].key \in Key
    /\ \A p \in Player : player[p].at = "wantPlay" => player[p].intent.key \in Key

\* The inductive invariant is LeaseInv /\ KeysKnown.
LeaseInv == Shapes /\ LeaseIsHeld /\ OneOperation /\ PlaysForIntent

-----------------------------------------------------------------------------
(* Hooks.                                                                  *)

\* A hook that begins does not hold the lease.
LEMMA HookForWaits ==
    ASSUME NEW status
    PROVE  HookFor(status) \notin {PlayHook, StopHook}
<1>1. None \notin {PlayHook, StopHook}
  BY NothingAssumption DEF Hook, PlayHook, StopHook
<1>2. CASE status.state = "active" /\ status.active # None
  <2>1. HookFor(status) = [at |-> "active", key |-> status.active]
    BY <1>2 DEF HookFor
  <2>2. HookFor(status).at = "active"
    BY <2>1
  <2> QED BY <2>2 DEF PlayHook, StopHook
<1>3. CASE ~(status.state = "active" /\ status.active # None) /\ status.state = "failed" /\ status.target # None
  <2>1. HookFor(status) = [at |-> "failed", key |-> status.target]
    BY <1>3 DEF HookFor
  <2>2. HookFor(status).at = "failed"
    BY <2>1
  <2> QED BY <2>2 DEF PlayHook, StopHook
<1>4. CASE ~(status.state = "active" /\ status.active # None) /\ ~(status.state = "failed" /\ status.target # None)
  <2>1. HookFor(status) = None
    BY <1>4 DEF HookFor
  <2> QED BY <1>1, <2>1
<1> QED BY <1>2, <1>3, <1>4

\* Publishing begins a hook on thread t and leaves the other hooks alone.
LEMMA PublishBegins ==
    ASSUME Shapes, NEW t \in Thread, Publish(t) \/ Republish(t)
    PROVE  /\ hook' = [u \in Thread |-> hook'[u]]
           /\ hook'[t] \notin {PlayHook, StopHook}
           /\ \A u \in Thread \ {t} : hook'[u] = hook[u]
<1>1. None \notin {PlayHook, StopHook}
  BY NothingAssumption DEF Hook, PlayHook, StopHook
<1>2. HookFor(Status(machine')) \notin {PlayHook, StopHook}
  BY HookForWaits
<1>3. PICK h : h \notin {PlayHook, StopHook} /\ hook' = [hook EXCEPT ![t] = h]
  BY <1>1, <1>2 DEF Publish, Republish
<1> QED BY <1>3 DEF Shapes

-----------------------------------------------------------------------------
(* Steps.                                                                  *)

\* A thread of the coordinator moves on, and its step may begin a hook.
LEMMA CoordinatorMoves ==
    ASSUME LeaseInv, NEW t \in Caller \union {"worker"}, hook[t] = None,
           Publish(t) \/ Republish(t), UNCHANGED <<transportVars, player>>
    PROVE  LeaseInv'
<1>1. t \in Thread /\ t \notin Player
  BY PlayerAssumption DEF Thread
<1>2. /\ hook' = [u \in Thread |-> hook'[u]]
      /\ hook'[t] \notin {PlayHook, StopHook}
      /\ \A u \in Thread \ {t} : hook'[u] = hook[u]
  BY <1>1, PublishBegins DEF LeaseInv
<1>3. hook[t] \notin {PlayHook, StopHook}
  BY NothingAssumption DEF Hook, PlayHook, StopHook
<1>4. \A u \in Thread : /\ hook'[u] = PlayHook <=> hook[u] = PlayHook
                        /\ hook'[u] = StopHook <=> hook[u] = StopHook
  BY <1>2, <1>3
<1>5. Shapes'
  BY <1>2 DEF LeaseInv, Shapes
<1>6. LeaseIsHeld'
  BY <1>4 DEF LeaseInv, LeaseIsHeld, PlayHook, StopHook, transportVars
<1>7. PlaysForIntent'
  BY <1>4 DEF LeaseInv, PlaysForIntent, transportVars
<1>8. OneOperation'
  BY <1>1, <1>4 DEF LeaseInv, OneOperation, Thread, transportVars
<1> QED BY <1>5, <1>6, <1>7, <1>8 DEF LeaseInv

\* A hook takes the lease, plays or stops under it, and drops it.
LEMMA HookMoves ==
    ASSUME LeaseInv, NEW t \in Thread, HookStep(t)
    PROVE  LeaseInv'
<1> USE DEF LeaseInv, PlayHook, StopHook
<1>1. None \notin {PlayHook, StopHook} /\ None \notin Thread
  BY NothingAssumption DEF Hook
<1>2. CASE RunHook(t)
  <2>1. /\ lease = None /\ player' = player
        /\ hook[t] \notin {PlayHook, StopHook}
        /\ \/ hook' = [hook EXCEPT ![t] = PlayHook] /\ lease' = t /\ intent' = intent /\ intent # None
           \/ hook' = [hook EXCEPT ![t] = StopHook] /\ lease' = t /\ intent' = None
           \/ hook' = [hook EXCEPT ![t] = None] /\ lease' = lease /\ intent' = intent
    BY <1>2 DEF RunHook, Satisfied
  <2>2. Shapes'
    BY <2>1 DEF Shapes
  <2>3. \A u \in Thread : /\ hook[u] \notin {PlayHook, StopHook}
                          /\ u \in Player => player[u].at \notin Leased
    BY <1>1, <2>1 DEF LeaseIsHeld
  <2>4. LeaseIsHeld'
    BY <1>1, <2>1, <2>3 DEF Shapes, LeaseIsHeld
  <2>5. PlaysForIntent'
    <3>1. \A p \in Player : player[p].at \notin {"check", "play"}
      BY <2>3 DEF Thread, Leased
    <3>2. PlayHook # StopHook
      OBVIOUS
    <3>3. hook' = [hook EXCEPT ![t] = PlayHook] => intent' # None
      BY <2>1, <3>2, <1>1 DEF Shapes
    <3>4. \A u \in Thread \ {t} : hook'[u] = hook[u]
      BY <2>1 DEF Shapes
    <3>5. hook'[t] = PlayHook => hook' = [hook EXCEPT ![t] = PlayHook]
      BY <2>1, <3>2, <1>1 DEF Shapes
    <3> QED BY <2>1, <2>3, <3>1, <3>3, <3>4, <3>5 DEF PlaysForIntent
  <2>6. OneOperation'
    BY <2>1, <2>3 DEF OneOperation, Thread
  <2> QED BY <2>2, <2>4, <2>5, <2>6
<1>3. CASE HookPlays(t) \/ HookStops(t)
  <2>1. /\ hook[t] \in {PlayHook, StopHook} /\ player' = player
        /\ hook' = [hook EXCEPT ![t] = None] /\ lease' = None
    BY <1>3 DEF HookPlays, HookStops
  <2>2. Shapes'
    BY <2>1 DEF Shapes
  <2>3. \A u \in Thread : /\ u # t => hook[u] \notin {PlayHook, StopHook}
                          /\ u \in Player /\ u # t => player[u].at \notin Leased
    BY <2>1 DEF LeaseIsHeld
  <2>4. /\ hook'[t] = None
        /\ \A u \in Thread \ {t} : hook'[u] = hook[u]
    BY <2>1 DEF Shapes
  <2>5. t \in Player => player[t].at \notin Leased
    BY <2>1 DEF OneOperation
  <2>6. LeaseIsHeld'
    BY <1>1, <2>1, <2>3, <2>4, <2>5 DEF LeaseIsHeld
  <2>7. PlaysForIntent'
    BY <1>1, <2>1, <2>3, <2>4, <2>5 DEF PlaysForIntent, Leased, Thread
  <2>8. OneOperation'
    BY <1>1, <2>1, <2>4 DEF OneOperation, Thread
  <2> QED BY <2>2, <2>6, <2>7, <2>8
<1> QED BY <1>2, <1>3 DEF HookStep

\* A player moves to `next`: it holds the lease afterwards exactly when that is
\* a place inside an operation, nobody else's lease changes, and it changes
\* the intent only while nobody else can be about to play.
LEMMA PlayerMoves ==
    ASSUME LeaseInv, NEW p \in Player, NEW next, "at" \in DOMAIN next,
           hook[p] = None, hook' = hook \/ Publish(p),
           player' = [player EXCEPT ![p] = next],
           next.at \in Leased <=> lease' = p,
           lease' = lease \/ (lease \in {None, p} /\ lease' \in {None, p}),
           intent' = intent \/ lease \in {None, p},
           next.at \in {"check", "play"} => intent' # None
    PROVE  LeaseInv'
<1>1. p \in Thread /\ None \notin {PlayHook, StopHook} /\ None \notin Thread
  BY NothingAssumption DEF Hook, PlayHook, StopHook, Thread
<1>2. /\ hook' = [u \in Thread |-> hook'[u]]
      /\ hook'[p] \notin {PlayHook, StopHook}
      /\ \A u \in Thread \ {p} : hook'[u] = hook[u]
  BY <1>1, PublishBegins DEF LeaseInv, Shapes
<1>3. /\ player' = [q \in Player |-> player'[q]]
      /\ player'[p] = next
      /\ \A q \in Player \ {p} : player'[q] = player[q]
  BY DEF LeaseInv, Shapes
<1>4. Shapes'
  BY <1>2, <1>3 DEF LeaseInv, Shapes
<1>5. LeaseIsHeld'
  <2>1. lease' = p <=> next.at \in Leased
    OBVIOUS
  <2>2. \A u \in Thread \ {p} : lease' = u <=> lease = u
    BY <1>1
  <2> QED BY <1>1, <1>2, <1>3, <2>1, <2>2 DEF LeaseInv, LeaseIsHeld, PlayHook, StopHook
<1>6. PlaysForIntent'
  <2>1. \A u \in Thread \ {p} : hook[u] = PlayHook => lease = u
    BY DEF LeaseInv, LeaseIsHeld, PlayHook
  <2>2. \A q \in Player \ {p} : player[q].at \in {"check", "play"} => lease = q
    BY DEF LeaseInv, LeaseIsHeld, Thread, Leased
  <2>3. \A u \in Thread \ {p} : lease = u => intent' = intent
    BY <1>1
  <2>4. Player \subseteq Thread
    BY DEF Thread
  <2> QED BY <1>1, <1>2, <1>3, <2>1, <2>2, <2>3, <2>4 DEF LeaseInv, PlaysForIntent
<1>7. OneOperation'
  BY <1>1, <1>2, <1>3 DEF LeaseInv, OneOperation, Thread
<1> QED BY <1>4, <1>5, <1>6, <1>7 DEF LeaseInv

\* Each step of a player is such a move.
LEMMA PlayerStepInv ==
    ASSUME LeaseInv, KeysKnown, NEW p \in Player, PlayerStep(p) \/ (\E at : Ask(p, at) /\ at \notin Leased)
    PROVE  LeaseInv'
<1> DEFINE Moves(next) ==
      /\ "at" \in DOMAIN next
      /\ hook[p] = None /\ (hook' = hook \/ Publish(p))
      /\ player' = [player EXCEPT ![p] = next]
      /\ next.at \in Leased <=> lease' = p
      /\ lease' = lease \/ (lease \in {None, p} /\ lease' \in {None, p})
      /\ intent' = intent \/ lease \in {None, p}
      /\ next.at \in {"check", "play"} => intent' # None
<1> SUFFICES \E next : Moves(next)
  BY PlayerMoves
<1> HIDE DEF Moves
<1>1. p \in Thread /\ None \notin Thread /\ None \notin PlayIntent /\ None \notin {PlayHook, StopHook}
  BY NothingAssumption DEF Thread, Hook, PlayHook, StopHook
<1>2. "at" \in DOMAIN player[p]
  BY DEF LeaseInv, Shapes
<1>3. hook[p] = None
  BY DEF PlayerStep, Ask, At, EnterProject, RequestPlay, CheckReady, PlayNow, MarkPlayFailed,
         AnnounceStarting, CheckPending, Resubmit, DropLease, LeaveProject, RequestStop, StopNative,
         QuietForChange, AdvanceEnvironment, ConsumeTransportFailure, ReadStatus
<1>4. player[p].at \in Leased <=> lease = p
  BY <1>1, <1>3 DEF LeaseInv, LeaseIsHeld, PlayHook, StopHook
<1>5. player[p].at \in {"check", "play"} => intent # None
  BY DEF LeaseInv, PlaysForIntent
<1>6. ASSUME NEW at, PlayerTo(p, at)
      PROVE  player' = [player EXCEPT ![p] = [player[p] EXCEPT !.at = at]]
  BY <1>6 DEF PlayerTo
<1>7. ASSUME NEW at
      PROVE  /\ "at" \in DOMAIN [player[p] EXCEPT !.at = at]
             /\ [player[p] EXCEPT !.at = at].at = at
  BY <1>2
<1>move. ASSUME NEW at, PlayerTo(p, at), hook' = hook \/ Publish(p), at \in Leased <=> lease' = p,
              lease' = lease \/ (lease \in {None, p} /\ lease' \in {None, p}),
              intent' = intent \/ lease \in {None, p},
              at \in {"check", "play"} => intent' # None
       PROVE  \E next : Moves(next)
  <2>1. Moves([player[p] EXCEPT !.at = at])
    BY <1>3, <1>6, <1>7, <1>move DEF Moves
  <2> QED BY <2>1
<1> USE <1>1, <1>3, <1>4 DEF At
<1>8. CASE \E at : Ask(p, at) /\ at \notin Leased
  <2>1. PICK at : Ask(p, at) /\ at \notin Leased
    BY <1>8
  <2>2. at \notin {"check", "play"}
    BY <2>1 DEF Leased
  <2>3. player[p].at \notin Leased
    BY <2>1 DEF Ask, Leased
  <2>4. "at" \in DOMAIN [at |-> at, intent |-> core] /\ [at |-> at, intent |-> core].at = at
    OBVIOUS
  <2> QED BY <2>1, <2>2, <2>3, <2>4 DEF Ask, transportVars, Moves
<1>9. CASE EnterProject(p)
  <2> DEFINE next == [at |-> IF player[p].at = "askPlay" THEN "wantPlay" ELSE "wantStop", intent |-> core]
  <2>1. "at" \in DOMAIN next /\ next.at \in {"wantPlay", "wantStop"}
    OBVIOUS
  <2>2. player' = [player EXCEPT ![p] = next] /\ hook' = hook /\ lease' = lease /\ intent' = intent
    BY <1>9 DEF EnterProject, transportVars
  <2>3. player[p].at \notin Leased
    BY <1>9 DEF EnterProject, Leased
  <2> QED BY <2>1, <2>2, <2>3 DEF Leased, Moves
<1>10. CASE RequestPlay(p)
  <2>1. PlayerTo(p, "check") /\ lease = None /\ lease' = p /\ hook' = hook
    BY <1>10 DEF RequestPlay
  <2>2. intent' # None
    <3>1. player[p].intent.key \in Key /\ operations' \in Nat
      BY <1>10 DEF RequestPlay, KeysKnown
    <3>2. intent' \in PlayIntent
      BY <1>10, <3>1 DEF RequestPlay, PlayIntent
    <3> QED BY <3>2
  <2> QED BY <2>1, <2>2, <1>move DEF Leased
<1>11. CASE CheckReady(p)
  <2>1. PICK at \in {"play", "starting"} : PlayerTo(p, at)
    BY <1>11 DEF CheckReady
  <2>2. /\ player[p].at = "check" /\ Publish(p) /\ lease' = lease /\ intent' = intent
    BY <1>11 DEF CheckReady, transportVars
  <2> QED BY <2>1, <2>2, <1>5, <1>move DEF Leased
<1>12. CASE PlayNow(p)
  <2>1. PICK at \in {"drop", "markFailed"} : PlayerTo(p, at)
    BY <1>12 DEF PlayNow
  <2>2. player[p].at = "play" /\ hook' = hook /\ lease' = lease
    BY <1>12 DEF PlayNow
  <2> QED BY <2>1, <2>2, <1>move DEF Leased
<1>13. CASE MarkPlayFailed(p)
  BY <1>13, <1>move DEF MarkPlayFailed, transportVars, Leased
<1>14. CASE AnnounceStarting(p)
  <2>1. PICK at \in {"pending", "drop"} : PlayerTo(p, at)
    BY <1>14 DEF AnnounceStarting
  <2>2. player[p].at = "starting" /\ hook' = hook /\ lease' = lease
    BY <1>14 DEF AnnounceStarting
  <2> QED BY <2>1, <2>2, <1>move DEF Leased
<1>15. CASE CheckPending(p)
  <2>1. PICK at \in {"return", "resubmit"} : PlayerTo(p, at)
    BY <1>15 DEF CheckPending
  <2>2. player[p].at = "pending" /\ Publish(p) /\ lease' = None
    BY <1>15 DEF CheckPending
  <2> QED BY <2>1, <2>2, <1>move DEF Leased
<1>16. CASE Resubmit(p)
  BY <1>16, <1>move DEF Resubmit, transportVars, Leased
<1>17. CASE DropLease(p)
  <2>2. PlayerTo(p, "return") /\ player[p].at = "drop" /\ hook' = hook /\ lease' = None /\ intent' = intent
    BY <1>17 DEF DropLease
  <2> QED BY <2>2, <1>move DEF Leased
<1>18. CASE LeaveProject(p)
  <2>1. "at" \in DOMAIN Idle /\ Idle.at = "idle"
    BY DEF Idle
  <2>2. player[p].at = "return" /\ player' = [player EXCEPT ![p] = Idle]
        /\ hook' = hook /\ lease' = lease /\ intent' = intent
    BY <1>18 DEF LeaveProject, transportVars
  <2>3. Moves(Idle)
    BY <2>1, <2>2 DEF Leased, Moves
  <2> QED BY <2>3
<1>19. CASE RequestStop(p)
  <2>1. PICK at \in {"stop", "quiet"} : PlayerTo(p, at)
    BY <1>19 DEF RequestStop
  <2>2. lease = None /\ lease' = p /\ hook' = hook
    BY <1>19 DEF RequestStop
  <2> QED BY <2>1, <2>2, <1>move DEF Leased
<1>20. CASE StopNative(p) \/ QuietForChange(p)
  <2>1. PICK at \in {"status", "return", "advance"} : PlayerTo(p, at)
    BY <1>20 DEF StopNative, QuietForChange
  <2>2. player[p].at \in {"stop", "quiet"} /\ hook' = hook /\ lease' = None /\ intent' = intent
    BY <1>20 DEF StopNative, QuietForChange
  <2> QED BY <2>1, <2>2, <1>move DEF Leased
<1>21. CASE AdvanceEnvironment(p)
  <2>1. "at" \in DOMAIN [at |-> "resubmit", intent |-> core] /\ [at |-> "resubmit", intent |-> core].at = "resubmit"
    OBVIOUS
  <2> QED BY <1>21, <2>1 DEF AdvanceEnvironment, transportVars, Leased, Moves
<1>22. CASE ConsumeTransportFailure(p) \/ ReadStatus(p)
  <2>1. PICK at \in {"observe", "return"} : PlayerTo(p, at)
    BY <1>22 DEF ConsumeTransportFailure, ReadStatus
  <2>2. player[p].at \in {"status", "observe"} /\ Publish(p) /\ lease' = lease /\ intent' = intent
    BY <1>22 DEF ConsumeTransportFailure, ReadStatus, transportVars
  <2> QED BY <2>1, <2>2, <1>move DEF Leased
<1> QED
  BY <1>8, <1>9, <1>10, <1>11, <1>12, <1>13, <1>14, <1>15, <1>16, <1>17, <1>18, <1>19, <1>20, <1>21, <1>22
  DEF PlayerStep

-----------------------------------------------------------------------------
(* Keys.                                                                   *)

\* A caller submits keys of the canonical state or its own proposal's, and the
\* canonical state takes its key from those.
LEMMA CallerKeys ==
    ASSUME KeysKnown, NEW c \in Caller, CallerStep(c), UNCHANGED <<operations, player>>
    PROVE  KeysKnown'
<1> DEFINE Known(x) == x.at # "idle" => "key" \in DOMAIN x /\ x.key \in Key
<1>1. ASSUME NEW x, Known(x), call' = [call EXCEPT ![c] = x], core'.key \in Key
      PROVE  KeysKnown'
  BY <1>1 DEF KeysKnown
<1>2. ASSUME NEW purpose, NEW next, next.key \in Key, ToSubmit(c, purpose, next), core'.key \in Key
      PROVE  KeysKnown'
  <2> DEFINE x == [at |-> "submit", purpose |-> purpose, key |-> next.key,
                   graph |-> next.graph, operation |-> 0]
  <2>1. Known(x)
    BY <1>2
  <2> QED BY <2>1, <1>1, <1>2 DEF ToSubmit
<1>3. ASSUME NEW ok, call[c].at # "idle", Return(c, ok), core' = core
      PROVE  KeysKnown'
  <2>1. "key" \in DOMAIN call[c] /\ call[c].key \in Key /\ core.key \in Key
    BY <1>3 DEF KeysKnown
  <2>2. Known(Idle)
    BY DEF Idle
  <2>3. PICK x : call' = [call EXCEPT ![c] = x] /\ Known(x)
    <3>1. ASSUME NEW at PROVE Known([call[c] EXCEPT !.at = at])
      BY <2>1
    <3>2. ASSUME NEW to
          PROVE  Known([call[c] EXCEPT !.at = "submit", !.purpose = to, !.key = core.key,
                                       !.graph = core.graph, !.operation = 0])
      BY <2>1
    <3> HIDE DEF Known
    <3> QED BY <1>3, <2>2, <3>1, <3>2 DEF Return
  <2> QED BY <1>1, <1>3, <2>1, <2>3
<1>4. CASE Edit(c) \/ ProposeDevice(c) \/ OpenProject(c)
  <2>1. PICK key \in Key, graph \in Graph, purpose \in AllPurposes :
          ToSubmit(c, purpose, [key |-> key, graph |-> graph]) /\ core' \in {core, [key |-> key, graph |-> graph]}
    BY <1>4 DEF Edit, ProposeDevice, OpenProject, NextKeys, AllPurposes
  <2> QED BY <2>1, <1>2 DEF KeysKnown
<1>5. CASE Resync(c) \/ ChangeAudioDevice(c)
  BY <1>2, <1>5 DEF Resync, ChangeAudioDevice, KeysKnown
<1>6. CASE SubmitProjection(c)
  <2>1. \/ \E ok : Return(c, ok)
        \/ \E operation : call' = [call EXCEPT ![c].at = "waiting", ![c].operation = operation]
    BY <1>6 DEF SubmitProjection
  <2>2. call[c].at # "idle" /\ core' = core
    BY <1>6 DEF SubmitProjection
  <2>3. ASSUME NEW operation, call' = [call EXCEPT ![c].at = "waiting", ![c].operation = operation]
        PROVE  KeysKnown'
    BY <2>2, <2>3 DEF KeysKnown
  <2> QED BY <2>1, <2>2, <2>3, <1>3
<1>7. CASE PollGeneration(c)
  BY <1>7 DEF PollGeneration, KeysKnown
<1>8. CASE CollectResult(c)
  BY <1>3, <1>8 DEF CollectResult
<1>9. CASE GiveUp(c) \/ ReportDeadline(c)
  BY <1>9 DEF GiveUp, ReportDeadline, KeysKnown
<1>10. CASE CommitDevice(c) \/ PromoteProject(c)
  <2>1. call[c].key \in Key /\ core.key \in Key
    BY <1>10 DEF CommitDevice, PromoteProject, KeysKnown
  <2>2. \/ core' = [key |-> call[c].key, graph |-> call[c].graph] /\ ToSubmit(c, "edit", core')
        \/ core' = core /\ \E purpose : ToSubmit(c, purpose, core)
        \/ core' = core /\ call' = [call EXCEPT ![c] = Idle]
    BY <1>10 DEF CommitDevice, PromoteProject
  <2>3. Known(Idle)
    BY DEF Idle
  <2> QED BY <2>1, <2>2, <2>3, <1>1, <1>2
<1> QED BY <1>4, <1>5, <1>6, <1>7, <1>8, <1>9, <1>10 DEF CallerStep

\* Only a command that enters with the writer lock goes on to want a Play, with
\* the canonical state of that moment.
LEMMA PlayerKeys ==
    ASSUME LeaseInv, KeysKnown, NEW p \in Player, PlayerStep(p) \/ (\E at : Ask(p, at) /\ at # "wantPlay")
    PROVE  KeysKnown'
<1>1. /\ player = [q \in Player |-> player[q]] /\ "at" \in DOMAIN player[p]
  BY DEF LeaseInv, Shapes
<1>2. ASSUME NEW next, player' = [player EXCEPT ![p] = next], operations' \in Nat, UNCHANGED <<core, call>>,
             next.at = "wantPlay" => next.intent.key \in Key
      PROVE  KeysKnown'
  BY <1>1, <1>2 DEF KeysKnown
<1>3. ASSUME NEW at, PlayerTo(p, at), at # "wantPlay", operations' \in Nat, UNCHANGED <<core, call>>
      PROVE  KeysKnown'
  <2>1. [player[p] EXCEPT !.at = at].at # "wantPlay"
    BY <1>1, <1>3
  <2> QED BY <1>2, <1>3, <2>1 DEF PlayerTo
<1>4. operations \in Nat /\ operations + 1 \in Nat /\ core.key \in Key
  BY DEF KeysKnown
<1>5. CASE \E at : Ask(p, at) /\ at # "wantPlay"
  <2>1. PICK at : Ask(p, at) /\ at # "wantPlay"
    BY <1>5
  <2> DEFINE next == [at |-> at, intent |-> core]
  <2>2. next.at # "wantPlay" /\ player' = [player EXCEPT ![p] = next] /\ operations' \in Nat /\ UNCHANGED <<core, call>>
    BY <1>4, <2>1 DEF Ask, transportVars, vars
  <2> QED BY <1>2, <2>2
<1>6. CASE EnterProject(p)
  <2> DEFINE next == [at |-> IF player[p].at = "askPlay" THEN "wantPlay" ELSE "wantStop", intent |-> core]
  <2>1. next.intent.key \in Key /\ player' = [player EXCEPT ![p] = next]
        /\ operations' \in Nat /\ UNCHANGED <<core, call>>
    BY <1>4, <1>6 DEF EnterProject, transportVars
  <2> QED BY <1>2, <2>1
<1>7. CASE LeaveProject(p)
  <2>1. Idle.at # "wantPlay"
    BY DEF Idle
  <2>2. player' = [player EXCEPT ![p] = Idle] /\ operations' \in Nat /\ UNCHANGED <<core, call>>
    BY <1>4, <1>7 DEF LeaveProject, transportVars
  <2> QED BY <1>2, <2>1, <2>2
<1>8. CASE AdvanceEnvironment(p)
  <2> DEFINE next == [at |-> "resubmit", intent |-> core]
  <2>1. next.at # "wantPlay" /\ player' = [player EXCEPT ![p] = next]
        /\ operations' \in Nat /\ UNCHANGED <<core, call>>
    BY <1>4, <1>8 DEF AdvanceEnvironment, transportVars
  <2> QED BY <1>2, <2>1
<1>9. CASE RequestPlay(p) \/ RequestStop(p)
  <2>1. PICK at \in {"check", "stop", "quiet"} : PlayerTo(p, at)
    BY <1>9 DEF RequestPlay, RequestStop
  <2>2. operations' \in Nat /\ UNCHANGED <<core, call>>
    BY <1>4, <1>9 DEF RequestPlay, RequestStop, vars
  <2> QED BY <1>3, <2>1, <2>2
<1>10. CASE CheckReady(p) \/ MarkPlayFailed(p) \/ CheckPending(p) \/ Resubmit(p)
            \/ ConsumeTransportFailure(p) \/ ReadStatus(p)
  <2>1. PICK at \in {"play", "starting", "drop", "return", "resubmit", "observe"} : PlayerTo(p, at)
    BY <1>10 DEF CheckReady, MarkPlayFailed, CheckPending, Resubmit, ConsumeTransportFailure, ReadStatus
  <2>2. operations' \in Nat /\ UNCHANGED <<core, call>>
    BY <1>4, <1>10 DEF CheckReady, MarkPlayFailed, CheckPending, Resubmit, ConsumeTransportFailure, ReadStatus,
          transportVars
  <2> QED BY <1>3, <2>1, <2>2
<1>11. CASE PlayNow(p) \/ AnnounceStarting(p) \/ DropLease(p) \/ StopNative(p) \/ QuietForChange(p)
  <2>1. PICK at \in {"drop", "markFailed", "pending", "return", "status", "advance"} : PlayerTo(p, at)
    BY <1>11 DEF PlayNow, AnnounceStarting, DropLease, StopNative, QuietForChange
  <2>2. operations' \in Nat /\ UNCHANGED <<core, call>>
    BY <1>4, <1>11 DEF PlayNow, AnnounceStarting, DropLease, StopNative, QuietForChange, vars
  <2> QED BY <1>3, <2>1, <2>2
<1> QED
  BY <1>5, <1>6, <1>7, <1>8, <1>9, <1>10, <1>11 DEF PlayerStep

\* Every step keeps the keys.
LEMMA KeysStep == LeaseInv /\ KeysKnown /\ [ReconcilerNext]_reconcilerVars => KeysKnown'
<1> SUFFICES ASSUME LeaseInv, KeysKnown, [ReconcilerNext]_reconcilerVars PROVE KeysKnown'
  OBVIOUS
<1>1. CASE UNCHANGED <<operations, core, call, player>>
  BY <1>1 DEF KeysKnown
<1>2. ASSUME NEW c \in Caller, CallerStepsOn(c) PROVE KeysKnown'
  BY <1>2, CallerKeys DEF CallerStepsOn, transportVars
<1>3. CASE WorkerStepsOn
  <2>1. UNCHANGED <<operations, core, call, player>>
    BY <1>3 DEF WorkerStepsOn, WorkerStep, TakeWork, PrepareSnapshot, WaitForIdle, ObserveBeforeReport,
          ReportPrepared, CommitSnapshot, ReportCommitted, DiscardSnapshot, transportVars
  <2> QED BY <1>1, <2>1
<1>4. CASE ClockStep \/ AbandonedStep \/ SidecarRestarts
  <2>1. UNCHANGED <<operations, core, call, player>>
    BY <1>4 DEF ClockStep, Expire, AbandonedStep, FinishAbandoned, SidecarRestarts, RestartSidecar, transportVars
  <2> QED BY <1>1, <2>1
<1>5. ASSUME NEW p \in Player, AskPlay(p) \/ AskStop(p) \/ AskAudioChange(p) \/ AskStatus(p) \/ PlayerStep(p)
      PROVE  KeysKnown'
  BY <1>5, PlayerKeys DEF AskPlay, AskStop, AskAudioChange, AskStatus
<1>6. ASSUME NEW t \in Thread, HookStep(t) PROVE KeysKnown'
  <2>1. UNCHANGED <<operations, core, call, player>>
    BY <1>6 DEF HookStep, RunHook, HookPlays, HookStops, vars
  <2> QED BY <1>1, <2>1
<1> QED
  BY <1>1, <1>2, <1>3, <1>4, <1>5, <1>6 DEF ReconcilerNext, reconcilerVars, vars, transportVars

-----------------------------------------------------------------------------
(* Theorems.                                                               *)

\* Nobody holds the lease at the start.
LEMMA LeaseInit == ReconcilerInit => LeaseInv /\ KeysKnown
<1>1. None \notin Thread /\ None \notin {PlayHook, StopHook}
  BY NothingAssumption DEF Hook, PlayHook, StopHook
<1>2. Idle.at = "idle" /\ "at" \in DOMAIN Idle
  BY DEF Idle
<1>3. ReconcilerInit => KeysKnown
  BY <1>2 DEF ReconcilerInit, Init, KeysKnown, Intent
<1> QED BY <1>1, <1>2, <1>3 DEF ReconcilerInit, LeaseInv, Shapes, LeaseIsHeld, OneOperation, PlaysForIntent,
         Leased, PlayHook, StopHook

\* Every step keeps the invariant.
LEMMA LeaseStep == LeaseInv /\ KeysKnown /\ [ReconcilerNext]_reconcilerVars => LeaseInv'
<1> SUFFICES ASSUME LeaseInv, KeysKnown, [ReconcilerNext]_reconcilerVars PROVE LeaseInv'
  OBVIOUS
<1>1. CASE UNCHANGED <<transportVars, hook, player>>
  BY <1>1 DEF LeaseInv, Shapes, LeaseIsHeld, OneOperation, PlaysForIntent, transportVars
<1>2. ASSUME NEW c \in Caller, CallerStepsOn(c) PROVE LeaseInv'
  BY <1>2, CoordinatorMoves DEF CallerStepsOn
<1>3. CASE WorkerStepsOn
  BY <1>3, CoordinatorMoves DEF WorkerStepsOn
<1>4. CASE SidecarRestarts
  BY <1>4 DEF SidecarRestarts, LeaseInv, Shapes, LeaseIsHeld, OneOperation, PlaysForIntent
<1>5. ASSUME NEW p \in Player, AskPlay(p) \/ AskStop(p) \/ AskAudioChange(p) \/ AskStatus(p) \/ PlayerStep(p)
      PROVE  LeaseInv'
  <2>1. {"askPlay", "askStop", "wantQuiet", "status"} \intersect Leased = {}
    BY DEF Leased
  <2> QED BY <1>5, <2>1, PlayerStepInv DEF AskPlay, AskStop, AskAudioChange, AskStatus
<1>6. ASSUME NEW t \in Thread, HookStep(t) PROVE LeaseInv'
  BY <1>6, HookMoves
<1> QED
  BY <1>1, <1>2, <1>3, <1>4, <1>5, <1>6
  DEF ReconcilerNext, ClockStep, AbandonedStep, reconcilerVars

\* It holds in every state.
THEOREM LeaseInvariance == ReconcilerSpec => [](LeaseInv /\ KeysKnown)
<1> QED BY LeaseInit, LeaseStep, KeysStep, PTL DEF ReconcilerSpec

\* The lease belongs to exactly the thread that is inside a transport operation
\* (TransportExecutor::execution), on whatever thread a hook runs.
THEOREM LeaseOwnership == ReconcilerSpec => []LeaseIsHeld
<1>1. LeaseInv => LeaseIsHeld
  BY DEF LeaseInv
<1> QED BY <1>1, LeaseInvariance, PTL

\* Playback begins only while a Play is wanted: a Stop, a Pause or an audio
\* device change accepted since takes the intent, however late the projection
\* becomes active.
THEOREM PlaybackIsWanted == ReconcilerSpec => PlaybackIsRequested
<1>1. LeaseInv /\ [ReconcilerNext]_reconcilerVars
        => [transport' = "playing" /\ transport # "playing" => intent # None]_reconcilerVars
  <2> SUFFICES ASSUME LeaseInv, ReconcilerNext, transport' = "playing", transport # "playing"
               PROVE  intent # None
    BY DEF reconcilerVars, vars, transportVars
  <2>1. ASSUME NEW p \in Player, PlayNow(p) PROVE intent # None
    BY <2>1 DEF PlayNow, At, LeaseInv, PlaysForIntent
  <2>2. ASSUME NEW t \in Thread, HookPlays(t) PROVE intent # None
    BY <2>2 DEF HookPlays, LeaseInv, PlaysForIntent, PlayHook
  <2>3. ASSUME NEW p \in Player, PlayerStep(p) PROVE PlayNow(p)
    BY <2>3 DEF PlayerStep, EnterProject, RequestPlay, CheckReady, MarkPlayFailed, AnnounceStarting,
         CheckPending, Resubmit, DropLease, LeaveProject, RequestStop, StopNative, QuietForChange,
         AdvanceEnvironment, ConsumeTransportFailure, ReadStatus, transportVars
  <2>4. ASSUME NEW t \in Thread, HookStep(t) PROVE HookPlays(t)
    BY <2>4 DEF HookStep, RunHook, HookStops
  <2>5. \/ \E p \in Player : PlayerStep(p)
        \/ \E t \in Thread : HookStep(t)
    BY DEF ReconcilerNext, CallerStepsOn, WorkerStepsOn, ClockStep, AbandonedStep, SidecarRestarts,
           AskPlay, AskStop, AskAudioChange, AskStatus, Ask, transportVars
  <2> QED BY <2>1, <2>2, <2>3, <2>4, <2>5
<1> QED BY <1>1, LeaseInvariance, PTL DEF ReconcilerSpec, PlaybackIsRequested
=============================================================================

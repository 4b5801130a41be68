-------------------------- MODULE PluginPersistence --------------------------
(***************************************************************************)
(* How what a user changes in a plugin's editor becomes part of the        *)
(* canonical Session.  The audio sidecar reports changes and, when an      *)
(* editor closes, a final state; the Host's persistence worker collects    *)
(* the reports and commits them when it can get the Project's writer; a    *)
(* Project switch, which holds the writer, takes them over from the worker *)
(* before it leaves the Project, and a shutdown has the worker commit the  *)
(* last of them.  The sidecar keeps one plugin instance (a rack) per       *)
(* device and rebuilds it when the canonical state it was built from       *)
(* changes.                                                                *)
(*                                                                         *)
(* Every state a user gives a plugin, in its editor or by an edit, an undo *)
(* or an assignment in the Host, is a version of its own, numbered in the  *)
(* order the user made them.                                               *)
(***************************************************************************)
EXTENDS Integers, SequencesExt

CONSTANTS
    Project,      \* Project ids
    Device,       \* device ids; two Projects may use the same ones
    Plugin,       \* plugin paths
    First,        \* the Project open at the start
    Factory,      \* the plugin every device starts with
    MaxVersion,   \* bound: changes made by the user
    MaxOpens,     \* bound: editors opened
    MaxSwitches,  \* bound: Project switches begun
    MaxCrashes,   \* bound: exits of the sidecar
    None

ASSUME PersistenceAssumption ==
    /\ First \in Project /\ Factory \in Plugin
    /\ None \notin Project \union Device \union Plugin
    /\ {MaxVersion, MaxOpens, MaxSwitches, MaxCrashes} \subseteq Nat

VARIABLES
    \* The Host
    project,    \* per Project: its devices and its arrangement revision
    open,       \* the open Project
    target,     \* the canonical graph last handed to the runtime
    writer,     \* who holds ProjectCell's writer
    switch,     \* the request that switches Projects
    lifecycle,  \* the gate and the steps of DawHost::shutdown
    \* The persistence worker
    channel,    \* its event channel
    request,    \* the command sent to it
    reply,      \* its answer
    pending,    \* the changes it owns, by order of arrival
    worker,     \* what it is doing
    batch,      \* the changes of the flush it has not come to
    failed,     \* the devices that failed in this flush
    \* The sidecar
    graph,      \* the graph it has committed, None while it is down
    editor,     \* the open plugin editor
    wire,       \* events it has queued for the Host
    \* Counters and history
    versions, events, opens, switches, crashes,
    owed        \* final states neither kept in the Session nor discarded yet

host == <<project, open, target, writer, switch, lifecycle>>
persistence == <<channel, request, reply, pending, worker, batch, failed>>
sidecar == <<graph, editor, wire>>
counters == <<versions, events, opens, switches, crashes>>
vars == <<host, persistence, sidecar, counters, owed>>

Slot == [plugin : Plugin \union {None}, version : Nat]
Graph == [project : Project, revision : Nat, slots : [Device -> Slot]]
(* A rack has the state it was built from, or the one a user gave it in the    *)
(* editor of a Project.                                                        *)
Rack == [plugin : Plugin, version : Nat, built : Nat, by : Project \union {None}]
Editor == [project : Project, device : Device, rack : Rack, dirty : BOOLEAN, displaced : BOOLEAN]
Kinds == {"state", "final", "parameter"}
Event == [kind : Kinds \union {"restarted"}, id : Nat,
          project : Project \union {None}, device : Device \union {None},
          plugin : Plugin \union {None}, version : Nat, revision : Nat]

(* A graph the sidecar has committed. *)
Runtime == [project : Project, revision : Nat, slots : [Device -> Slot],
            racks : [Device -> Rack \union {None}]]

(* None is no value the sidecar keeps. *)
ASSUME SidecarAssumption == None \notin Runtime \union Editor

Restarted == [kind |-> "restarted", id |-> 0, project |-> None, device |-> None,
              plugin |-> None, version |-> 0, revision |-> 0]

Asking == {"take", "take closing"}
Applying == {"apply", "apply closing"}
Acknowledging == {"acknowledge", "acknowledge closing"}
Steps == {"idle", "close", "load", "replace"} \union Asking \union Applying \union Acknowledging

NoSwitch == [step |-> "idle", to |-> None, changes |-> <<>>, applied |-> {}, failed |-> FALSE]

(* What every actor holds is typed, the worker owns each change once, and a    *)
(* Project has at most one change of a kind pending for a device.              *)
PersistenceTypeOK ==
    /\ \A p \in Project : project[p].slots \in [Device -> Slot] /\ project[p].revision \in Nat
    /\ open \in Project /\ target \in Graph
    /\ writer \in {"free", "worker", "switch"}
    /\ switch.step \in Steps /\ switch.to \in Project \union {None}
    /\ \A i \in DOMAIN switch.changes : switch.changes[i] \in Event
    /\ lifecycle \in {"running", "requested", "closed", "captured", "stopping"}
    /\ \A queue \in {wire, channel, pending, batch} :
           \A i \in DOMAIN queue : queue[i] \in Event
    /\ \A i, j \in DOMAIN pending :
           (i # j) => pending[i].id # pending[j].id
                      /\ (pending[i].kind # "final" => pending[i] # [pending[j] EXCEPT
                              !.id = pending[i].id, !.version = pending[i].version,
                              !.revision = pending[i].revision])
    /\ worker \in {"waiting", "flushing", "locking", "last flush", "gone"}
    /\ graph = None \/ graph \in Runtime
    /\ editor = None \/ editor \in Editor

Blank == [slots |-> [d \in Device |-> [plugin |-> Factory, version |-> 0]], revision |-> 0]

(* A canonical Session as the runtime is given it. *)
Snapshot(p, sessions) ==
    [project |-> p, revision |-> sessions[p].revision, slots |-> sessions[p].slots]

(* The racks of a new graph: one whose saved state is the one it was built     *)
(* from is shared with the graph before it, another one is built anew.  Each   *)
(* device is alone in its effect chain: the code shares a chain as a whole.    *)
RacksFor(slots, before) ==
    [d \in Device |->
        IF slots[d].plugin = None THEN None
        ELSE IF /\ before[d] # None
                /\ before[d].plugin = slots[d].plugin
                /\ before[d].built = slots[d].version
             THEN before[d]
             ELSE [plugin |-> slots[d].plugin, version |-> slots[d].version,
                   built |-> slots[d].version, by |-> None]]

NoRacks == [d \in Device |-> None]

Init ==
    /\ project = [p \in Project |-> Blank]
    /\ open = First
    /\ target = Snapshot(First, project)
    /\ writer = "free" /\ switch = NoSwitch /\ lifecycle = "running"
    /\ channel = <<>> /\ request = None /\ reply = None /\ pending = <<>>
    /\ worker = "waiting" /\ batch = <<>> /\ failed = {}
    /\ graph = [project |-> First, revision |-> 0, slots |-> Blank.slots,
                racks |-> RacksFor(Blank.slots, NoRacks)]
    /\ editor = None /\ wire = <<>>
    /\ versions = 0 /\ events = 0 /\ opens = 0 /\ switches = 0 /\ crashes = 0
    /\ owed = {}

IsUp == graph # None
Running == lifecycle = "running"

-----------------------------------------------------------------------------
(* The sidecar                                                                *)

(* The closing state of an editor, taken from the plugin itself. *)
FinalOf(e) == [kind |-> "final", id |-> events + 1, project |-> e.project, device |-> e.device,
               plugin |-> e.rack.plugin, version |-> e.rack.version,
               revision |-> graph.revision]

(* The output queue keeps the latest report of a kind for a device; reports    *)
(* before a final state have been moved out of its reach.                      *)
Coalesced(queue, event) ==
    LET same == {i \in DOMAIN queue :
                    /\ <<queue[i].kind, queue[i].project, queue[i].device>>
                           = <<event.kind, event.project, event.device>>
                    /\ \A j \in i .. Len(queue) : queue[j].kind # "final"}
    IN  IF same = {} THEN Append(queue, event) ELSE [queue EXCEPT ![CHOOSE i \in same : TRUE] = event]

(* The user changes the plugin in its editor. *)
UserEdits ==
    /\ IsUp /\ editor # None /\ versions < MaxVersion
    /\ LET rack == [editor.rack EXCEPT !.version = versions + 1, !.by = editor.project]
       IN  /\ editor' = [editor EXCEPT !.rack = rack, !.dirty = TRUE]
           /\ graph' = IF editor.displaced THEN graph
                       ELSE [graph EXCEPT !.racks[editor.device] = rack]
    /\ versions' = versions + 1
    /\ UNCHANGED <<host, persistence, wire, events, opens, switches, crashes, owed>>

(* The editor's change is reported, as a parameter or as the whole state,      *)
(* unless its rack has been replaced.  A plugin that reports nothing is one    *)
(* for which this step is not taken.                                           *)
Reports ==
    /\ IsUp /\ editor # None /\ editor.dirty /\ ~editor.displaced
    /\ \E kind \in {"state", "parameter"} :
           wire' = Coalesced(wire,
               [kind |-> kind, id |-> events + 1, project |-> editor.project,
                device |-> editor.device, plugin |-> None,
                version |-> IF kind = "state" THEN editor.rack.version ELSE 0,
                revision |-> IF kind = "state" THEN graph.revision ELSE 0])
    /\ events' = events + 1
    /\ editor' = [editor EXCEPT !.dirty = FALSE]
    /\ UNCHANGED <<host, persistence, graph, versions, opens, switches, crashes, owed>>

(* The window's close button, or the editor of a device whose rack a new graph *)
(* has replaced.                                                               *)
EditorCloses ==
    /\ IsUp /\ editor # None
    /\ wire' = Append(wire, FinalOf(editor))
    /\ owed' = owed \union {FinalOf(editor)}
    /\ events' = events + 1
    /\ editor' = None
    /\ UNCHANGED <<host, persistence, graph, versions, opens, switches, crashes>>

(* The runtime commits the latest canonical graph. The editor of a rack that   *)
(* is not shared with it is closed afterwards.                                 *)
GraphCommits ==
    /\ IsUp /\ (editor # None => ~editor.displaced)
    /\ <<graph.project, graph.slots>> # <<target.project, target.slots>>
    /\ LET racks == RacksFor(target.slots, graph.racks)
       IN  /\ graph' = [project |-> target.project, revision |-> target.revision,
                        slots |-> target.slots, racks |-> racks]
           /\ editor' = IF editor = None THEN None
                        ELSE [editor EXCEPT !.displaced =
                                  racks[editor.device] # graph.racks[editor.device]]
    /\ UNCHANGED <<host, persistence, wire, counters, owed>>

(* The sidecar exits: its plugins and what it had queued are gone. *)
SidecarExits ==
    /\ IsUp /\ crashes < MaxCrashes
    /\ graph' = None /\ editor' = None /\ wire' = <<>>
    /\ owed' = owed \ ToSet(wire)
    /\ crashes' = crashes + 1
    /\ UNCHANGED <<host, persistence, versions, events, opens, switches>>

(* A new sidecar is given the published Session, and the worker is told. *)
SidecarRestarts ==
    /\ ~IsUp /\ lifecycle \in {"running", "requested"}
    /\ LET session == Snapshot(open, project)
       IN  /\ graph' = [project |-> open, revision |-> session.revision,
                        slots |-> session.slots, racks |-> RacksFor(session.slots, NoRacks)]
           /\ target' = session
    /\ channel' = Append(channel, Restarted)
    /\ UNCHANGED <<project, open, writer, switch, lifecycle, request, reply, pending, worker,
                   batch, failed, editor, wire, counters, owed>>

(* The reader hands the next event to the hub, and the hub to the worker. *)
Delivers ==
    /\ wire # <<>>
    /\ channel' = Append(channel, Head(wire))
    /\ wire' = Tail(wire)
    /\ UNCHANGED <<host, request, reply, pending, worker, batch, failed, graph, editor, counters,
                   owed>>

-----------------------------------------------------------------------------
(* Committing a change                                                        *)

SlotOf(e) == project[open].slots[e.device]

(* The open Project with the device's new slot, one revision later. *)
WithSlot(device, slot) ==
    [project EXCEPT ![open] = [slots |-> [@.slots EXCEPT ![device] = slot],
                               revision |-> @.revision + 1]]

(* A change that has nothing to say to the open Project: a report from another *)
(* Project, or a final state whose device or plugin is no longer there.        *)
IsDiscarded(e) ==
    IF e.project # open THEN e.kind # "final"
    ELSE e.kind = "final" /\ SlotOf(e).plugin # e.plugin

(* A parameter, and a state from before the Session's revision, are only a     *)
(* reason to ask the runtime for the plugin's state.                           *)
AsksRuntime(e) ==
    e.kind = "parameter" \/ (e.kind = "state" /\ e.revision # project[open].revision)

Answers(e) == IsUp /\ graph.racks[e.device] # None
Captured(e) == IF AsksRuntime(e) THEN graph.racks[e.device].version ELSE e.version

IsApplicable(e) ==
    /\ e.project = open /\ ~IsDiscarded(e)
    /\ AsksRuntime(e) => Answers(e)

IsConfirmed(e) ==
    /\ IsApplicable(e)
    /\ SlotOf(e).plugin # None /\ SlotOf(e).version = Captured(e)

(* apply_plugin_change: nothing to commit. *)
Settles(e) ==
    /\ IsDiscarded(e) \/ IsConfirmed(e)
    /\ UNCHANGED <<project, target>>

(* apply_plugin_change: the state is committed; the runtime is told unless the *)
(* Project is being left.                                                      *)
Commits(e, tellRuntime) ==
    /\ IsApplicable(e) /\ ~IsConfirmed(e) /\ SlotOf(e).plugin # None
    /\ project' = WithSlot(e.device, [SlotOf(e) EXCEPT !.version = Captured(e)])
    /\ target' = IF tellRuntime THEN Snapshot(open, project') ELSE target

Applies(e, tellRuntime) ==
    /\ Settles(e) \/ Commits(e, tellRuntime)
    /\ owed' = owed \ {e}

(* apply_plugin_change: a final state of another Project, a runtime that does  *)
(* not answer, a device without a plugin, or a save that fails.                *)
Fails(e) ==
    /\ ~IsDiscarded(e) /\ ~IsConfirmed(e)
    /\ UNCHANGED <<project, target, owed>>

(* An edit in the Host: another state for a plugin (an undo included), another *)
(* plugin, or the device removed.                                              *)
HostEdits ==
    /\ Running /\ writer = "free" /\ versions < MaxVersion
    /\ \E d \in Device, plugin \in Plugin \union {None} :
           /\ project[open].slots[d].plugin = None => plugin # None
           /\ project' = WithSlot(d, [plugin |-> plugin, version |-> versions + 1])
    /\ target' = Snapshot(open, project')
    /\ versions' = versions + 1
    /\ UNCHANGED <<open, writer, switch, lifecycle, persistence, sidecar, events, opens, switches,
                   crashes, owed>>

(* plugin.editor.open, which holds the writer, on the rack the runtime has.    *)
(* The editor open before it is closed first.                                  *)
EditorOpens ==
    /\ Running /\ writer = "free" /\ IsUp /\ opens < MaxOpens
    /\ editor # None => ~editor.displaced
    /\ \E d \in Device :
           /\ project[open].slots[d].plugin # None /\ graph.racks[d] # None
           /\ editor' = [project |-> open, device |-> d, rack |-> graph.racks[d],
                         dirty |-> FALSE, displaced |-> FALSE]
    /\ IF editor = None THEN UNCHANGED <<wire, events, owed>>
       ELSE /\ wire' = Append(wire, FinalOf(editor))
            /\ owed' = owed \union {FinalOf(editor)}
            /\ events' = events + 1
    /\ opens' = opens + 1
    /\ UNCHANGED <<host, persistence, graph, versions, switches, crashes>>

-----------------------------------------------------------------------------
(* The persistence worker                                                     *)

SameDevice(a, b) == a.project = b.project /\ a.device = b.device

(* Mutant: a restart of the sidecar drops every pending change. *)
CollectLosingFinals(changes, event) ==
    IF event.kind = "restarted" THEN <<>> ELSE Append(changes, event)

(* The changes in kept, in their order. *)
Only(changes, kept) ==
    LET upTo[n \in 0 .. Len(changes)] ==
            IF n = 0 THEN <<>>
            ELSE IF changes[n] \in kept THEN Append(upTo[n - 1], changes[n])
            ELSE upTo[n - 1]
    IN  upTo[Len(changes)]

(* collect_plugin_change: what stays pending beside the event that is          *)
(* collected. A final state stands for the device's earlier reports, a report  *)
(* for the earlier one of its kind; what a sidecar that is gone reported,      *)
(* except final states, is dropped.                                            *)
Outlasts(c, event) ==
    CASE event.kind = "restarted" -> c.kind = "final"
      [] event.kind = "final" -> c.kind = "final" \/ ~SameDevice(c, event)
      [] OTHER -> c.kind # event.kind \/ ~SameDevice(c, event)

Collect(changes, event) ==
    LET kept == Only(changes, {c \in ToSet(changes) : Outlasts(c, event)})
    IN  IF event.kind = "restarted" THEN kept ELSE Append(kept, event)

(* The events of a queue collected one by one. *)
CollectAll(changes, queue) ==
    LET upTo[n \in 0 .. Len(queue)] ==
            IF n = 0 THEN changes ELSE Collect(upTo[n - 1], queue[n])
    IN  upTo[Len(queue)]

(* The worker waits for an event, and flushes at once after a final state if   *)
(* nobody holds the writer.                                                    *)
WorkerReceives ==
    /\ worker = "waiting" /\ lifecycle # "stopping" /\ channel # <<>>
    /\ channel' = Tail(channel)
    /\ LET changes == Collect(pending, Head(channel))
       IN  IF Head(channel).kind = "final" /\ writer = "free"
           THEN /\ writer' = "worker" /\ worker' = "flushing"
                /\ batch' = changes /\ pending' = <<>> /\ failed' = {}
           ELSE /\ pending' = changes
                /\ UNCHANGED <<writer, worker, batch, failed>>
    /\ UNCHANGED <<project, open, target, switch, lifecycle, request, reply, sidecar, counters,
                   owed>>

(* No event for 24 ms. *)
WorkerFlushes ==
    /\ worker = "waiting" /\ lifecycle # "stopping" /\ channel = <<>>
    /\ writer = "free" /\ pending # <<>>
    /\ writer' = "worker" /\ worker' = "flushing"
    /\ batch' = pending /\ pending' = <<>> /\ failed' = {}
    /\ UNCHANGED <<project, open, target, switch, lifecycle, channel, request, reply, sidecar,
                   counters, owed>>

(* The next change of a flush, unless an earlier one of its device failed. *)
WorkerApplies ==
    /\ worker \in {"flushing", "last flush"} /\ batch # <<>>
    /\ LET change == Head(batch)
           device == <<change.project, change.device>>
       IN  \/ /\ device \notin failed
              /\ Applies(change, TRUE)
              /\ UNCHANGED <<pending, failed>>
           \/ /\ device \notin failed
              /\ Fails(change)
              /\ pending' = Append(pending, change)
              /\ failed' = failed \union {device}
           \/ /\ device \in failed
              /\ pending' = Append(pending, change)
              /\ UNCHANGED <<project, target, owed, failed>>
    /\ batch' = Tail(batch)
    /\ UNCHANGED <<open, writer, switch, lifecycle, channel, request, reply, worker, sidecar,
                   counters>>

WorkerEndsFlush ==
    /\ worker \in {"flushing", "last flush"} /\ batch = <<>>
    /\ worker' = IF worker = "flushing" THEN "waiting" ELSE "gone"
    /\ writer' = "free" /\ failed' = {}
    /\ UNCHANGED <<project, open, target, switch, lifecycle, channel, request, reply, pending,
                   batch, sidecar, counters, owed>>

(* TakePending: whatever has arrived is collected, and the Project's changes   *)
(* are lent to the switch. *)
WorkerLends ==
    /\ worker = "waiting" /\ request # None /\ request.kind = "take"
    /\ pending' = CollectAll(pending, channel)
    /\ channel' = <<>>
    /\ reply' = [changes |->
           Only(pending', {c \in ToSet(pending') : c.project = request.project})]
    /\ request' = None
    /\ UNCHANGED <<host, worker, batch, failed, sidecar, counters, owed>>

Retained(changes, done) == Only(changes, {c \in ToSet(changes) : c.id \notin done})

(* Acknowledge: exactly the changes the switch has applied are forgotten. *)
WorkerForgets ==
    /\ worker = "waiting" /\ request # None /\ request.kind = "acknowledge"
    /\ pending' = Retained(pending, request.applied)
    /\ reply' = [changes |-> <<>>]
    /\ request' = None
    /\ UNCHANGED <<host, channel, worker, batch, failed, sidecar, counters, owed>>

(* The stop flag: the last events are collected, and from then on the worker   *)
(* only waits for the writer.                                                  *)
WorkerStops ==
    /\ worker = "waiting" /\ request = None /\ lifecycle = "stopping"
    /\ worker' = "locking"
    /\ pending' = CollectAll(pending, channel) /\ channel' = <<>>
    /\ UNCHANGED <<host, request, reply, batch, failed, sidecar, counters, owed>>

WorkerLocks ==
    /\ worker = "locking" /\ writer = "free"
    /\ writer' = "worker" /\ worker' = "last flush"
    /\ batch' = pending /\ pending' = <<>> /\ failed' = {}
    /\ UNCHANGED <<project, open, target, switch, lifecycle, channel, request, reply, sidecar,
                   counters, owed>>

-----------------------------------------------------------------------------
(* A Project switch                                                           *)

SwitchBegins ==
    /\ Running /\ writer = "free" /\ switches < MaxSwitches
    /\ \E p \in Project : switch' = [NoSwitch EXCEPT !.step = "take", !.to = p]
    /\ writer' = "switch"
    /\ request' = [kind |-> "take", project |-> open]
    /\ switches' = switches + 1
    /\ UNCHANGED <<project, open, target, lifecycle, channel, reply, pending, worker, batch, failed,
                   sidecar, versions, events, opens, crashes, owed>>

(* The changes lent by the worker arrive. *)
SwitchTakes ==
    /\ switch.step \in Asking /\ reply # None
    /\ switch' = [switch EXCEPT !.step = IF @ = "take" THEN "apply" ELSE "apply closing",
                                !.changes = reply.changes, !.applied = {}, !.failed = FALSE]
    /\ reply' = None
    /\ UNCHANGED <<project, open, target, writer, lifecycle, channel, request, pending, worker,
                   batch, failed, sidecar, counters, owed>>

(* They are applied in order; the first one that fails ends it. *)
SwitchApplies ==
    /\ switch.step \in Applying /\ switch.changes # <<>>
    /\ LET change == Head(switch.changes)
       IN  \/ /\ Applies(change, switch.step = "apply")
              /\ switch' = [switch EXCEPT !.changes = Tail(@), !.applied = @ \union {change.id}]
           \/ /\ Fails(change)
              /\ switch' = [switch EXCEPT !.changes = <<>>, !.failed = TRUE]
    /\ UNCHANGED <<open, writer, lifecycle, persistence, sidecar, counters>>

SwitchAcknowledges ==
    /\ switch.step \in Applying /\ switch.changes = <<>>
    /\ switch' = [switch EXCEPT !.step = IF @ = "apply" THEN "acknowledge"
                                         ELSE "acknowledge closing"]
    /\ request' = [kind |-> "acknowledge", applied |-> switch.applied]
    /\ UNCHANGED <<project, open, target, writer, lifecycle, channel, reply, pending, worker, batch,
                   failed, sidecar, counters, owed>>

(* The switch goes on to its next part, or ends because a change failed. *)
SwitchGoesOn ==
    /\ switch.step \in Acknowledging /\ reply # None
    /\ reply' = None
    /\ IF switch.failed THEN switch' = NoSwitch /\ writer' = "free"
       ELSE /\ switch' = [switch EXCEPT !.step = IF @ = "acknowledge" THEN "close" ELSE "load",
                                        !.applied = {}]
            /\ UNCHANGED writer
    /\ UNCHANGED <<project, open, target, lifecycle, channel, request, pending, worker, batch,
                   failed, sidecar, counters, owed>>

(* Mutant: the answer to a request to close the editor overtakes its state. *)
ClosesEditorLater ==
    /\ IsUp /\ (editor # None => ~editor.displaced)
    /\ IF editor = None THEN UNCHANGED <<wire, events, owed>>
       ELSE /\ wire' = Append(wire, FinalOf(editor))
            /\ owed' = owed \union {FinalOf(editor)}
            /\ events' = events + 1
    /\ editor' = None
    /\ UNCHANGED <<channel, graph>>

(* WaitForTimelineIdle with closeEditor: when its answer arrives, so has every *)
(* final state, the open editor's the last, and whatever was queued before it. *)
ClosesEditor ==
    /\ IsUp /\ (editor # None => ~editor.displaced)
    /\ LET sent == IF editor = None THEN wire ELSE Append(wire, FinalOf(editor))
           finals == {i \in DOMAIN sent : sent[i].kind = "final"}
           barrier == IF finals = {} THEN 0 ELSE CHOOSE i \in finals : \A j \in finals : j <= i
       IN  /\ channel' = channel \o SubSeq(sent, 1, barrier)
           /\ wire' = SubSeq(sent, barrier + 1, Len(sent))
    /\ IF editor = None THEN UNCHANGED <<events, owed>>
       ELSE events' = events + 1 /\ owed' = owed \union {FinalOf(editor)}
    /\ editor' = None
    /\ UNCHANGED graph

SwitchClosesEditor ==
    /\ switch.step = "close"
    /\ ClosesEditor
    /\ switch' = [switch EXCEPT !.step = "take closing"]
    /\ request' = [kind |-> "take", project |-> open]
    /\ UNCHANGED <<project, open, target, writer, lifecycle, reply, pending, worker, batch, failed,
                   versions, opens, switches, crashes>>

(* The sidecar does not answer, or the other Project cannot be read. *)
SwitchGivesUp ==
    /\ switch.step \in {"close", "load"}
    /\ switch' = NoSwitch /\ writer' = "free"
    /\ UNCHANGED <<project, open, target, lifecycle, persistence, sidecar, counters, owed>>

(* The runtime commits the other Project's graph as the canonical one. *)
SwitchTriesCandidate ==
    /\ switch.step = "load" /\ IsUp /\ (editor # None => ~editor.displaced)
    /\ target' = Snapshot(switch.to, project)
    /\ graph' = [project |-> switch.to, revision |-> target'.revision, slots |-> target'.slots,
                 racks |-> RacksFor(target'.slots, graph.racks)]
    /\ switch' = [switch EXCEPT !.step = "replace"]
    /\ UNCHANGED <<project, open, writer, lifecycle, persistence, editor, wire, counters, owed>>

(* The candidate is refused, or workspace.json cannot be written: the runtime  *)
(* is given the previous Session again.                                        *)
SwitchFails ==
    /\ switch.step \in {"load", "replace"}
    /\ target' = Snapshot(open, project)
    /\ switch' = NoSwitch /\ writer' = "free"
    /\ UNCHANGED <<project, open, lifecycle, persistence, sidecar, counters, owed>>

SwitchReplaces ==
    /\ switch.step = "replace"
    /\ open' = switch.to
    /\ target' = Snapshot(switch.to, project)
    /\ switch' = NoSwitch /\ writer' = "free"
    /\ UNCHANGED <<project, lifecycle, persistence, sidecar, counters, owed>>

-----------------------------------------------------------------------------
(* DawHost::shutdown                                                          *)

ShutdownRequested ==
    /\ Running
    /\ lifecycle' = "requested"
    /\ UNCHANGED <<project, open, target, writer, switch, persistence, sidecar, counters, owed>>

(* Mutant: the gate does not wait for the requests it has let in. *)
CloseGateAtOnce ==
    /\ lifecycle = "requested"
    /\ lifecycle' = "closed"
    /\ UNCHANGED <<project, open, target, writer, switch, persistence, sidecar, counters, owed>>

(* HostLifecycle::close waits for the requests it has let in. *)
GateCloses ==
    /\ lifecycle = "requested" /\ switch.step = "idle"
    /\ lifecycle' = "closed"
    /\ UNCHANGED <<project, open, target, writer, switch, persistence, sidecar, counters, owed>>

(* The state of the open editor is taken, if the sidecar answers in time. *)
ShutdownClosesEditor ==
    /\ lifecycle = "closed"
    /\ ClosesEditor
    /\ lifecycle' = "captured"
    /\ UNCHANGED <<project, open, target, writer, switch, request, reply, pending, worker, batch,
                   failed, versions, opens, switches, crashes>>

(* The sidecar is ended, and then the worker told to stop. *)
ShutdownStopsWorker ==
    /\ lifecycle \in {"closed", "captured"}
    /\ lifecycle' = "stopping"
    /\ graph' = None /\ editor' = None /\ wire' = <<>>
    /\ owed' = owed \ ToSet(wire)
    /\ UNCHANGED <<project, open, target, writer, switch, persistence, counters>>

-----------------------------------------------------------------------------
Sidecar == UserEdits \/ Reports \/ EditorCloses \/ GraphCommits \/ SidecarExits \/ SidecarRestarts
Requests == HostEdits \/ EditorOpens
Worker == WorkerReceives \/ WorkerFlushes \/ WorkerApplies \/ WorkerEndsFlush \/ WorkerLends
          \/ WorkerForgets \/ WorkerStops \/ WorkerLocks
Switch == SwitchTakes \/ SwitchApplies \/ SwitchAcknowledges \/ SwitchGoesOn
          \/ SwitchClosesEditor \/ SwitchGivesUp \/ SwitchTriesCandidate \/ SwitchFails
          \/ SwitchReplaces
Shutdown == GateCloses \/ ShutdownClosesEditor \/ ShutdownStopsWorker

Next == Sidecar \/ Delivers \/ Requests \/ Worker \/ SwitchBegins \/ Switch
        \/ ShutdownRequested \/ Shutdown

(* Threads of the Host run on, and its waits for the sidecar have deadlines.   *)
(* The worker looks at its commands and at the stop flag between two waits of  *)
(* at most 24 ms.                                                              *)
Fairness ==
    /\ WF_vars(WorkerReceives) /\ WF_vars(WorkerApplies) /\ WF_vars(WorkerEndsFlush)
    /\ WF_vars(WorkerLends) /\ WF_vars(WorkerForgets) /\ WF_vars(WorkerStops)
    /\ WF_vars(WorkerLocks) /\ WF_vars(Switch) /\ WF_vars(Shutdown)

Spec == Init /\ [][Next]_vars /\ Fairness

-----------------------------------------------------------------------------
(* A closing editor's state that reached the Host is held by the worker until  *)
(* the Session keeps it or has no place for it, through restarts of the        *)
(* sidecar, failed saves, Project switches and the shutdown; and the Project   *)
(* it belongs to is still the open one.                                        *)
FinalsAreKept ==
    \A final \in owed :
        /\ final \in ToSet(wire \o pending \o batch)
           \/ (worker \notin {"locking", "last flush", "gone"} /\ final \in ToSet(channel))
        /\ final.project = open

(* When the runtime is given another Project, the Session of the one that is   *)
(* left has the last state its user gave, in its editors, to each plugin in    *)
(* the runtime, or one the user chose later.                                   *)
SwitchKeepsEdits ==
    [][switch.step = "load" /\ switch'.step = "replace" =>
          \A d \in Device :
              /\ graph.racks[d] # None
              /\ graph.racks[d].by = open
              /\ graph.racks[d].plugin = project[open].slots[d].plugin
              => graph.racks[d].version <= project[open].slots[d].version]_vars

(* docs/audio-engine.md, 7.2: the canonical state is the authority for plugin  *)
(* state. The graph a Project is opened with plays the states of its Session,  *)
(* whatever was played before.                                                 *)
CandidateIsCanonical ==
    [][switch.step = "load" /\ switch'.step = "replace" =>
          \A d \in Device :
              graph'.racks[d] # None => graph'.racks[d].version = graph'.slots[d].version]_vars

(* A Project switch and a shutdown come to their end: neither waits for the    *)
(* worker while the worker waits for the writer.                               *)
RequestsEnd ==
    /\ switch.step # "idle" ~> switch.step = "idle"
    /\ lifecycle = "requested" ~> worker = "gone"

(* docs/audio-engine.md, 7.2: the canonical state is the authority for plugin  *)
(* state. What a user changed last stands: no capture of an earlier state      *)
(* replaces it.                                                                *)
LastChangeStands ==
    [][\A p \in Project, d \in Device :
          project'[p].slots[d].version >= project[p].slots[d].version]_vars
=============================================================================

------------------------- MODULE RecordingFinalization -------------------------
(***************************************************************************)
(* How a recorded take becomes part of the Session.  Control clients start *)
(* and stop recordings; the sidecar writes the take, processes it after    *)
(* the stop and reports its outcome; a worker of the Host waits for that   *)
(* report, registers the take's files as Assets and merges the take into   *)
(* the Session.  One slot carries the outcome from the event reader to the *)
(* worker.  The take's manifest.json is read, changed and written back by  *)
(* the Host's threads and by the sidecar, with no lock between them.       *)
(*                                                                         *)
(* A take is its number, and stands for its directory and its pass.  The   *)
(* terminal states recoverable and failed are one, recoverable.  One track *)
(* is armed, so a recording session has one slot, and one clip in it.  Of  *)
(* a clip the model tells the edits a take keeps (gain, fades, position,   *)
(* mute, name) from what comes with the take.  Project switches, restarts  *)
(* of the Host, redo, the removal of the track and the projection before a *)
(* start are left out.                                                     *)
(***************************************************************************)
EXTENDS Integers, SequencesExt

CONSTANTS
    Client,    \* control clients
    MaxTakes,  \* bound: recordings asked for
    MaxEdits,  \* bound: edits and undos of the Session
    MaxFaults, \* bound: exits of the sidecar, lost answers, failed reads and writes
    None

ASSUME RecordingAssumption ==
    /\ {MaxTakes, MaxEdits, MaxFaults} \subseteq Nat
    /\ None \notin Int

VARIABLES
    manifest,  \* per take: its manifest.json, None while there is no directory
    rows,      \* takes whose files are registered as Assets
    session,   \* the canonical Session
    history,   \* what undo can take back, oldest first: the Session before a change and,
               \* for the properties, which edit the change was, of which clip, and the
               \* edits that were seen of a clip it replaced
    client,    \* per client: its request
    worker,    \* per take: the worker that finalizes it
    pending,   \* recording_finalization_pending
    slot,      \* recording_completion
    host,      \* the Host process
    native,    \* the sidecar's recording controller
    wire,      \* events of the sidecar the Host has not read
    used, edits, faults,
    sound      \* history: takes the sidecar has completed

files == <<manifest, rows>>
core == <<session, history>>
completion == <<pending, slot, worker>>
sidecar == <<native, wire>>
counters == <<used, edits>>
vars == <<files, core, completion, client, host, sidecar, counters, faults, sound>>

Take == 1..MaxTakes
Edit == 1..MaxEdits
Maybe(S) == S \union {None}

States == {"recording", "completed", "recoverable"}
Manifest == [state : States, capture : States \union {"none", "completing"},
             group : Maybe(Take)]
\* Of each pass (and its take) the recording session it is in; the recording
\* sessions, each with the take its slot plays; the clips in the slots; and the
\* edits to anything else
Recording == [passes : SUBSET Take, active : Take]
Clip == [take : Take, edits : SUBSET Edit]
Session == [groups : [Take -> Maybe(Take)], recordings : [Take -> Maybe(Recording)],
            clips : [Take -> Maybe(Clip)], elsewhere : SUBSET Edit]
Entry == [session : Session, edit : Maybe(Edit), of : Maybe(Take), seen : SUBSET Edit]

ASSUME NoneAssumption == None \notin Recording \union Clip

\* An outcome: of one take, or (None) of whichever is being waited for
Outcome == [take : Maybe(Take), ok : BOOLEAN]
Exit == [take |-> 0, ok |-> FALSE]

Saving == {"completing", "save", "persist"}
Waiting == {"wait", "asleep"}
Idle == [step |-> "idle", take |-> None, group |-> None, active |-> FALSE, doc |-> None]
NoWorker == [step |-> "idle", doc |-> None, base |-> None, group |-> None]
NativeIdle == [phase |-> "idle", take |-> None, last |-> None, doc |-> None, outbox |-> None]

RecordingTypeOK ==
    /\ manifest \in [Take -> Maybe(Manifest)] /\ rows \subseteq Take
    /\ session \in Session
    /\ \A i \in DOMAIN history : history[i] \in Entry
    /\ pending \in Maybe(Take) /\ slot \in Maybe(Outcome)
    /\ host \in {"open", "closing", "killed", "closed"}
    /\ native.phase \in {"down", "idle", "recording", "stopping", "processing", "writing"}
    /\ \A i \in DOMAIN wire : wire[i] \in Outcome \union {Exit}

Nothing == [r \in Take |-> None]
NoSession == [groups |-> Nothing, recordings |-> Nothing, clips |-> Nothing, elsewhere |-> {}]

Init ==
    /\ manifest = [t \in Take |-> None] /\ rows = {}
    /\ session = NoSession /\ history = <<>>
    /\ client = [c \in Client |-> Idle] /\ worker = [t \in Take |-> NoWorker]
    /\ pending = None /\ slot = None /\ host = "open"
    /\ native = NativeIdle /\ wire = <<>>
    /\ used = 0 /\ edits = 0 /\ faults = 0
    /\ sound = {}
-----------------------------------------------------------------------------
Fault ==
    /\ faults < MaxFaults
    /\ faults' = faults + 1
Faultless == faults' = faults

(* The slot *)

\* Mutant: the notification is forgotten
Unwoken(workers) == workers

Awake(workers) == [t \in Take |-> IF workers[t].step = "asleep"
                                  THEN [workers[t] EXCEPT !.step = "wait"] ELSE workers[t]]

\* Mutant: whichever outcome is there is taken
ConcernsAnyone(outcome, t) == TRUE

Concerns(outcome, t) == outcome.take \in {None, t}

RecordCompletion(outcome) ==
    /\ slot' = outcome
    /\ worker' = Awake(worker)

FailCompletion ==
    IF slot # None THEN UNCHANGED <<slot, worker>>
    ELSE RecordCompletion([take |-> None, ok |-> FALSE])
-----------------------------------------------------------------------------
(* manifest.json, read in one step and written back in a later one *)

\* RecordingCapture::transition, as save_asset_ids uses it
Completing(capture) == IF capture \in {"none", "recording"} THEN "completing" ELSE capture
Promoted(doc) == IF Completing(doc.capture) # "completing" THEN doc.capture
                 ELSE IF doc.state = "recoverable" THEN "recoverable" ELSE "completed"
Failed(capture) == IF capture = "completed" THEN "completed" ELSE "recoverable"

CaptureStart(doc, group) == [doc EXCEPT !.capture = "recording", !.group = group]
CaptureCompleting(doc) == [doc EXCEPT !.capture = Completing(@)]
CaptureAssets(doc) == [doc EXCEPT !.capture = Promoted(doc)]
CaptureFailure(doc) == [doc EXCEPT !.capture = Failed(@), !.state = Failed(doc.capture)]

CannotSave(t) == IF manifest[t] = None THEN Faultless ELSE Fault
Replace(t, doc) ==
    /\ manifest[t] # None
    /\ manifest' = [manifest EXCEPT ![t] = doc]
-----------------------------------------------------------------------------
(* Requests of the control clients *)

Now(c, step) == client' = [client EXCEPT ![c].step = step, ![c].doc = None]
Ends(c) == client' = [client EXCEPT ![c] = Idle]
Reads(c, t) ==
    /\ client[c].doc = None /\ manifest[t] # None
    /\ client' = [client EXCEPT ![c].doc = manifest[t]]

StartRecording(c) ==
    /\ host = "open" /\ client[c].step = "idle" /\ used < MaxTakes
    /\ used' = used + 1
    /\ \E g \in {used + 1} \union {r \in Take : session.recordings[r] # None} :
           client' = [client EXCEPT ![c] = [Idle EXCEPT !.step = "check", !.take = used', !.group = g]]
    /\ UNCHANGED <<files, core, completion, host, sidecar, edits, faults, sound>>

CheckPending(c) ==
    /\ client[c].step = "check"
    /\ IF pending # None THEN Ends(c) ELSE Now(c, "send")
    /\ UNCHANGED <<files, core, completion, host, sidecar, counters, faults, sound>>

\* The answer may be lost after the sidecar has accepted the request.
StartArrangeRecording(c) ==
    LET t == client[c].take IN
    /\ client[c].step = "send"
    /\ \/ /\ native.phase = "idle"
          /\ native' = [native EXCEPT !.phase = "recording", !.take = t, !.last = None]
          /\ manifest' = [manifest EXCEPT ![t] =
                 [state |-> "recording", capture |-> "none", group |-> None]]
          /\ \/ Now(c, "save") /\ Faultless
             \/ Ends(c) /\ Fault
       \/ /\ native.phase # "idle"
          /\ Ends(c) /\ Faultless
          /\ UNCHANGED <<native, manifest>>
    /\ UNCHANGED <<rows, core, completion, host, wire, counters, sound>>

SaveCaptureStart(c) ==
    LET t == client[c].take IN
    /\ client[c].step = "save"
    /\ \/ Reads(c, t) /\ Faultless /\ UNCHANGED manifest
       \/ /\ client[c].doc # None
          /\ Replace(t, CaptureStart(client[c].doc, client[c].group))
          /\ Ends(c) /\ Faultless
       \/ CannotSave(t) /\ Now(c, "stop again") /\ UNCHANGED manifest
    /\ UNCHANGED <<rows, core, completion, host, sidecar, counters, sound>>

\* What the sidecar does with a stop: a count-in is cancelled and its
\* directory deleted, a recording stops at the next block.
NativeStop ==
    \/ /\ native.phase = "recording"
       /\ \/ native' = [native EXCEPT !.phase = "stopping"] /\ UNCHANGED manifest
          \/ /\ native' = [native EXCEPT !.phase = "idle", !.take = None]
             /\ manifest' = [manifest EXCEPT ![native.take] = None]
    \/ native.phase # "recording" /\ UNCHANGED <<native, manifest>>

\* The request ends whether the stop succeeds or fails.
StopAgain(c) ==
    /\ client[c].step = "stop again"
    /\ NativeStop \/ UNCHANGED <<native, manifest>>
    /\ Ends(c)
    /\ UNCHANGED <<rows, core, completion, host, wire, counters, faults, sound>>

Active == native.phase \in {"recording", "stopping"}

StopRecording(c) ==
    /\ host = "open" /\ client[c].step = "idle"
    /\ \/ /\ Faultless
          /\ client' = [client EXCEPT ![c] = [Idle EXCEPT !.step = "ask", !.active = Active,
                            !.take = IF Active THEN native.take ELSE native.last]]
       \/ /\ Fault
          /\ client' = [client EXCEPT ![c] = [Idle EXCEPT !.step = "ask"]]
    /\ UNCHANGED <<files, core, completion, host, sidecar, counters, sound>>

\* The status that answers shows "processing" while a finalization is pending.
StopArrangeRecording(c) ==
    LET directory == IF native.take # None THEN native.take
                     ELSE IF native.last # None THEN native.last ELSE client[c].take
        accepted == native.phase \in {"recording", "idle"}
        cancelled == native.phase = "recording" /\ native'.phase = "idle"
        processing == pending # None /\ ~Active
    IN
    /\ client[c].step = "ask"
    /\ NativeStop
    /\ \/ /\ Faultless
          /\ IF accepted /\ ~cancelled /\ directory # None /\ (processing \/ client[c].active \/ Active)
             THEN client' = [client EXCEPT ![c].step = "begin", ![c].take = directory]
             ELSE Ends(c)
       \/ Ends(c) /\ Fault
    /\ UNCHANGED <<rows, core, completion, host, wire, counters, sound>>

\* No thread may be had for the worker.
BeginFinalization(c) ==
    LET t == client[c].take IN
    /\ client[c].step = "begin"
    /\ \/ /\ pending # None
          /\ Now(c, "persist") /\ Faultless /\ UNCHANGED <<pending, worker>>
       \/ /\ pending = None /\ pending' = t
          /\ \/ /\ worker' = [worker EXCEPT ![t] = [NoWorker EXCEPT !.step = "wait"]]
                /\ Ends(c) /\ Faultless
             \/ Now(c, "unqueued") /\ Fault /\ UNCHANGED worker
    /\ UNCHANGED <<files, core, slot, host, sidecar, counters, sound>>

PersistRefusal(c) ==
    LET t == client[c].take
        goesOn == IF client[c].step = "unqueued" THEN Now(c, "withdraw") ELSE Ends(c)
    IN
    /\ client[c].step \in {"persist", "unqueued"}
    /\ \/ Reads(c, t) /\ Faultless /\ UNCHANGED manifest
       \/ /\ client[c].doc # None
          /\ Replace(t, CaptureFailure(client[c].doc))
          /\ goesOn /\ Faultless
       \/ CannotSave(t) /\ goesOn /\ UNCHANGED manifest
    /\ UNCHANGED <<rows, core, completion, host, sidecar, counters, sound>>

\* finish_recording_finalization, after the worker could not be started
WithdrawFinalization(c) ==
    /\ client[c].step = "withdraw"
    /\ pending' = None
    /\ Ends(c)
    /\ UNCHANGED <<files, core, slot, worker, host, sidecar, counters, faults, sound>>
-----------------------------------------------------------------------------
(* The finalization worker of a take *)

To(t, step) == worker' = [worker EXCEPT ![t].step = step, ![t].doc = None]
Fails(t) == worker' = [worker EXCEPT ![t] = [NoWorker EXCEPT !.step = "persist"]]

WaitForCompletion(t) ==
    /\ worker[t].step = "wait"
    /\ IF slot # None /\ Concerns(slot, t)
       THEN slot' = None /\ To(t, IF slot.ok THEN "completing" ELSE "persist")
       ELSE UNCHANGED slot /\ To(t, IF host = "open" THEN "asleep" ELSE "persist")
    /\ UNCHANGED <<files, core, pending, client, host, sidecar, counters, faults, sound>>

Written(t) ==
    CASE worker[t].step = "completing" -> CaptureCompleting(worker[t].doc)
      [] worker[t].step = "save" -> CaptureAssets(worker[t].doc)
      [] worker[t].step = "persist" -> CaptureFailure(worker[t].doc)
After(step) == CASE step = "completing" -> "prepare" [] step = "save" -> "commit" [] step = "persist" -> "fail"

UpdateManifest(t) ==
    /\ worker[t].step \in Saving
    /\ \/ /\ worker[t].doc = None /\ manifest[t] # None
          /\ worker' = [worker EXCEPT ![t].doc = manifest[t]]
          /\ Faultless /\ UNCHANGED manifest
       \/ /\ worker[t].doc # None
          /\ Replace(t, Written(t))
          /\ To(t, After(worker[t].step)) /\ Faultless
       \/ /\ CannotSave(t)
          /\ IF worker[t].step = "persist" THEN To(t, "fail") ELSE Fails(t)
          /\ UNCHANGED manifest
    /\ UNCHANGED <<rows, core, pending, slot, client, host, sidecar, counters, sound>>

\* A manifest the sidecar has not finished has no clock range.
Complete(t) == manifest[t] # None /\ manifest[t].state # "recording"

PrepareFinalization(t) ==
    /\ worker[t].step = "prepare"
    /\ \/ /\ Complete(t) /\ Faultless
          /\ worker' = [worker EXCEPT ![t] = [@ EXCEPT !.step = "register", !.base = session,
                 !.group = IF manifest[t].group # None THEN manifest[t].group ELSE t]]
       \/ Fails(t) /\ IF Complete(t) THEN Fault ELSE Faultless
    /\ UNCHANGED <<files, core, pending, slot, client, host, sidecar, counters, sound>>

RegisterOutputs(t) ==
    /\ worker[t].step = "register"
    /\ \/ rows' = rows \union {t} /\ To(t, "save") /\ Faultless
       \/ Fails(t) /\ Fault /\ UNCHANGED rows
    /\ UNCHANGED <<manifest, core, pending, slot, client, host, sidecar, counters, sound>>

EditsOf(s, r) == IF s.clips[r] = None THEN {} ELSE s.clips[r].edits

\* The Session with the take in it, as materialized from the base: the slot of
\* an existing recording session plays the new take, in the clip as it was.
Candidate(base, t, g) ==
    [base EXCEPT
        !.groups[t] = g,
        !.recordings[g] = [passes |-> (IF @ = None THEN {} ELSE @.passes) \union {t}, active |-> t],
        !.clips[g] = [take |-> t, edits |-> EditsOf(base, g)]]

\* Mutant: the candidate's items are taken whether it changed them or not
MergeAllItems(current, base, candidate) ==
    [k \in Take |-> IF candidate[k] = None THEN current[k] ELSE candidate[k]]

\* Whole items, each as the candidate has it when that is not how the base had it
MergeItems(current, base, candidate) ==
    [k \in Take |-> IF candidate[k] \in {base[k], None} THEN current[k] ELSE candidate[k]]

Merge(current, base, candidate) ==
    [current EXCEPT
        !.groups = MergeItems(@, base.groups, candidate.groups),
        !.recordings = MergeItems(@, base.recordings, candidate.recordings),
        !.clips = MergeItems(@, base.clips, candidate.clips)]

\* What validation asks of the recording session r of a Session
Consistent(s, r) ==
    s.recordings[r] # None =>
        /\ \A t \in s.recordings[r].passes : s.groups[t] = r
        /\ s.groups[s.recordings[r].active] = r
        /\ s.clips[r] # None /\ s.clips[r].take = s.recordings[r].active

Valid(s) ==
    /\ \A r \in Take : Consistent(s, r)
    /\ \A t \in Take : s.groups[t] # None => s.recordings[s.groups[t]] # None

Commits(s, edit, r, seen) ==
    /\ session' = s
    /\ history' = Append(history, [session |-> session, edit |-> edit, of |-> r, seen |-> seen])

CommitRecording(t) ==
    LET base == worker[t].base
        g == worker[t].group
        merged == Merge(session, base, Candidate(base, t, g))
    IN
    /\ worker[t].step = "commit"
    /\ \/ /\ Valid(merged)
          /\ Commits(merged, None, g, EditsOf(base, g))
          /\ worker' = [worker EXCEPT ![t] = [NoWorker EXCEPT !.step = "succeed"]]
          /\ Faultless
       \/ /\ IF Valid(merged) THEN Fault ELSE Faultless
          /\ Fails(t)
          /\ UNCHANGED <<session, history>>
    /\ UNCHANGED <<files, pending, slot, client, host, sidecar, counters, sound>>

FinishFinalization(t) ==
    /\ worker[t].step \in {"succeed", "fail"}
    /\ pending' = None
    /\ worker' = [worker EXCEPT ![t] = NoWorker]
    /\ UNCHANGED <<files, core, slot, client, host, sidecar, counters, faults, sound>>
-----------------------------------------------------------------------------
(* Edits *)

Changes(s, edit, r) ==
    /\ host = "open" /\ edits < MaxEdits
    /\ edits' = edits + 1
    /\ Commits(s, edit, r, {})
    /\ UNCHANGED <<files, completion, client, host, sidecar, used, faults, sound>>

\* Of anything that no take changes
EditElsewhere == Changes([session EXCEPT !.elsewhere = @ \union {edits + 1}], edits + 1, None)

\* The gain, fades, position, mute or name of the clip in a slot
EditClip(r) ==
    /\ session.clips[r] # None
    /\ Changes([session EXCEPT !.clips[r].edits = @ \union {edits + 1}], edits + 1, r)

ActivateTake(r, t) ==
    /\ session.groups[t] = r /\ session.recordings[r] # None /\ session.clips[r] # None
    /\ Changes([session EXCEPT !.recordings[r].active = t, !.clips[r].take = t], None, None)

\* With the clip go the takes of its slot, its passes and the recording session.
RemoveClip(r) ==
    /\ session.clips[r] # None
    /\ Changes([session EXCEPT
                   !.groups = [t \in Take |-> IF @[t] = r THEN None ELSE @[t]],
                   !.recordings[r] = None, !.clips[r] = None], None, r)

Undo ==
    /\ host = "open" /\ history # <<>> /\ edits < MaxEdits
    /\ edits' = edits + 1
    /\ session' = Last(history).session
    /\ history' = Front(history)
    /\ UNCHANGED <<files, completion, client, host, sidecar, used, faults, sound>>
-----------------------------------------------------------------------------
(* The sidecar and the thread that reads its events *)

\* The device is lost: the sidecar stops the recording by itself.
LoseDevice ==
    /\ native.phase = "recording"
    /\ native' = [native EXCEPT !.phase = "stopping"]
    /\ UNCHANGED <<files, core, completion, client, host, wire, counters, faults, sound>>

CompleteStop ==
    /\ native.phase = "stopping"
    /\ native' = [native EXCEPT !.phase = "processing"]
    /\ UNCHANGED <<files, core, completion, client, host, wire, counters, faults, sound>>

ReadManifest ==
    /\ native.phase = "processing"
    /\ native' = [native EXCEPT !.phase = "writing", !.doc = manifest[native.take]]
    /\ UNCHANGED <<files, core, completion, client, host, wire, counters, faults, sound>>

FinishProcessing ==
    LET t == native.take IN
    /\ native.phase = "writing" /\ native.outbox = None
    /\ \E ok \in BOOLEAN :
           /\ manifest' = [manifest EXCEPT ![t] =
                  [native.doc EXCEPT !.state = IF ok THEN "completed" ELSE "recoverable"]]
           /\ native' = [NativeIdle EXCEPT !.last = t, !.outbox = [take |-> t, ok |-> ok]]
           /\ sound' = IF ok THEN sound \union {t} ELSE sound
    /\ UNCHANGED <<rows, core, completion, client, host, wire, counters, faults>>

ReportCompletion ==
    /\ native.outbox # None
    /\ wire' = Append(wire, native.outbox)
    /\ native' = [native EXCEPT !.outbox = None]
    /\ UNCHANGED <<files, core, completion, client, host, counters, faults, sound>>

NativeDown == [NativeIdle EXCEPT !.phase = "down"]

ExitSidecar ==
    /\ native.phase # "down" /\ Fault
    /\ native' = NativeDown
    /\ wire' = Append(wire, Exit)
    /\ UNCHANGED <<files, core, completion, client, host, used, edits, sound>>

ReadCompletion ==
    /\ wire # <<>> /\ Head(wire) # Exit
    /\ wire' = Tail(wire)
    /\ RecordCompletion(Head(wire))
    /\ UNCHANGED <<files, core, pending, client, host, native, counters, faults, sound>>

HandleSidecarExit ==
    /\ wire # <<>> /\ Head(wire) = Exit
    /\ wire' = Tail(wire)
    /\ FailCompletion
    /\ native' = IF host = "open" THEN NativeIdle ELSE native
    /\ UNCHANGED <<files, core, pending, client, host, counters, faults, sound>>
-----------------------------------------------------------------------------
(* The Host *)

CancelWaitsForShutdown ==
    /\ host = "open"
    /\ host' = "closing"
    /\ FailCompletion
    /\ UNCHANGED <<files, core, pending, client, sidecar, counters, faults, sound>>

\* lifecycle.close waits for the requests in flight.
ForceShutdown ==
    /\ host = "closing" /\ \A c \in Client : client[c].step = "idle"
    /\ host' = "killed"
    /\ native' = NativeDown
    /\ wire' = IF native.phase = "down" THEN wire ELSE Append(wire, Exit)
    /\ UNCHANGED <<files, core, completion, client, counters, faults, sound>>

\* cancel_all_and_wait joins the finalization workers.
JoinWorkers ==
    /\ host = "killed"
    /\ \A t \in Take : worker[t].step = "idle"
    /\ host' = "closed"
    /\ UNCHANGED <<files, core, completion, client, sidecar, counters, faults, sound>>

ClientStep(c) ==
    \/ StartRecording(c) \/ CheckPending(c) \/ StartArrangeRecording(c) \/ SaveCaptureStart(c)
    \/ StopAgain(c) \/ StopRecording(c) \/ StopArrangeRecording(c) \/ BeginFinalization(c)
    \/ PersistRefusal(c) \/ WithdrawFinalization(c)

WorkerStep(t) ==
    \/ WaitForCompletion(t) \/ UpdateManifest(t) \/ PrepareFinalization(t) \/ RegisterOutputs(t)
    \/ CommitRecording(t) \/ FinishFinalization(t)

SessionStep ==
    \/ EditElsewhere \/ Undo
    \/ \E r \in Take : EditClip(r) \/ RemoveClip(r) \/ \E t \in Take : ActivateTake(r, t)

NativeProcessing == CompleteStop \/ ReadManifest \/ FinishProcessing \/ ReportCompletion
ReaderStep == ReadCompletion \/ HandleSidecarExit
HostStep == CancelWaitsForShutdown \/ ForceShutdown \/ JoinWorkers

Next ==
    \/ \E c \in Client : ClientStep(c)
    \/ \E t \in Take : WorkerStep(t)
    \/ SessionStep
    \/ LoseDevice \/ NativeProcessing \/ ExitSidecar \/ ReaderStep
    \/ HostStep

(* The worker and the reader are threads that run.  Processing ends, because a *)
(* watchdog ends the sidecar when it makes no progress for 45 seconds.         *)
Fairness ==
    /\ \A t \in Take : WF_vars(WorkerStep(t))
    /\ WF_vars(NativeProcessing)
    /\ WF_vars(ReaderStep)

Spec == Init /\ [][Next]_vars /\ Fairness
-----------------------------------------------------------------------------
(* A take is in the Session only when the sidecar completed it and its files   *)
(* are registered, a Session never names a pass it does not hold, and the clip *)
(* in a slot plays the take the slot says: whatever was edited, removed or     *)
(* undone, and whoever wrote the manifest, between the stop and the commit     *)
(* (finalize_arrange_recording).                                               *)
TakesAreWhole ==
    /\ \A t \in Take : session.groups[t] # None => t \in sound \intersect rows
    /\ \A r \in Take : Consistent(session, r)

\* The j-th change replaced the clip of recording session r: a take of it was
\* merged, or the clip was removed.
Replaces(entry, r) == entry.edit = None /\ entry.of = r

\* What a Session has of the edits among the first n changes of a history
Accounts(s, h, n) ==
    /\ s.elsewhere = {h[i].edit : i \in {j \in 1..n : h[j].edit # None /\ h[j].of = None}}
    /\ \A i \in 1..n : \A r \in Take : h[i].edit # None /\ h[i].of = r =>
           \/ h[i].edit \in EditsOf(s, r)
           \/ \E j \in 1..n : j > i /\ Replaces(h[j], r) /\ h[i].edit \notin h[j].seen
    /\ \A r \in Take : \A e \in EditsOf(s, r) : \E i \in 1..n :
           \/ h[i].edit = e /\ h[i].of = r
           \/ Replaces(h[i], r) /\ e \in h[i].seen

(* The finalization works from a Session it read earlier.  What was edited     *)
(* since stays as edits and undos left it when the take is merged, except in   *)
(* the clip of the take's own recording session: that clip loses the edits     *)
(* the finalization did not see, and gets back undone ones it saw.  So an edit *)
(* made and not undone is in the Session, unless its clip was removed or       *)
(* replaced by a take made without seeing it, and an edit in the Session was   *)
(* made and not undone, unless such a take brought it back                     *)
(* (merge_recording_session, commit_merged).                                   *)
EditsSurvive == Accounts(session, history, Len(history))

(* What the code does not keep: the merge brings in what the recording owns    *)
(* (riffra-core/src/application/recording/mod.rs, line 9), and an edit of a    *)
(* clip survives the next take in it, while the clip is not removed.           *)
ClipEditsSurvive ==
    \A i \in DOMAIN history : \A r \in Take :
        /\ history[i].edit # None /\ history[i].of = r
        /\ session.clips[r] # None
        /\ \A j \in i + 1 .. Len(history) : history[j].session.clips[r] # None
        => history[i].edit \in session.clips[r].edits

Owed(t) ==
    \/ native.take = t /\ native.phase \in {"stopping", "processing", "writing"}
    \/ native.outbox # None /\ native.outbox.take = t
    \/ \E i \in DOMAIN wire : wire[i].take = t \/ wire[i] = Exit

(* A worker that waits beside an empty slot stops waiting, if the outcome of   *)
(* its take or the exit of the sidecar is on its way and no other take is      *)
(* (wait_for_recording_completion, handle_sidecar_exit, shutdown).             *)
OnlyOwed(t) ==
    /\ slot = None /\ Owed(t) /\ native.take \in {t, None}
    /\ \A c \in Client : client[c].step # "send"
    /\ \A u \in Take \ {t} :
           /\ native.outbox = None \/ native.outbox.take # u
           /\ \A i \in DOMAIN wire : wire[i].take # u

WaitIsServed ==
    \A t \in Take : worker[t].step \in Waiting /\ OnlyOwed(t) ~> worker[t].step \notin Waiting

(* What the code does not keep: every finalization ends.                       *)
FinalizationEnds == \A t \in Take : pending = t ~> pending # t

(* What the code does not keep: the slot holds nothing of an earlier take, or  *)
(* of an earlier exit of the sidecar, when a finalization begins.              *)
SlotIsFresh == [][\A t \in Take : pending = None /\ pending' = t => slot = None]_vars

(* What the code does not keep: a failure is announced after the take was      *)
(* settled as recoverable or failed (docs/ipc.md, section 4.6).                *)
FailureIsSettled ==
    [][\A t \in Take : worker[t].step = "fail" /\ worker'[t].step = "idle" /\ host' = host
                          /\ manifest[t] # None => manifest[t].capture = "recoverable"]_vars

(* What the code does not keep: the capture of a committed take is completed.  *)
CaptureIsTrue ==
    \A t \in Take : worker[t].step = "succeed" => manifest[t].capture = "completed"
=============================================================================

---------------------- MODULE RecordingFinalizationProofs ----------------------
(***************************************************************************)
(* A recorded take enters the Session whole or not at all, and the merge   *)
(* that brings it in touches no edit but those of the clip it goes into,   *)
(* for any number of clients, takes, edits and faults.                     *)
(*                                                                         *)
(* Neither TakesAreWhole nor EditsSurvive is inductive.  The Session an    *)
(* undo goes back to must be whole as well, so both are stated of every    *)
(* entry of the history; and that a take to be committed is complete was   *)
(* decided when the sidecar finished it, so the fact is carried along the  *)
(* way its outcome travels: the sidecar's outbox, the wire, the slot and   *)
(* the steps of the worker.                                                *)
(***************************************************************************)
EXTENDS RecordingFinalization, TLAPS

ClientSteps == {"idle", "check", "send", "save", "stop again", "ask", "begin", "persist",
                "unqueued", "withdraw"}
WorkerSteps == {"idle", "wait", "asleep", "completing", "prepare", "register", "save", "commit",
                "persist", "succeed", "fail"}
Phases == {"down", "idle", "recording", "stopping", "processing", "writing"}

Request == [step : ClientSteps, take : Maybe(Take), group : Maybe(Take), active : BOOLEAN,
            doc : Maybe(Manifest)]
Finalizer == [step : WorkerSteps, doc : Maybe(Manifest), base : Maybe(Session), group : Maybe(Take)]
Controller == [phase : Phases, take : Maybe(Take), last : Maybe(Take), doc : Maybe(Manifest),
               outbox : Maybe(Outcome)]

\* The files, the Session and the history.
DataOK ==
    /\ manifest \in [Take -> Maybe(Manifest)] /\ rows \subseteq Take /\ sound \subseteq Take
    /\ session \in Session /\ history \in Seq(Entry)
    /\ used \in Nat /\ edits \in Nat /\ faults \in Nat

\* The actors and what passes between them.
ActorsOK ==
    /\ client \in [Client -> Request] /\ worker \in [Take -> Finalizer]
    /\ pending \in Maybe(Take) /\ slot \in Maybe(Outcome)
    /\ host \in {"open", "closing", "killed", "closed"}
    /\ native \in Controller /\ wire \in Seq(Outcome \union {Exit})

\* A request that is about a take names one, and one that starts a take names
\* the recording session it goes into.
Names(request) ==
    /\ request.step \in {"check", "send", "save", "stop again", "begin", "persist", "unqueued"} => request.take \in Take
    /\ request.step \in {"check", "send", "save"} => request.group \in Take
ClientsNameTakes == \A c \in Client : Names(client[c])

\* The directory of the take in the sidecar's hands stays until it lets go.
TakeHasManifest ==
    /\ native.phase \in {"recording", "stopping", "processing", "writing"} =>
           native.take \in Take /\ manifest[native.take] \in Manifest
    /\ native.phase = "writing" => native.doc \in Manifest

\* A good outcome, wherever it is, is of a take the sidecar completed.
OutcomesAreTrue ==
    /\ native.outbox # None /\ native.outbox.ok => native.outbox.take \in sound
    /\ \A i \in DOMAIN wire : wire[i].ok => wire[i].take \in sound
    /\ slot # None /\ slot.ok => slot.take \in sound

\* A worker on its way to the commit has the take the sidecar completed, then
\* a Session to merge into, then the Assets.
Entitled(w, t) ==
    /\ w.step \in {"completing", "prepare", "register", "save", "commit"} => t \in sound
    /\ w.step \in {"register", "save", "commit"} => w.base \in Session /\ w.group \in Take
    /\ w.step \in {"save", "commit"} => t \in rows
WorkersAreEntitled == \A t \in Take : Entitled(worker[t], t)

Whole(s) ==
    /\ \A t \in Take : s.groups[t] # None => t \in sound \intersect rows
    /\ \A r \in Take : Consistent(s, r)

\* So is every Session undo can go back to.
HistoryIsWhole == \A i \in DOMAIN history : Whole(history[i].session)

\* Each Session of the history accounts for the edits made before it, and the
\* canonical Session for them all.
EditsAreKept ==
    /\ Accounts(session, history, Len(history))
    /\ \A k \in DOMAIN history : Accounts(history[k].session, history, k - 1)

RecordingInv ==
    /\ DataOK /\ ActorsOK
    /\ ClientsNameTakes /\ TakeHasManifest /\ OutcomesAreTrue /\ WorkersAreEntitled
    /\ Whole(session) /\ HistoryIsWhole
    /\ EditsAreKept

-----------------------------------------------------------------------------
(* What every step has in common.                                          *)

\* None is no take, no edit and no entry of a manifest's state.
LEMMA NoneIsNoNumber == None \notin Take /\ None \notin Edit
BY RecordingAssumption DEF Take, Edit

\* It holds at the start.
LEMMA RecordingInit == Init => RecordingInv
<1> SUFFICES ASSUME Init PROVE RecordingInv
  OBVIOUS
<1> USE DEF Init
<1>1. NoSession \in Session
  BY DEF NoSession, Nothing, Session, Maybe
<1>2. DataOK
  BY <1>1, RecordingAssumption DEF DataOK, Maybe, Entry
<1>3. client \in [Client -> Request] /\ worker \in [Take -> Finalizer] /\ native \in Controller
  BY DEF Idle, NoWorker, NativeIdle, Request, Finalizer, Controller, ClientSteps, WorkerSteps, Phases, Maybe
<1>4. ActorsOK
  BY <1>3 DEF ActorsOK, Maybe
<1>5. /\ ClientsNameTakes /\ WorkersAreEntitled
      /\ TakeHasManifest /\ OutcomesAreTrue
  <2>1. ClientsNameTakes
    BY DEF ClientsNameTakes, Names, Idle
  <2>2. WorkersAreEntitled
    BY DEF WorkersAreEntitled, Entitled, NoWorker
  <2>3. TakeHasManifest
    BY DEF TakeHasManifest, NativeIdle
  <2>4. OutcomesAreTrue
    BY DEF OutcomesAreTrue, NativeIdle
  <2> QED BY <2>1, <2>2, <2>3, <2>4
<1>6. Whole(session) /\ HistoryIsWhole
  BY DEF Whole, Consistent, HistoryIsWhole, NoSession, Nothing
<1>7. EditsAreKept
  <2>1. Len(history) = 0 /\ 1..0 = {} /\ DOMAIN history = {}
    OBVIOUS
  <2>2. \A r \in Take : EditsOf(session, r) = {}
    BY DEF EditsOf, NoSession, Nothing
  <2>3. Accounts(session, history, 0)
    BY <2>1, <2>2 DEF Accounts, NoSession
  <2> QED BY <2>1, <2>3 DEF EditsAreKept
<1> QED BY <1>2, <1>4, <1>5, <1>6, <1>7 DEF RecordingInv

\* Registered Assets and completed takes stay, so a step that leaves the Session
\* and its history alone leaves them whole.
LEMMA CoreFrame ==
    ASSUME RecordingInv, UNCHANGED core, rows \subseteq rows', sound \subseteq sound'
    PROVE  Whole(session)' /\ HistoryIsWhole' /\ EditsAreKept'
<1> USE DEF RecordingInv, core
<1>1. Whole(session)'
  BY DEF Whole, Consistent
<1>2. HistoryIsWhole'
  BY DEF HistoryIsWhole, Whole, Consistent
<1>3. EditsAreKept'
  BY DEF EditsAreKept, Accounts, EditsOf, Replaces
<1> QED BY <1>1, <1>2, <1>3

\* A request takes its next step.
LEMMA ClientSet ==
    ASSUME RecordingInv, NEW c \in Client, NEW request \in Request, Names(request),
           client' = [client EXCEPT ![c] = request]
    PROVE  client' \in [Client -> Request] /\ ClientsNameTakes'
<1>1. client \in [Client -> Request] /\ ClientsNameTakes
  BY DEF RecordingInv, ActorsOK
<1>2. client' \in [Client -> Request]
  BY <1>1
<1>3. \A d \in Client : client'[d] = IF d = c THEN request ELSE client[d]
  BY <1>1
<1>4. \A d \in Client : Names(client'[d])
  BY <1>1, <1>3 DEF ClientsNameTakes
<1> QED BY <1>2, <1>4 DEF ClientsNameTakes, Names

\* A worker takes its next step.
LEMMA WorkerSet ==
    ASSUME RecordingInv, NEW t \in Take, NEW w \in Finalizer,
           worker' = [worker EXCEPT ![t] = w],
           rows \subseteq rows', sound \subseteq sound',
           w.step \in {"completing", "prepare", "register", "save", "commit"} => t \in sound',
           w.step \in {"register", "save", "commit"} => w.base \in Session /\ w.group \in Take,
           w.step \in {"save", "commit"} => t \in rows'
    PROVE  worker' \in [Take -> Finalizer] /\ WorkersAreEntitled'
<1>1. worker \in [Take -> Finalizer] /\ WorkersAreEntitled
  BY DEF RecordingInv, ActorsOK
<1>2. worker' \in [Take -> Finalizer]
  BY <1>1
<1>3. \A u \in Take : worker'[u] = IF u = t THEN w ELSE worker[u]
  BY <1>1
<1>4. \A u \in Take : Entitled(worker[u], u)
  BY <1>1 DEF WorkersAreEntitled
<1>5. \A u \in Take : u # t => Entitled(worker[u], u)'
  BY <1>3, <1>4 DEF Entitled
<1>6. Entitled(worker[t], t)'
  BY <1>3 DEF Entitled
<1> QED BY <1>2, <1>5, <1>6 DEF WorkersAreEntitled

\* A worker left alone stays entitled.
LEMMA WorkersFrame ==
    ASSUME RecordingInv, UNCHANGED worker, rows \subseteq rows', sound \subseteq sound'
    PROVE  worker' \in [Take -> Finalizer] /\ WorkersAreEntitled'
BY DEF RecordingInv, ActorsOK, WorkersAreEntitled, Entitled

\* A notification wakes workers and changes nothing else of them.
LEMMA AwakeWorkers ==
    ASSUME RecordingInv, worker' = Awake(worker), UNCHANGED <<rows, sound>>
    PROVE  worker' \in [Take -> Finalizer] /\ WorkersAreEntitled'
<1>1. worker \in [Take -> Finalizer] /\ WorkersAreEntitled
  BY DEF RecordingInv, ActorsOK
<1>2. ASSUME NEW t \in Take
      PROVE  worker'[t] \in Finalizer
             /\ (worker'[t] = worker[t] \/ worker'[t].step = "wait")
  <2>1. worker[t] \in Finalizer
    BY <1>1
  <2>2. worker'[t] = IF worker[t].step = "asleep" THEN [worker[t] EXCEPT !.step = "wait"] ELSE worker[t]
    BY DEF Awake
  <2> QED BY <2>1, <2>2 DEF Finalizer, WorkerSteps
<1>3. worker' \in [Take -> Finalizer]
  BY <1>2 DEF Awake
<1>4. \A t \in Take : Entitled(worker[t], t)'
  BY <1>1, <1>2 DEF WorkersAreEntitled, Entitled
<1> QED BY <1>3, <1>4 DEF WorkersAreEntitled

\* A manifest is replaced: the directory stays.
LEMMA ManifestSet ==
    ASSUME RecordingInv, NEW t \in Take, NEW doc \in Manifest,
           manifest' = [manifest EXCEPT ![t] = doc], UNCHANGED native
    PROVE  manifest' \in [Take -> Maybe(Manifest)] /\ TakeHasManifest'
BY DEF RecordingInv, DataOK, TakeHasManifest, Maybe

-----------------------------------------------------------------------------
(* Requests of the clients.                                                *)

\* What a request leaves alone.
LEMMA ClientFrame ==
    ASSUME RecordingInv,
           client' \in [Client -> Request], ClientsNameTakes',
           manifest' \in [Take -> Maybe(Manifest)], TakeHasManifest',
           native' \in Controller, native'.outbox = native.outbox,
           used' \in Nat, faults' \in Nat,
           UNCHANGED <<rows, core, completion, host, wire, edits, sound>>
    PROVE  RecordingInv'
<1>1. DataOK'
  BY DEF RecordingInv, DataOK, core
<1>2. ActorsOK' /\ OutcomesAreTrue'
  BY DEF RecordingInv, ActorsOK, OutcomesAreTrue, completion
<1>3. WorkersAreEntitled'
  BY WorkersFrame DEF completion
<1>4. Whole(session)' /\ HistoryIsWhole' /\ EditsAreKept'
  BY CoreFrame
<1> QED BY <1>1, <1>2, <1>3, <1>4 DEF RecordingInv

\* A request ends.
LEMMA ClientEnds ==
    ASSUME RecordingInv, NEW c \in Client, Ends(c)
    PROVE  client' \in [Client -> Request] /\ ClientsNameTakes'
<1>1. Idle \in Request /\ Names(Idle)
  BY DEF Idle, Request, ClientSteps, Names, Maybe
<1> QED BY <1>1, ClientSet DEF Ends

\* A request goes on, without the manifest it has read.
LEMMA ClientGoesOn ==
    ASSUME RecordingInv, NEW c \in Client, NEW step \in {"send", "stop again", "save", "persist", "unqueued", "withdraw"},
           Now(c, step), client[c].take \in Take,
           step \in {"send", "save"} => client[c].group \in Take
    PROVE  client' \in [Client -> Request] /\ ClientsNameTakes'
<1>1. client[c] \in Request /\ client \in [Client -> Request]
  BY DEF RecordingInv, ActorsOK
<1> DEFINE request == [client[c] EXCEPT !.step = step, !.doc = None]
<1>2. client' = [client EXCEPT ![c] = request]
  BY <1>1 DEF Now
<1>3. request \in Request
  BY <1>1 DEF Request, ClientSteps, Maybe
<1>4. Names(request)
  BY <1>1 DEF Names, Request
<1> HIDE DEF request
<1> QED BY <1>2, <1>3, <1>4, ClientSet

\* A client reads a manifest.
LEMMA ClientReads ==
    ASSUME RecordingInv, NEW c \in Client, NEW t \in Take, Reads(c, t)
    PROVE  client' \in [Client -> Request] /\ ClientsNameTakes'
<1>1. client[c] \in Request /\ Names(client[c]) /\ client \in [Client -> Request]
  BY DEF RecordingInv, ActorsOK, ClientsNameTakes
<1>2. manifest[t] \in Maybe(Manifest)
  BY DEF RecordingInv, DataOK
<1> DEFINE request == [client[c] EXCEPT !.doc = manifest[t]]
<1>3. client' = [client EXCEPT ![c] = request]
  BY <1>1 DEF Reads
<1>4. request \in Request
  BY <1>1, <1>2 DEF Request
<1>5. Names(request)
  BY <1>1 DEF Names, Request
<1> HIDE DEF request
<1> QED BY <1>3, <1>4, <1>5, ClientSet

\* Every change of a manifest gives a manifest.
LEMMA CapturesAreManifests ==
    ASSUME NEW doc \in Manifest, NEW group \in Take
    PROVE  /\ CaptureStart(doc, group) \in Manifest
           /\ CaptureCompleting(doc) \in Manifest
           /\ CaptureAssets(doc) \in Manifest
           /\ CaptureFailure(doc) \in Manifest
<1>1. doc.state \in States /\ doc.capture \in States \union {"none", "completing"}
  BY DEF Manifest
<1>2. Completing(doc.capture) \in States \union {"none", "completing"}
  BY <1>1 DEF Completing, States
<1>3. Promoted(doc) \in States \union {"none", "completing"}
  BY <1>1, <1>2 DEF Promoted, States
<1>4. Failed(doc.capture) \in States
  BY DEF Failed, States
<1>5. CaptureStart(doc, group) \in Manifest
  BY DEF CaptureStart, Manifest, Maybe, States
<1>6. CaptureCompleting(doc) \in Manifest
  BY <1>2 DEF CaptureCompleting, Manifest
<1>7. CaptureAssets(doc) \in Manifest
  BY <1>3 DEF CaptureAssets, Manifest
<1>8. CaptureFailure(doc) \in Manifest
  BY <1>4 DEF CaptureFailure, Manifest
<1> QED BY <1>5, <1>6, <1>7, <1>8

\* A step may use up one of the faults.
LEMMA FaultsAreCounted ==
    ASSUME RecordingInv, Fault \/ Faultless
    PROVE  faults' \in Nat
BY DEF RecordingInv, DataOK, Fault, Faultless

LEMMA StartRecordingStep ==
    ASSUME RecordingInv, NEW c \in Client, StartRecording(c)
    PROVE  RecordingInv'
<1>1. used' = used + 1 /\ used < MaxTakes /\ used \in Nat
  BY DEF StartRecording, RecordingInv, DataOK
<1>2. used' \in Take
  BY <1>1, RecordingAssumption DEF Take
<1>3. PICK g \in Take : client' = [client EXCEPT ![c] =
                            [Idle EXCEPT !.step = "check", !.take = used', !.group = g]]
  BY <1>1, <1>2 DEF StartRecording
<1> DEFINE request == [Idle EXCEPT !.step = "check", !.take = used', !.group = g]
<1>4. request \in Request /\ Names(request)
  BY <1>2, <1>3 DEF Idle, Request, ClientSteps, Names, Maybe
<1>5. client' \in [Client -> Request] /\ ClientsNameTakes'
  BY <1>3, <1>4, ClientSet
<1>6. /\ manifest' \in [Take -> Maybe(Manifest)] /\ TakeHasManifest'
      /\ native' \in Controller /\ native'.outbox = native.outbox
      /\ used' \in Nat /\ faults' \in Nat
      /\ UNCHANGED <<rows, core, completion, host, wire, edits, sound>>
  BY <1>1 DEF StartRecording, RecordingInv, DataOK, ActorsOK, TakeHasManifest, files, sidecar
<1> QED BY <1>5, <1>6, ClientFrame

LEMMA CheckPendingStep ==
    ASSUME RecordingInv, NEW c \in Client, CheckPending(c)
    PROVE  RecordingInv'
<1>1. client[c].take \in Take /\ client[c].group \in Take
  BY DEF CheckPending, RecordingInv, ClientsNameTakes, Names
<1>2. client' \in [Client -> Request] /\ ClientsNameTakes'
  BY <1>1, ClientEnds, ClientGoesOn DEF CheckPending
<1>3. /\ manifest' \in [Take -> Maybe(Manifest)] /\ TakeHasManifest'
      /\ native' \in Controller /\ native'.outbox = native.outbox
      /\ used' \in Nat /\ faults' \in Nat
      /\ UNCHANGED <<rows, core, completion, host, wire, edits, sound>>
  BY DEF CheckPending, RecordingInv, DataOK, ActorsOK, TakeHasManifest, files, sidecar, counters
<1> QED BY <1>2, <1>3, ClientFrame

LEMMA StartArrangeRecordingStep ==
    ASSUME RecordingInv, NEW c \in Client, StartArrangeRecording(c)
    PROVE  RecordingInv'
<1>1. client[c].take \in Take /\ client[c].group \in Take
  BY DEF StartArrangeRecording, RecordingInv, ClientsNameTakes, Names
<1>2. client' \in [Client -> Request] /\ ClientsNameTakes'
  BY <1>1, ClientEnds, ClientGoesOn DEF StartArrangeRecording
<1>3. /\ manifest' \in [Take -> Maybe(Manifest)] /\ TakeHasManifest'
      /\ native' \in Controller /\ native'.outbox = native.outbox
  <2>1. native \in Controller /\ manifest \in [Take -> Maybe(Manifest)] /\ TakeHasManifest
    BY DEF RecordingInv, DataOK, ActorsOK
  <2>2. CASE UNCHANGED <<native, manifest>>
    BY <2>1, <2>2 DEF TakeHasManifest
  <2>3. CASE /\ native' = [native EXCEPT !.phase = "recording", !.take = client[c].take, !.last = None]
             /\ manifest' = [manifest EXCEPT ![client[c].take] =
                    [state |-> "recording", capture |-> "none", group |-> None]]
    <3>1. [state |-> "recording", capture |-> "none", group |-> None] \in Manifest
      BY DEF Manifest, States, Maybe
    <3>2. native' \in Controller /\ native'.outbox = native.outbox
          /\ native'.phase = "recording" /\ native'.take = client[c].take
      BY <1>1, <2>1, <2>3 DEF Controller, Phases, Maybe
    <3>3. manifest' \in [Take -> Maybe(Manifest)] /\ manifest'[client[c].take] \in Manifest
      BY <1>1, <2>1, <2>3, <3>1 DEF Maybe
    <3> QED BY <1>1, <3>2, <3>3 DEF TakeHasManifest
  <2> QED BY <2>2, <2>3 DEF StartArrangeRecording
<1>4. used' \in Nat /\ faults' \in Nat
  BY FaultsAreCounted DEF StartArrangeRecording, RecordingInv, DataOK, counters
<1>5. UNCHANGED <<rows, core, completion, host, wire, edits, sound>>
  BY DEF StartArrangeRecording, counters
<1> QED BY <1>2, <1>3, <1>4, <1>5, ClientFrame

LEMMA SaveCaptureStartStep ==
    ASSUME RecordingInv, NEW c \in Client, SaveCaptureStart(c)
    PROVE  RecordingInv'
<1> DEFINE t == client[c].take
<1>1. t \in Take /\ client[c].group \in Take /\ client[c] \in Request
  BY DEF SaveCaptureStart, RecordingInv, ClientsNameTakes, Names, ActorsOK
<1>2. client' \in [Client -> Request] /\ ClientsNameTakes'
  BY <1>1, ClientEnds, ClientGoesOn, ClientReads DEF SaveCaptureStart
<1>3. UNCHANGED <<native, wire, host, rows, core, completion, counters, sound>>
  BY DEF SaveCaptureStart, sidecar
<1>4. manifest' \in [Take -> Maybe(Manifest)] /\ TakeHasManifest'
  <2>1. CASE UNCHANGED manifest
    BY <1>3, <2>1 DEF RecordingInv, DataOK, TakeHasManifest
  <2>2. CASE client[c].doc # None /\ Replace(t, CaptureStart(client[c].doc, client[c].group))
    <3>1. client[c].doc \in Manifest
      BY <1>1, <2>2 DEF Request, Maybe
    <3>2. CaptureStart(client[c].doc, client[c].group) \in Manifest
      BY <1>1, <3>1, CapturesAreManifests
    <3> QED BY <1>1, <1>3, <2>2, <3>2, ManifestSet DEF Replace
  <2> QED BY <2>1, <2>2 DEF SaveCaptureStart
<1>5. Fault \/ Faultless
  BY DEF SaveCaptureStart, CannotSave
<1>6. /\ native' \in Controller /\ native'.outbox = native.outbox
      /\ used' \in Nat /\ faults' \in Nat
      /\ UNCHANGED <<rows, core, completion, host, wire, edits, sound>>
  BY <1>3, <1>5, FaultsAreCounted DEF RecordingInv, DataOK, ActorsOK, counters
<1> QED BY <1>2, <1>4, <1>6, ClientFrame

LEMMA PersistRefusalStep ==
    ASSUME RecordingInv, NEW c \in Client, PersistRefusal(c)
    PROVE  RecordingInv'
<1> DEFINE t == client[c].take
<1>1. t \in Take /\ client[c] \in Request
  BY DEF PersistRefusal, RecordingInv, ClientsNameTakes, Names, ActorsOK
<1>2. client' \in [Client -> Request] /\ ClientsNameTakes'
  BY <1>1, ClientEnds, ClientGoesOn, ClientReads DEF PersistRefusal
<1>3. UNCHANGED <<native, wire, host, rows, core, completion, counters, sound>>
  BY DEF PersistRefusal, sidecar
<1>4. manifest' \in [Take -> Maybe(Manifest)] /\ TakeHasManifest'
  <2>1. CASE UNCHANGED manifest
    BY <1>3, <2>1 DEF RecordingInv, DataOK, TakeHasManifest
  <2>2. CASE client[c].doc # None /\ Replace(t, CaptureFailure(client[c].doc))
    <3>1. client[c].doc \in Manifest
      BY <1>1, <2>2 DEF Request, Maybe
    <3>2. CaptureFailure(client[c].doc) \in Manifest
      BY <1>1, <3>1, CapturesAreManifests
    <3> QED BY <1>1, <1>3, <2>2, <3>2, ManifestSet DEF Replace
  <2> QED BY <2>1, <2>2 DEF PersistRefusal
<1>5. Fault \/ Faultless
  BY DEF PersistRefusal, CannotSave
<1>6. /\ native' \in Controller /\ native'.outbox = native.outbox
      /\ used' \in Nat /\ faults' \in Nat
      /\ UNCHANGED <<rows, core, completion, host, wire, edits, sound>>
  BY <1>3, <1>5, FaultsAreCounted DEF RecordingInv, DataOK, ActorsOK, counters
<1> QED BY <1>2, <1>4, <1>6, ClientFrame

\* A stop leaves the sidecar either stopping its take or without it.
LEMMA NativeStops ==
    ASSUME RecordingInv, NativeStop
    PROVE  /\ manifest' \in [Take -> Maybe(Manifest)] /\ TakeHasManifest'
           /\ native' \in Controller /\ native'.outbox = native.outbox
<1>1. native \in Controller /\ manifest \in [Take -> Maybe(Manifest)] /\ TakeHasManifest
  BY DEF RecordingInv, DataOK, ActorsOK
<1>2. CASE UNCHANGED <<native, manifest>>
  BY <1>1, <1>2 DEF TakeHasManifest
<1>3. CASE /\ native.phase = "recording"
           /\ native' = [native EXCEPT !.phase = "stopping"] /\ UNCHANGED manifest
  BY <1>1, <1>3 DEF TakeHasManifest, Controller, Phases
<1>4. CASE /\ native.phase = "recording"
           /\ native' = [native EXCEPT !.phase = "idle", !.take = None]
           /\ manifest' = [manifest EXCEPT ![native.take] = None]
  <2>1. /\ native' \in Controller /\ native'.outbox = native.outbox /\ native'.phase = "idle"
    BY <1>1, <1>4 DEF Controller, Phases, Maybe
  <2>2. manifest' \in [Take -> Maybe(Manifest)]
    BY <1>1, <1>4 DEF Maybe
  <2> QED BY <2>1, <2>2 DEF TakeHasManifest
<1> QED BY <1>2, <1>3, <1>4 DEF NativeStop

LEMMA StopAgainStep ==
    ASSUME RecordingInv, NEW c \in Client, StopAgain(c)
    PROVE  RecordingInv'
<1>1. client' \in [Client -> Request] /\ ClientsNameTakes'
  BY ClientEnds DEF StopAgain
<1>2. /\ manifest' \in [Take -> Maybe(Manifest)] /\ TakeHasManifest'
      /\ native' \in Controller /\ native'.outbox = native.outbox
  <2>1. CASE NativeStop
    BY <2>1, NativeStops
  <2>2. CASE UNCHANGED <<native, manifest>>
    BY <2>2 DEF RecordingInv, DataOK, ActorsOK, TakeHasManifest
  <2> QED BY <2>1, <2>2 DEF StopAgain
<1>3. /\ used' \in Nat /\ faults' \in Nat
      /\ UNCHANGED <<rows, core, completion, host, wire, edits, sound>>
  BY DEF StopAgain, RecordingInv, DataOK, counters
<1> QED BY <1>1, <1>2, <1>3, ClientFrame

LEMMA StopRecordingStep ==
    ASSUME RecordingInv, NEW c \in Client, StopRecording(c)
    PROVE  RecordingInv'
<1>1. native \in Controller
  BY DEF RecordingInv, ActorsOK
<1>2. client' \in [Client -> Request] /\ ClientsNameTakes'
  <2>1. CASE client' = [client EXCEPT ![c] = [Idle EXCEPT !.step = "ask"]]
    <3> DEFINE request == [Idle EXCEPT !.step = "ask"]
    <3>1. request \in Request /\ Names(request)
      BY DEF Idle, Request, ClientSteps, Names, Maybe
    <3> HIDE DEF request
    <3> QED BY <2>1, <3>1, ClientSet DEF request
  <2>2. CASE client' = [client EXCEPT ![c] = [Idle EXCEPT !.step = "ask", !.active = Active,
                            !.take = IF Active THEN native.take ELSE native.last]]
    <3> DEFINE request == [Idle EXCEPT !.step = "ask", !.active = Active,
                               !.take = IF Active THEN native.take ELSE native.last]
    <3>1. Active \in BOOLEAN /\ native.take \in Maybe(Take) /\ native.last \in Maybe(Take)
      BY <1>1 DEF Active, Controller
    <3>2. request \in Request /\ Names(request)
      BY <3>1 DEF Idle, Request, ClientSteps, Names, Maybe
    <3> HIDE DEF request
    <3> QED BY <2>2, <3>2, ClientSet DEF request
  <2> QED BY <2>1, <2>2 DEF StopRecording
<1>3. Fault \/ Faultless
  BY DEF StopRecording
<1>4. /\ manifest' \in [Take -> Maybe(Manifest)] /\ TakeHasManifest'
      /\ native' \in Controller /\ native'.outbox = native.outbox
      /\ used' \in Nat /\ faults' \in Nat
      /\ UNCHANGED <<rows, core, completion, host, wire, edits, sound>>
  BY <1>3, FaultsAreCounted
  DEF StopRecording, RecordingInv, DataOK, ActorsOK, TakeHasManifest, files, sidecar, counters
<1> QED BY <1>2, <1>4, ClientFrame

LEMMA StopArrangeRecordingStep ==
    ASSUME RecordingInv, NEW c \in Client, StopArrangeRecording(c)
    PROVE  RecordingInv'
<1> DEFINE directory == IF native.take # None THEN native.take
                        ELSE IF native.last # None THEN native.last ELSE client[c].take
<1>1. native \in Controller /\ client[c] \in Request /\ client \in [Client -> Request]
  BY DEF RecordingInv, ActorsOK
<1>2. directory # None => directory \in Take
  BY <1>1 DEF Controller, Request, Maybe
<1>3. client' \in [Client -> Request] /\ ClientsNameTakes'
  <2>1. CASE Ends(c)
    BY <2>1, ClientEnds
  <2>2. CASE directory # None /\ client' = [client EXCEPT ![c].step = "begin", ![c].take = directory]
    <3> DEFINE request == [client[c] EXCEPT !.step = "begin", !.take = directory]
    <3>1. client' = [client EXCEPT ![c] = request]
      BY <1>1, <2>2
    <3>2. request \in Request /\ Names(request)
      BY <1>1, <1>2, <2>2 DEF Request, ClientSteps, Names, Maybe
    <3> HIDE DEF request
    <3> QED BY <3>1, <3>2, ClientSet
  <2> QED BY <2>1, <2>2 DEF StopArrangeRecording
<1>4. /\ manifest' \in [Take -> Maybe(Manifest)] /\ TakeHasManifest'
      /\ native' \in Controller /\ native'.outbox = native.outbox
  BY NativeStops DEF StopArrangeRecording
<1>5. Fault \/ Faultless
  BY DEF StopArrangeRecording
<1>6. /\ used' \in Nat /\ faults' \in Nat
      /\ UNCHANGED <<rows, core, completion, host, wire, edits, sound>>
  BY <1>5, FaultsAreCounted DEF StopArrangeRecording, RecordingInv, DataOK, counters
<1> QED BY <1>3, <1>4, <1>6, ClientFrame

\* A finalization begins with a worker that only waits.
\* What a request that touches the pending finalization leaves alone.
LEMMA PendingFrame ==
    ASSUME RecordingInv,
           client' \in [Client -> Request], ClientsNameTakes',
           worker' \in [Take -> Finalizer], WorkersAreEntitled',
           pending' \in Maybe(Take), faults' \in Nat,
           UNCHANGED <<files, core, slot, host, sidecar, counters, sound>>
    PROVE  RecordingInv'
<1>1. DataOK' /\ ActorsOK' /\ TakeHasManifest' /\ OutcomesAreTrue'
  BY DEF RecordingInv, DataOK, ActorsOK, TakeHasManifest, OutcomesAreTrue, files, core, sidecar, counters
<1>2. Whole(session)' /\ HistoryIsWhole' /\ EditsAreKept'
  BY CoreFrame DEF files
<1> QED BY <1>1, <1>2 DEF RecordingInv

LEMMA BeginFinalizationStep ==
    ASSUME RecordingInv, NEW c \in Client, BeginFinalization(c)
    PROVE  RecordingInv'
<1> DEFINE t == client[c].take
<1>1. t \in Take
  BY DEF BeginFinalization, RecordingInv, ClientsNameTakes, Names
<1>2. client' \in [Client -> Request] /\ ClientsNameTakes'
  BY <1>1, ClientEnds, ClientGoesOn DEF BeginFinalization
<1>3. worker' \in [Take -> Finalizer] /\ WorkersAreEntitled' /\ pending' \in Maybe(Take)
  <2>1. CASE UNCHANGED worker /\ pending' \in {pending, t}
    BY <1>1, <2>1, WorkersFrame DEF BeginFinalization, files, RecordingInv, ActorsOK, Maybe
  <2>2. CASE pending' = t /\ worker' = [worker EXCEPT ![t] = [NoWorker EXCEPT !.step = "wait"]]
    <3> DEFINE w == [NoWorker EXCEPT !.step = "wait"]
    <3>1. w \in Finalizer /\ w.step = "wait"
      BY DEF NoWorker, Finalizer, WorkerSteps, Maybe
    <3> HIDE DEF w
    <3>2. worker' \in [Take -> Finalizer] /\ WorkersAreEntitled'
      BY <1>1, <2>2, <3>1, WorkerSet DEF w, BeginFinalization, files
    <3> QED BY <1>1, <2>2, <3>2 DEF Maybe
  <2> QED BY <2>1, <2>2 DEF BeginFinalization
<1>4. faults' \in Nat
  BY FaultsAreCounted DEF BeginFinalization
<1>5. UNCHANGED <<files, core, slot, host, sidecar, counters, sound>>
  BY DEF BeginFinalization
<1> QED BY <1>2, <1>3, <1>4, <1>5, PendingFrame

LEMMA WithdrawFinalizationStep ==
    ASSUME RecordingInv, NEW c \in Client, WithdrawFinalization(c)
    PROVE  RecordingInv'
<1>1. client' \in [Client -> Request] /\ ClientsNameTakes'
  BY ClientEnds DEF WithdrawFinalization
<1>2. /\ UNCHANGED <<files, core, slot, host, sidecar, counters, sound>> /\ UNCHANGED worker
      /\ pending' \in Maybe(Take) /\ faults' \in Nat
  BY DEF WithdrawFinalization, Maybe, RecordingInv, DataOK
<1>3. worker' \in [Take -> Finalizer] /\ WorkersAreEntitled'
  BY <1>2, WorkersFrame DEF files
<1> QED BY <1>1, <1>2, <1>3, PendingFrame

-----------------------------------------------------------------------------
(* The workers.                                                            *)

\* What a worker leaves alone before the commit.
LEMMA WorkerFrame ==
    ASSUME RecordingInv,
           worker' \in [Take -> Finalizer], WorkersAreEntitled',
           manifest' \in [Take -> Maybe(Manifest)], TakeHasManifest',
           rows \subseteq rows', rows' \subseteq Take,
           slot' \in {slot, None}, pending' \in Maybe(Take), faults' \in Nat,
           UNCHANGED <<core, client, host, sidecar, counters, sound>>
    PROVE  RecordingInv'
<1>1. DataOK'
  BY DEF RecordingInv, DataOK, core, counters
<1>2. ActorsOK'
  BY DEF RecordingInv, ActorsOK, sidecar, Maybe
<1>3. ClientsNameTakes' /\ OutcomesAreTrue'
  BY DEF RecordingInv, ClientsNameTakes, Names, OutcomesAreTrue, sidecar
<1>4. Whole(session)' /\ HistoryIsWhole' /\ EditsAreKept'
  BY CoreFrame
<1> QED BY <1>1, <1>2, <1>3, <1>4 DEF RecordingInv

\* A worker that failed or has nothing to do is entitled to nothing.
LEMMA WorkerFails ==
    ASSUME RecordingInv, NEW t \in Take, Fails(t), rows \subseteq rows', UNCHANGED sound
    PROVE  worker' \in [Take -> Finalizer] /\ WorkersAreEntitled'
<1> DEFINE w == [NoWorker EXCEPT !.step = "persist"]
<1>1. w \in Finalizer /\ w.step = "persist"
  BY DEF NoWorker, Finalizer, WorkerSteps, Maybe
<1> HIDE DEF w
<1> QED BY <1>1, WorkerSet DEF w, Fails

\* A worker goes on to a step that asks for no more than it has.
LEMMA WorkerGoesOn ==
    ASSUME RecordingInv, NEW t \in Take, NEW step \in WorkerSteps, To(t, step),
           rows \subseteq rows', UNCHANGED sound,
           step \in {"completing", "prepare", "register", "save", "commit"} => t \in sound,
           step \in {"register", "save", "commit"} => worker[t].base \in Session /\ worker[t].group \in Take,
           step \in {"save", "commit"} => t \in rows'
    PROVE  worker' \in [Take -> Finalizer] /\ WorkersAreEntitled'
<1>1. worker \in [Take -> Finalizer] /\ worker[t] \in Finalizer
  BY DEF RecordingInv, ActorsOK
<1> DEFINE w == [worker[t] EXCEPT !.step = step, !.doc = None]
<1>2. worker' = [worker EXCEPT ![t] = w]
  BY <1>1 DEF To
<1>3. w \in Finalizer /\ w.step = step /\ w.base = worker[t].base /\ w.group = worker[t].group
  BY <1>1 DEF Finalizer, Maybe
<1> HIDE DEF w
<1> QED BY <1>2, <1>3, WorkerSet

\* The way to the commit begins with the outcome of the take itself: no other
\* take's, and no failure of the sidecar, is ever good.
LEMMA WaitForCompletionStep ==
    ASSUME RecordingInv, NEW t \in Take, WaitForCompletion(t)
    PROVE  RecordingInv'
<1>1. UNCHANGED <<files, core, pending, client, host, sidecar, counters, faults, sound>>
  BY DEF WaitForCompletion
<1>2. CASE slot # None /\ Concerns(slot, t)
  <2>1. slot \in Outcome /\ (slot.ok => slot.take \in sound) /\ sound \subseteq Take
    BY <1>2 DEF RecordingInv, ActorsOK, DataOK, OutcomesAreTrue, Maybe
  <2>2. slot.ok => t \in sound
    BY <1>2, <2>1, NoneIsNoNumber DEF Concerns
  <2>3. slot' = None /\ To(t, IF slot.ok THEN "completing" ELSE "persist")
    BY <1>2 DEF WaitForCompletion
  <2>4. worker' \in [Take -> Finalizer] /\ WorkersAreEntitled'
    BY <1>1, <2>2, <2>3, WorkerGoesOn DEF files, WorkerSteps
  <2> QED BY <1>1, <2>3, <2>4, WorkerFrame DEF files, sidecar, RecordingInv, DataOK, ActorsOK, TakeHasManifest
<1>3. CASE ~(slot # None /\ Concerns(slot, t))
  <2>1. slot' = slot /\ To(t, IF host = "open" THEN "asleep" ELSE "persist")
    BY <1>3 DEF WaitForCompletion
  <2>2. worker' \in [Take -> Finalizer] /\ WorkersAreEntitled'
    BY <1>1, <2>1, WorkerGoesOn DEF files, WorkerSteps
  <2> QED BY <1>1, <2>1, <2>2, WorkerFrame DEF files, sidecar, RecordingInv, DataOK, ActorsOK, TakeHasManifest
<1> QED BY <1>2, <1>3

LEMMA UpdateManifestStep ==
    ASSUME RecordingInv, NEW t \in Take, UpdateManifest(t)
    PROVE  RecordingInv'
<1>1. UNCHANGED <<rows, core, pending, slot, client, host, sidecar, counters, sound>> /\ faults' \in Nat
  BY FaultsAreCounted DEF UpdateManifest, CannotSave
<1>2. /\ worker \in [Take -> Finalizer] /\ worker[t] \in Finalizer /\ Entitled(worker[t], t)
      /\ worker[t].step \in Saving /\ manifest \in [Take -> Maybe(Manifest)]
      /\ native' = native /\ TakeHasManifest
  BY <1>1 DEF UpdateManifest, RecordingInv, ActorsOK, DataOK, WorkersAreEntitled, sidecar
<1>3. CASE worker' = [worker EXCEPT ![t].doc = manifest[t]] /\ UNCHANGED manifest
  <2> DEFINE w == [worker[t] EXCEPT !.doc = manifest[t]]
  <2>1. worker' = [worker EXCEPT ![t] = w]
    BY <1>2, <1>3
  <2>2. w \in Finalizer /\ w.step = worker[t].step /\ w.base = worker[t].base /\ w.group = worker[t].group
    BY <1>2 DEF Finalizer
  <2> HIDE DEF w
  <2>3. worker' \in [Take -> Finalizer] /\ WorkersAreEntitled'
    BY <1>1, <1>2, <2>1, <2>2, WorkerSet DEF Entitled
  <2>4. rows' \subseteq Take /\ pending' \in Maybe(Take) /\ TakeHasManifest'
    BY <1>1, <1>2, <1>3 DEF RecordingInv, DataOK, ActorsOK, TakeHasManifest
  <2> QED BY <1>1, <1>2, <1>3, <2>3, <2>4, WorkerFrame
<1>4. CASE /\ worker[t].doc # None
           /\ Replace(t, Written(t))
           /\ To(t, After(worker[t].step))
  <2>1. worker[t].doc \in Manifest
    BY <1>2, <1>4 DEF Finalizer, Maybe
  <2>2. PICK g : g \in Take
    OBVIOUS
  <2>3. Written(t) \in Manifest
    BY <1>2, <2>1, <2>2, CapturesAreManifests DEF Written, Saving
  <2>4. After(worker[t].step) \in {"prepare", "commit", "fail"}
    BY <1>2 DEF After, Saving
  <2>5. After(worker[t].step) = "prepare" => worker[t].step = "completing"
    BY <1>2 DEF After, Saving
  <2>6. After(worker[t].step) = "commit" => worker[t].step = "save"
    BY <1>2 DEF After, Saving
  <2> DEFINE step == After(worker[t].step)
  <2> HIDE DEF step
  <2>7. worker' \in [Take -> Finalizer] /\ WorkersAreEntitled'
    BY <1>1, <1>2, <1>4, <2>4, <2>5, <2>6, WorkerGoesOn DEF step, Entitled, WorkerSteps
  <2>8. manifest' \in [Take -> Maybe(Manifest)] /\ TakeHasManifest'
    BY <1>2, <1>4, <2>3, ManifestSet DEF Replace
  <2>9. rows' \subseteq Take /\ pending' \in Maybe(Take)
    BY <1>1 DEF RecordingInv, DataOK, ActorsOK
  <2> QED BY <1>1, <2>7, <2>8, <2>9, WorkerFrame
<1>5. CASE /\ IF worker[t].step = "persist" THEN To(t, "fail") ELSE Fails(t)
           /\ UNCHANGED manifest
  <2>1. worker' \in [Take -> Finalizer] /\ WorkersAreEntitled'
    BY <1>1, <1>5, WorkerGoesOn, WorkerFails DEF WorkerSteps
  <2>2. rows' \subseteq Take /\ pending' \in Maybe(Take) /\ TakeHasManifest'
    BY <1>1, <1>2, <1>5 DEF RecordingInv, DataOK, ActorsOK, TakeHasManifest
  <2> QED BY <1>1, <1>2, <1>5, <2>1, <2>2, WorkerFrame
<1> QED BY <1>3, <1>4, <1>5 DEF UpdateManifest

LEMMA PrepareFinalizationStep ==
    ASSUME RecordingInv, NEW t \in Take, PrepareFinalization(t)
    PROVE  RecordingInv'
<1>1. /\ UNCHANGED <<files, core, pending, slot, client, host, sidecar, counters, sound>>
      /\ faults' \in Nat
  BY FaultsAreCounted DEF PrepareFinalization
<1>2. /\ worker \in [Take -> Finalizer] /\ worker[t] \in Finalizer /\ t \in sound
      /\ session \in Session /\ manifest[t] \in Maybe(Manifest)
  BY DEF PrepareFinalization, RecordingInv, ActorsOK, DataOK, WorkersAreEntitled, Entitled
<1>3. worker' \in [Take -> Finalizer] /\ WorkersAreEntitled'
  <2>1. CASE Fails(t)
    BY <1>1, <2>1, WorkerFails DEF files
  <2>2. CASE /\ Complete(t)
             /\ worker' = [worker EXCEPT ![t] = [@ EXCEPT !.step = "register", !.base = session,
                    !.group = IF manifest[t].group # None THEN manifest[t].group ELSE t]]
    <3> DEFINE w == [worker[t] EXCEPT !.step = "register", !.base = session,
                         !.group = IF manifest[t].group # None THEN manifest[t].group ELSE t]
    <3>1. worker' = [worker EXCEPT ![t] = w]
      BY <1>2, <2>2
    <3>2. manifest[t].group \in Maybe(Take)
      BY <1>2, <2>2 DEF Complete, Maybe, Manifest
    <3>3. (IF manifest[t].group # None THEN manifest[t].group ELSE t) \in Take
      BY <3>2 DEF Maybe
    <3>4. w \in Finalizer /\ w.step = "register" /\ w.base \in Session /\ w.group \in Take
      BY <1>2, <3>3 DEF Finalizer, WorkerSteps, Maybe
    <3> HIDE DEF w
    <3> QED BY <1>1, <1>2, <3>1, <3>4, WorkerSet DEF files
  <2> QED BY <2>1, <2>2 DEF PrepareFinalization
<1> QED BY <1>1, <1>3, WorkerFrame DEF files, sidecar, RecordingInv, DataOK, ActorsOK, TakeHasManifest

LEMMA RegisterOutputsStep ==
    ASSUME RecordingInv, NEW t \in Take, RegisterOutputs(t)
    PROVE  RecordingInv'
<1>1. /\ UNCHANGED <<manifest, core, pending, slot, client, host, sidecar, counters, sound>>
      /\ faults' \in Nat
  BY FaultsAreCounted DEF RegisterOutputs
<1>2. t \in sound /\ worker[t].base \in Session /\ worker[t].group \in Take
  BY DEF RegisterOutputs, RecordingInv, WorkersAreEntitled, Entitled
<1>3. rows \subseteq rows' /\ rows' \subseteq Take
  BY DEF RegisterOutputs, RecordingInv, DataOK
<1>4. worker' \in [Take -> Finalizer] /\ WorkersAreEntitled'
  BY <1>1, <1>2, <1>3, WorkerFails, WorkerGoesOn DEF RegisterOutputs, WorkerSteps
<1> QED BY <1>1, <1>3, <1>4, WorkerFrame DEF sidecar, RecordingInv, DataOK, ActorsOK, TakeHasManifest

\* The edits of a clip are edits.
LEMMA EditsOfSession ==
    ASSUME NEW s \in Session, NEW r \in Take
    PROVE  EditsOf(s, r) \in SUBSET Edit
<1>1. s.clips[r] \in Maybe(Clip)
  BY DEF Session
<1> QED BY <1>1 DEF EditsOf, Maybe, Clip

\* The candidate is a Session that differs from its base in the take, in its
\* recording session and in the clip, which keeps the edits it had.
LEMMA CandidateSession ==
    ASSUME NEW base \in Session, NEW t \in Take, NEW g \in Take
    PROVE  /\ Candidate(base, t, g) \in Session
           /\ \A u \in Take \ {t} : Candidate(base, t, g).groups[u] = base.groups[u]
           /\ \A r \in Take \ {g} : Candidate(base, t, g).clips[r] = base.clips[r]
           /\ Candidate(base, t, g).clips[g] = [take |-> t, edits |-> EditsOf(base, g)]
<1>1. /\ base.groups \in [Take -> Maybe(Take)] /\ base.recordings \in [Take -> Maybe(Recording)]
      /\ base.clips \in [Take -> Maybe(Clip)] /\ base.elsewhere \in SUBSET Edit
  BY DEF Session
<1> DEFINE recording == [passes |-> (IF base.recordings[g] = None THEN {} ELSE base.recordings[g].passes)
                                        \union {t}, active |-> t]
           clip == [take |-> t, edits |-> EditsOf(base, g)]
           groups == [base.groups EXCEPT ![t] = g]
           recordings == [base.recordings EXCEPT ![g] = recording]
           clips == [base.clips EXCEPT ![g] = clip]
<1>2. recording \in Recording
  <2>1. base.recordings[g] # None => base.recordings[g].passes \in SUBSET Take
    BY <1>1 DEF Maybe, Recording
  <2> QED BY <2>1 DEF Recording
<1>3. clip \in Clip
  BY EditsOfSession DEF Clip
<1>4. Candidate(base, t, g) =
          [base EXCEPT !.groups = groups, !.recordings = recordings, !.clips = clips]
  BY DEF Candidate
<1> HIDE DEF recording, clip
<1>5. /\ groups \in [Take -> Maybe(Take)] /\ recordings \in [Take -> Maybe(Recording)]
      /\ clips \in [Take -> Maybe(Clip)]
  BY <1>1, <1>2, <1>3 DEF Maybe
<1>6. /\ \A u \in Take \ {t} : groups[u] = base.groups[u]
      /\ \A r \in Take \ {g} : clips[r] = base.clips[r]
      /\ clips[g] = clip
  BY <1>1
<1> HIDE DEF groups, recordings, clips
<1>7. /\ Candidate(base, t, g) \in Session
      /\ Candidate(base, t, g).groups = groups /\ Candidate(base, t, g).clips = clips
  BY <1>1, <1>4, <1>5 DEF Session
<1> QED BY <1>6, <1>7 DEF clip

\* Items merged are items, and each is the current one unless the candidate
\* changed it.
LEMMA ItemsMerged ==
    ASSUME NEW S, NEW current \in [Take -> Maybe(S)], NEW base \in [Take -> Maybe(S)],
           NEW candidate \in [Take -> Maybe(S)]
    PROVE  /\ MergeItems(current, base, candidate) \in [Take -> Maybe(S)]
           /\ \A k \in Take : MergeItems(current, base, candidate)[k] =
                  IF candidate[k] \in {base[k], None} THEN current[k] ELSE candidate[k]
BY DEF MergeItems

\* A take brought into a Session leaves every other take and the edits elsewhere
\* where they were, and of the clips touches only the one it goes into: that
\* one has the edits it had, or those seen when the take was made.
MergesOnly(current, merged, t, g, seen) ==
    /\ merged \in Session
    /\ merged.elsewhere = current.elsewhere
    /\ \A u \in Take \ {t} : merged.groups[u] = current.groups[u]
    /\ \A r \in Take : \/ EditsOf(merged, r) = EditsOf(current, r)
                       \/ r = g /\ EditsOf(merged, r) = seen

\* A merge is such a step.
LEMMA MergedSession ==
    ASSUME NEW current \in Session, NEW base \in Session, NEW t \in Take, NEW g \in Take
    PROVE  MergesOnly(current, Merge(current, base, Candidate(base, t, g)), t, g, EditsOf(base, g))
<1> DEFINE candidate == Candidate(base, t, g)
           merged == Merge(current, base, candidate)
           groups == MergeItems(current.groups, base.groups, candidate.groups)
           recordings == MergeItems(current.recordings, base.recordings, candidate.recordings)
           clips == MergeItems(current.clips, base.clips, candidate.clips)
<1>1. /\ candidate \in Session
      /\ \A u \in Take \ {t} : candidate.groups[u] = base.groups[u]
      /\ \A r \in Take \ {g} : candidate.clips[r] = base.clips[r]
      /\ candidate.clips[g] = [take |-> t, edits |-> EditsOf(base, g)]
  BY CandidateSession
<1>2. merged = [current EXCEPT !.groups = groups, !.recordings = recordings, !.clips = clips]
  BY DEF Merge
<1> HIDE DEF candidate, merged
<1>3. \A s \in {current, base, candidate} :
          /\ s.groups \in [Take -> Maybe(Take)] /\ s.recordings \in [Take -> Maybe(Recording)]
          /\ s.clips \in [Take -> Maybe(Clip)]
  BY <1>1 DEF Session
<1>4. /\ groups \in [Take -> Maybe(Take)] /\ recordings \in [Take -> Maybe(Recording)]
      /\ clips \in [Take -> Maybe(Clip)]
      /\ \A u \in Take : groups[u] =
             IF candidate.groups[u] \in {base.groups[u], None} THEN current.groups[u] ELSE candidate.groups[u]
      /\ \A r \in Take : clips[r] =
             IF candidate.clips[r] \in {base.clips[r], None} THEN current.clips[r] ELSE candidate.clips[r]
  BY <1>3, ItemsMerged
<1> HIDE DEF groups, recordings, clips
<1>5. /\ merged \in Session /\ merged.elsewhere = current.elsewhere
      /\ merged.groups = groups /\ merged.clips = clips
  BY <1>2, <1>4 DEF Session
<1>6. \A u \in Take \ {t} : merged.groups[u] = current.groups[u]
  BY <1>1, <1>4, <1>5
<1>7. \A r \in Take \ {g} : merged.clips[r] = current.clips[r]
  BY <1>1, <1>4, <1>5
<1>8. merged.clips[g] = current.clips[g] \/ merged.clips[g] = candidate.clips[g]
  BY <1>4, <1>5
<1>9. candidate.clips[g] # None
  <2>1. None \notin Clip
    BY NoneAssumption
  <2>2. candidate.clips[g] \in Clip
    BY <1>1, EditsOfSession DEF Clip
  <2> QED BY <2>1, <2>2
<1>10. EditsOf(merged, g) = EditsOf(current, g) \/ EditsOf(merged, g) = EditsOf(base, g)
  BY <1>1, <1>8, <1>9 DEF EditsOf
<1>11. \A r \in Take \ {g} : EditsOf(merged, r) = EditsOf(current, r)
  BY <1>7 DEF EditsOf
<1>12. \A r \in Take : \/ EditsOf(merged, r) = EditsOf(current, r)
                       \/ r = g /\ EditsOf(merged, r) = EditsOf(base, g)
  BY <1>10, <1>11
<1> QED BY <1>5, <1>6, <1>12 DEF merged, candidate, MergesOnly

\* What a change with the given entry may do to the edits of a Session.
Advances(s, m, entry) ==
    /\ m.elsewhere = s.elsewhere \union {e \in {entry.edit} : e # None /\ entry.of = None}
    /\ \A r \in Take :
           \/ EditsOf(m, r) = EditsOf(s, r) \union {e \in {entry.edit} : e # None /\ entry.of = r}
           \/ Replaces(entry, r) /\ EditsOf(m, r) = entry.seen

\* What a Session accounts for is told by the entries up to it.
LEMMA AccountsPrefix ==
    ASSUME NEW s, NEW h, NEW longer, NEW n \in Nat, \A i \in 1..n : longer[i] = h[i], Accounts(s, h, n)
    PROVE  Accounts(s, longer, n)
<1>1. s.elsewhere = {longer[i].edit : i \in {j \in 1..n : longer[j].edit # None /\ longer[j].of = None}}
  BY DEF Accounts
<1>2. \A i \in 1..n : \A r \in Take : longer[i].edit # None /\ longer[i].of = r =>
          \/ longer[i].edit \in EditsOf(s, r)
          \/ \E j \in 1..n : j > i /\ Replaces(longer[j], r) /\ longer[i].edit \notin longer[j].seen
  BY DEF Accounts
<1>3. \A r \in Take : \A e \in EditsOf(s, r) : \E i \in 1..n :
          \/ longer[i].edit = e /\ longer[i].of = r
          \/ Replaces(longer[i], r) /\ e \in longer[i].seen
  BY DEF Accounts
<1> QED BY <1>1, <1>2, <1>3 DEF Accounts

\* A change that does what its entry says leaves a Session that accounts for
\* one change more.
LEMMA AccountsAdvance ==
    ASSUME NEW s, NEW m, NEW h, NEW n \in Nat,
           Accounts(s, h, n), Advances(s, m, h[n + 1])
    PROVE  Accounts(m, h, n + 1)
<1> DEFINE entry == h[n + 1]
<1>1. 1..n + 1 = (1..n) \union {n + 1} /\ n + 1 \notin 1..n /\ \A i \in 1..n : n + 1 > i
  OBVIOUS
<1>2. m.elsewhere = {h[i].edit : i \in {j \in 1..n + 1 : h[j].edit # None /\ h[j].of = None}}
  <2>1. \A x : x \in m.elsewhere <=> x \in s.elsewhere \/ (x = entry.edit /\ x # None /\ entry.of = None)
    BY DEF Advances
  <2>2. \A x : x \in s.elsewhere <=> \E i \in 1..n : h[i].edit # None /\ h[i].of = None /\ x = h[i].edit
    BY DEF Accounts
  <2>3. \A x : x \in m.elsewhere <=> \E i \in 1..n + 1 : h[i].edit # None /\ h[i].of = None /\ x = h[i].edit
    BY <1>1, <2>1, <2>2
  <2> QED BY <2>3
<1>3. ASSUME NEW i \in 1..n + 1, NEW r \in Take, h[i].edit # None, h[i].of = r
      PROVE  \/ h[i].edit \in EditsOf(m, r)
             \/ \E j \in 1..n + 1 : j > i /\ Replaces(h[j], r) /\ h[i].edit \notin h[j].seen
  <2>1. CASE i = n + 1
    BY <1>3, <2>1 DEF Advances, Replaces
  <2>2. CASE i \in 1..n
    <3>1. CASE h[i].edit \in EditsOf(s, r)
      BY <1>1, <2>2, <3>1 DEF Advances
    <3>2. CASE \E j \in 1..n : j > i /\ Replaces(h[j], r) /\ h[i].edit \notin h[j].seen
      BY <1>1, <3>2
    <3> QED BY <1>3, <2>2, <3>1, <3>2 DEF Accounts
  <2> QED BY <1>1, <2>1, <2>2
<1>4. ASSUME NEW r \in Take, NEW e \in EditsOf(m, r)
      PROVE  \E i \in 1..n + 1 : \/ h[i].edit = e /\ h[i].of = r
                                 \/ Replaces(h[i], r) /\ e \in h[i].seen
  <2>1. CASE e \in EditsOf(s, r)
    BY <1>1, <2>1 DEF Accounts
  <2>2. CASE e \notin EditsOf(s, r)
    BY <1>1, <1>4, <2>2 DEF Advances
  <2> QED BY <2>1, <2>2
<1> QED BY <1>2, <1>3, <1>4 DEF Accounts

\* A change makes a new Session and pushes the one before it.
LEMMA PushStep ==
    ASSUME RecordingInv, NEW m \in Session, NEW edit \in Maybe(Edit), NEW r \in Maybe(Take),
           NEW seen \in SUBSET Edit, Commits(m, edit, r, seen),
           Advances(session, m, [session |-> session, edit |-> edit, of |-> r, seen |-> seen]),
           UNCHANGED <<rows, sound>>
    PROVE  history' \in Seq(Entry) /\ HistoryIsWhole' /\ EditsAreKept'
<1> DEFINE entry == [session |-> session, edit |-> edit, of |-> r, seen |-> seen]
           n == Len(history)
<1>1. /\ session \in Session /\ history \in Seq(Entry) /\ n \in Nat
      /\ session' = m /\ history' = Append(history, entry)
  BY DEF RecordingInv, DataOK, Commits
<1>2. entry \in Entry /\ entry.session = session
  BY <1>1 DEF Entry
<1> HIDE DEF entry
<1>3. /\ history' \in Seq(Entry) /\ Len(history') = n + 1
      /\ \A i \in 1..n : history'[i] = history[i]
      /\ history'[n + 1] = entry
      /\ DOMAIN history' = 1..n + 1 /\ DOMAIN history = 1..n
  BY <1>1, <1>2
<1> HIDE DEF n
<1>4. HistoryIsWhole'
  <2>1. \A i \in 1..n : Whole(history[i].session)
    BY <1>3 DEF RecordingInv, HistoryIsWhole
  <2>2. Whole(entry.session)
    BY <1>2 DEF RecordingInv
  <2>3. \A i \in 1..n + 1 : Whole(history'[i].session)
    <3> TAKE i \in 1..n + 1
    <3>1. CASE i = n + 1
      BY <1>3, <2>2, <3>1
    <3>2. CASE i # n + 1
      <4>1. i \in 1..n
        BY <1>1, <3>2
      <4> QED BY <1>3, <2>1, <4>1
    <3> QED BY <3>1, <3>2
  <2> QED BY <1>3, <2>3 DEF HistoryIsWhole, Whole, Consistent
<1>5. EditsAreKept'
  <2>1. /\ Accounts(session, history, n)
        /\ \A k \in 1..n : Accounts(history[k].session, history, k - 1)
    BY <1>3 DEF RecordingInv, EditsAreKept, n
  <2>2. Accounts(session, history', n)
    BY <1>1, <1>3, <2>1, AccountsPrefix
  <2>3. Accounts(m, history', n + 1)
    BY <1>1, <1>3, <2>2, AccountsAdvance DEF entry
  <2>4. \A k \in 1..n + 1 : Accounts(history'[k].session, history', k - 1)
    <3> TAKE k \in 1..n + 1
    <3>1. CASE k = n + 1
      <4>1. history'[k].session = session /\ k - 1 = n
        BY <1>1, <1>2, <1>3, <3>1
      <4> QED BY <2>2, <4>1
    <3>2. CASE k # n + 1
      <4>1. k \in 1..n /\ k - 1 \in Nat /\ \A i \in 1..k - 1 : i \in 1..n
        BY <1>1, <3>2
      <4>2. Accounts(history[k].session, history', k - 1)
        BY <1>3, <2>1, <4>1, AccountsPrefix
      <4> QED BY <1>3, <4>1, <4>2
    <3> QED BY <3>1, <3>2
  <2>5. EditsAreKept' <=> /\ Accounts(session', history', Len(history'))
                         /\ \A k \in DOMAIN history' : Accounts(history'[k].session, history', k - 1)
    BY DEF EditsAreKept, Accounts, EditsOf, Replaces
  <2> QED BY <1>1, <1>3, <2>3, <2>4, <2>5
<1> QED BY <1>3, <1>4, <1>5

\* The commit: the take the worker is entitled to enters the Session, and a
\* Session that is not consistent is refused.
LEMMA CommitRecordingStep ==
    ASSUME RecordingInv, NEW t \in Take, CommitRecording(t)
    PROVE  RecordingInv'
<1> DEFINE base == worker[t].base
           g == worker[t].group
           merged == Merge(session, base, Candidate(base, t, g))
<1>1. /\ UNCHANGED <<files, pending, slot, client, host, sidecar, counters, sound>>
      /\ faults' \in Nat
  BY FaultsAreCounted DEF CommitRecording
<1>2. /\ t \in sound /\ t \in rows /\ base \in Session /\ g \in Take
      /\ session \in Session /\ Whole(session)
  BY DEF CommitRecording, RecordingInv, DataOK, WorkersAreEntitled, Entitled
<1> HIDE DEF base, g
<1>3. CASE Fails(t) /\ UNCHANGED <<session, history>>
  <2>1. worker' \in [Take -> Finalizer] /\ WorkersAreEntitled'
    BY <1>1, <1>3, WorkerFails DEF files
  <2> QED BY <1>1, <1>3, <2>1, WorkerFrame
          DEF core, files, sidecar, RecordingInv, DataOK, ActorsOK, TakeHasManifest
<1>4. CASE /\ Valid(merged)
           /\ Commits(merged, None, g, EditsOf(base, g))
           /\ worker' = [worker EXCEPT ![t] = [NoWorker EXCEPT !.step = "succeed"]]
  <2>1. /\ merged \in Session /\ merged.elsewhere = session.elsewhere
        /\ \A u \in Take \ {t} : merged.groups[u] = session.groups[u]
        /\ \A r \in Take : \/ EditsOf(merged, r) = EditsOf(session, r)
                           \/ r = g /\ EditsOf(merged, r) = EditsOf(base, g)
    <3>1. MergesOnly(session, merged, t, g, EditsOf(base, g))
      BY <1>2, MergedSession
    <3> HIDE DEF merged
    <3> QED BY <3>1 DEF MergesOnly
  <2> HIDE DEF merged
  <2>2. Whole(merged)
    <3>1. \A u \in Take : merged.groups[u] # None => u \in sound \intersect rows
      BY <1>2, <2>1 DEF Whole
    <3> QED BY <1>4, <3>1 DEF Whole, Valid
  <2>3. Whole(session)'
    BY <1>1, <1>4, <2>2 DEF Whole, Consistent, Commits, files
  <2>4. history' \in Seq(Entry) /\ HistoryIsWhole' /\ EditsAreKept'
    <3> DEFINE seen == EditsOf(base, g)
               entry == [session |-> session, edit |-> None, of |-> g, seen |-> seen]
    <3>1. seen \in SUBSET Edit
      BY <1>2, EditsOfSession
    <3> HIDE DEF seen
    <3>2. /\ entry.edit = None /\ entry.of = g /\ entry.seen = seen
          /\ Replaces(entry, g)
      BY DEF Replaces
    <3>3. merged.elsewhere = session.elsewhere
              \union {e \in {entry.edit} : e # None /\ entry.of = None}
      BY <2>1, <3>2
    <3>4. ASSUME NEW r \in Take
          PROVE  \/ EditsOf(merged, r) = EditsOf(session, r)
                                    \union {e \in {entry.edit} : e # None /\ entry.of = r}
                 \/ Replaces(entry, r) /\ EditsOf(merged, r) = entry.seen
      <4>1. {e \in {entry.edit} : e # None /\ entry.of = r} = {}
        BY <3>2
      <4> QED BY <2>1, <3>2, <4>1 DEF seen
    <3>5. Advances(session, merged, entry)
      BY <3>3, <3>4 DEF Advances
    <3>6. None \in Maybe(Edit) /\ g \in Maybe(Take) /\ UNCHANGED <<rows, sound>>
      BY <1>1, <1>2 DEF Maybe, files
    <3>7. Commits(merged, None, g, seen)
      BY <1>4 DEF seen
    <3> QED BY <2>1, <3>1, <3>5, <3>6, <3>7, PushStep
  <2>5. session' = merged
    BY <1>4 DEF Commits
  <2> DEFINE w == [NoWorker EXCEPT !.step = "succeed"]
  <2>6. w \in Finalizer /\ w.step = "succeed"
    BY DEF NoWorker, Finalizer, WorkerSteps, Maybe
  <2> HIDE DEF w
  <2>7. worker' \in [Take -> Finalizer] /\ WorkersAreEntitled'
    BY <1>1, <1>4, <2>6, WorkerSet DEF w, files
  <2>8. DataOK' /\ ActorsOK'
    BY <1>1, <2>1, <2>4, <2>5, <2>7 DEF RecordingInv, DataOK, ActorsOK, files, sidecar, counters
  <2>9. ClientsNameTakes' /\ TakeHasManifest' /\ OutcomesAreTrue'
    BY <1>1 DEF RecordingInv, ClientsNameTakes, Names, TakeHasManifest, OutcomesAreTrue, files, sidecar
  <2> QED BY <2>3, <2>4, <2>7, <2>8, <2>9 DEF RecordingInv
<1> QED BY <1>3, <1>4 DEF CommitRecording, base, g

LEMMA FinishFinalizationStep ==
    ASSUME RecordingInv, NEW t \in Take, FinishFinalization(t)
    PROVE  RecordingInv'
<1>1. NoWorker \in Finalizer /\ NoWorker.step = "idle"
  BY DEF NoWorker, Finalizer, WorkerSteps, Maybe
<1>2. worker' \in [Take -> Finalizer] /\ WorkersAreEntitled'
  BY <1>1, WorkerSet DEF FinishFinalization, files
<1> QED BY <1>2, WorkerFrame
        DEF FinishFinalization, files, sidecar, RecordingInv, DataOK, ActorsOK, TakeHasManifest, Maybe

-----------------------------------------------------------------------------
(* Edits.                                                                  *)

\* What an edit and an undo leave alone.
LEMMA EditFrame ==
    ASSUME RecordingInv, edits' \in Nat, session' \in Session, history' \in Seq(Entry),
           UNCHANGED <<files, completion, client, host, sidecar, used, faults, sound>>
    PROVE  /\ DataOK' /\ ActorsOK'
           /\ ClientsNameTakes' /\ TakeHasManifest' /\ OutcomesAreTrue' /\ WorkersAreEntitled'
<1>1. DataOK' /\ ActorsOK'
  BY DEF RecordingInv, DataOK, ActorsOK, files, completion, sidecar
<1>2. ClientsNameTakes' /\ TakeHasManifest' /\ OutcomesAreTrue'
  BY DEF RecordingInv, ClientsNameTakes, Names, TakeHasManifest, OutcomesAreTrue, files, completion, sidecar
<1>3. WorkersAreEntitled'
  BY WorkersFrame DEF files, completion
<1> QED BY <1>1, <1>2, <1>3

\* An edit makes a whole Session, and does to the edits what it says.
LEMMA ChangeStep ==
    ASSUME RecordingInv, NEW m \in Session, NEW edit \in Maybe(Edit), NEW r \in Maybe(Take),
           Changes(m, edit, r), Whole(m),
           Advances(session, m, [session |-> session, edit |-> edit, of |-> r, seen |-> {}])
    PROVE  RecordingInv'
<1>1. /\ edits' \in Nat /\ Commits(m, edit, r, {}) /\ session' = m
      /\ UNCHANGED <<files, completion, client, host, sidecar, used, faults, sound>>
      /\ UNCHANGED <<rows, sound>>
  BY DEF Changes, Commits, RecordingInv, DataOK, files
<1>2. history' \in Seq(Entry) /\ HistoryIsWhole' /\ EditsAreKept'
  <2>1. {} \in SUBSET Edit
    OBVIOUS
  <2> QED BY <1>1, <2>1, PushStep
<1>3. Whole(session)'
  BY <1>1 DEF Whole, Consistent
<1> QED BY <1>1, <1>2, <1>3, EditFrame DEF RecordingInv

\* The number of the next edit is an edit.
LEMMA NextEdit ==
    ASSUME RecordingInv, NEW m, NEW edit, NEW r, Changes(m, edit, r)
    PROVE  /\ edits + 1 \in Edit /\ edits + 1 # None /\ edits + 1 \in Maybe(Edit)
           /\ session \in Session /\ Whole(session)
<1>1. edits \in Nat /\ edits < MaxEdits /\ session \in Session /\ Whole(session)
  BY DEF RecordingInv, DataOK, Changes
<1> QED BY <1>1, RecordingAssumption, NoneIsNoNumber DEF Edit, Maybe

LEMMA EditElsewhereStep ==
    ASSUME RecordingInv, EditElsewhere
    PROVE  RecordingInv'
<1> DEFINE e == edits + 1
           m == [session EXCEPT !.elsewhere = @ \union {e}]
           entry == [session |-> session, edit |-> e, of |-> None, seen |-> {}]
<1>1. Changes(m, e, None)
  BY DEF EditElsewhere
<1>2. e \in Edit /\ e # None /\ e \in Maybe(Edit) /\ session \in Session /\ Whole(session)
  BY <1>1, NextEdit
<1> HIDE DEF e
<1>3. /\ m \in Session /\ m.elsewhere = session.elsewhere \union {e} /\ m.groups = session.groups
      /\ m.recordings = session.recordings /\ m.clips = session.clips
  BY <1>2 DEF Session
<1> HIDE DEF m
<1>4. Whole(m)
  BY <1>2, <1>3 DEF Whole, Consistent
<1>5. entry.edit = e /\ entry.of = None /\ None \in Maybe(Take)
  BY DEF Maybe
<1>6. Advances(session, m, entry)
  <2>1. m.elsewhere = session.elsewhere \union {f \in {entry.edit} : f # None /\ entry.of = None}
    BY <1>2, <1>3, <1>5
  <2>2. ASSUME NEW q \in Take
        PROVE  EditsOf(m, q) = EditsOf(session, q)
                   \union {f \in {entry.edit} : f # None /\ entry.of = q}
    <3>1. {f \in {entry.edit} : f # None /\ entry.of = q} = {}
      BY <1>5, NoneIsNoNumber
    <3> QED BY <1>3, <3>1 DEF EditsOf
  <2> QED BY <2>1, <2>2 DEF Advances
<1> QED BY <1>1, <1>2, <1>3, <1>4, <1>5, <1>6, ChangeStep

LEMMA EditClipStep ==
    ASSUME RecordingInv, NEW r \in Take, EditClip(r)
    PROVE  RecordingInv'
<1> DEFINE e == edits + 1
           m == [session EXCEPT !.clips[r].edits = @ \union {e}]
           entry == [session |-> session, edit |-> e, of |-> r, seen |-> {}]
<1>1. Changes(m, e, r) /\ session.clips[r] # None
  BY DEF EditClip
<1>2. e \in Edit /\ e # None /\ e \in Maybe(Edit) /\ session \in Session /\ Whole(session)
  BY <1>1, NextEdit
<1> HIDE DEF e
<1> DEFINE old == session.clips[r]
           clip == [old EXCEPT !.edits = @ \union {e}]
           clips == [session.clips EXCEPT ![r] = clip]
<1>3. /\ clip \in Clip /\ clip.take = old.take /\ clip.edits = old.edits \union {e}
      /\ session.clips \in [Take -> Maybe(Clip)]
  <2>1. session.clips \in [Take -> Maybe(Clip)] /\ old \in Clip
    BY <1>1, <1>2 DEF Session, Maybe
  <2> HIDE DEF old
  <2> QED BY <1>2, <2>1 DEF Clip
<1>4. m = [session EXCEPT !.clips = clips]
  BY <1>2 DEF Session
<1> HIDE DEF clip, old
<1>5. clips \in [Take -> Maybe(Clip)] /\ clips[r] = clip /\ \A q \in Take \ {r} : clips[q] = session.clips[q]
  BY <1>3 DEF Maybe
<1> HIDE DEF clips, m
<1>6. /\ m \in Session /\ m.elsewhere = session.elsewhere /\ m.groups = session.groups
      /\ m.recordings = session.recordings /\ m.clips = clips
  BY <1>2, <1>4, <1>5 DEF Session
<1>7. clip # None
  BY <1>3, NoneAssumption
<1>8. Whole(m)
  <2>1. ASSUME NEW q \in Take PROVE Consistent(m, q)
    <3>1. Consistent(session, q)
      BY <1>2 DEF Whole
    <3>2. CASE q = r
      BY <1>1, <1>3, <1>5, <1>6, <1>7, <3>1, <3>2 DEF Consistent, old
    <3>3. CASE q # r
      BY <1>5, <1>6, <3>1, <3>3 DEF Consistent
    <3> QED BY <3>2, <3>3
  <2> QED BY <1>2, <1>6, <2>1 DEF Whole
<1>9. entry.edit = e /\ entry.of = r /\ r \in Maybe(Take)
  BY DEF Maybe
<1>10. Advances(session, m, entry)
  <2>1. m.elsewhere = session.elsewhere \union {f \in {entry.edit} : f # None /\ entry.of = None}
    <3>1. {f \in {entry.edit} : f # None /\ entry.of = None} = {}
      BY <1>9, NoneIsNoNumber
    <3> QED BY <1>6, <3>1
  <2>2. ASSUME NEW q \in Take
        PROVE  EditsOf(m, q) = EditsOf(session, q)
                   \union {f \in {entry.edit} : f # None /\ entry.of = q}
    <3>1. CASE q = r
      <4>1. EditsOf(m, r) = old.edits \union {e} /\ EditsOf(session, r) = old.edits
        BY <1>1, <1>3, <1>5, <1>6, <1>7 DEF EditsOf, old
      <4>2. {f \in {entry.edit} : f # None /\ entry.of = q} = {e}
        BY <1>2, <1>9, <3>1
      <4> QED BY <3>1, <4>1, <4>2
    <3>2. CASE q # r
      <4>1. EditsOf(m, q) = EditsOf(session, q)
        BY <1>5, <1>6, <3>2 DEF EditsOf
      <4>2. {f \in {entry.edit} : f # None /\ entry.of = q} = {}
        BY <1>9, <3>2
      <4> QED BY <4>1, <4>2
    <3> QED BY <3>1, <3>2
  <2> QED BY <2>1, <2>2 DEF Advances
<1> QED BY <1>1, <1>2, <1>6, <1>8, <1>9, <1>10, ChangeStep

LEMMA ActivateTakeStep ==
    ASSUME RecordingInv, NEW r \in Take, NEW t \in Take, ActivateTake(r, t)
    PROVE  RecordingInv'
<1> DEFINE m == [session EXCEPT !.recordings[r].active = t, !.clips[r].take = t]
           entry == [session |-> session, edit |-> None, of |-> None, seen |-> {}]
<1>1. /\ Changes(m, None, None) /\ session.groups[t] = r
      /\ session.recordings[r] # None /\ session.clips[r] # None
      /\ session \in Session /\ Whole(session)
  BY DEF ActivateTake, RecordingInv, DataOK
<1> DEFINE old == session.clips[r]
           slot0 == session.recordings[r]
           clip == [old EXCEPT !.take = t]
           recording == [slot0 EXCEPT !.active = t]
           clips == [session.clips EXCEPT ![r] = clip]
           recordings == [session.recordings EXCEPT ![r] = recording]
<1>2. /\ clip \in Clip /\ clip.take = t /\ clip.edits = old.edits
      /\ recording \in Recording /\ recording.passes = slot0.passes /\ recording.active = t
      /\ session.clips \in [Take -> Maybe(Clip)] /\ session.recordings \in [Take -> Maybe(Recording)]
  <2>1. /\ session.clips \in [Take -> Maybe(Clip)] /\ old \in Clip
        /\ session.recordings \in [Take -> Maybe(Recording)] /\ slot0 \in Recording
    BY <1>1 DEF Session, Maybe
  <2> HIDE DEF old, slot0
  <2> QED BY <2>1 DEF Clip, Recording
<1>3. m = [session EXCEPT !.recordings = recordings, !.clips = clips]
  BY <1>1 DEF Session
<1> HIDE DEF clip, recording, old, slot0
<1>4. /\ clips \in [Take -> Maybe(Clip)] /\ clips[r] = clip
      /\ recordings \in [Take -> Maybe(Recording)] /\ recordings[r] = recording
      /\ \A q \in Take \ {r} : clips[q] = session.clips[q] /\ recordings[q] = session.recordings[q]
  BY <1>2 DEF Maybe
<1> HIDE DEF clips, recordings, m
<1>5. /\ m \in Session /\ m.elsewhere = session.elsewhere /\ m.groups = session.groups
      /\ m.recordings = recordings /\ m.clips = clips
  BY <1>1, <1>3, <1>4 DEF Session
<1>6. clip # None
  BY <1>2, NoneAssumption
<1>7. Whole(m)
  <2>1. ASSUME NEW q \in Take PROVE Consistent(m, q)
    <3>1. Consistent(session, q)
      BY <1>1 DEF Whole
    <3>2. CASE q = r
      BY <1>1, <1>2, <1>4, <1>5, <1>6, <3>1, <3>2 DEF Consistent, slot0
    <3>3. CASE q # r
      BY <1>4, <1>5, <3>1, <3>3 DEF Consistent
    <3> QED BY <3>2, <3>3
  <2> QED BY <1>1, <1>5, <2>1 DEF Whole
<1>8. None \in Maybe(Edit) /\ None \in Maybe(Take) /\ entry.edit = None
  BY DEF Maybe
<1>9. \A q \in Take : EditsOf(m, q) = EditsOf(session, q)
  <2> TAKE q \in Take
  <2>1. CASE q = r
    BY <1>1, <1>2, <1>4, <1>5, <1>6, <2>1 DEF EditsOf, old
  <2>2. CASE q # r
    BY <1>4, <1>5, <2>2 DEF EditsOf
  <2> QED BY <2>1, <2>2
<1>10. Advances(session, m, entry)
  <2>1. \A x : {f \in {entry.edit} : f # None /\ entry.of = x} = {}
    BY <1>8
  <2> QED BY <1>5, <1>9, <2>1 DEF Advances
<1> QED BY <1>1, <1>5, <1>7, <1>8, <1>10, ChangeStep

LEMMA RemoveClipStep ==
    ASSUME RecordingInv, NEW r \in Take, RemoveClip(r)
    PROVE  RecordingInv'
<1> DEFINE groups == [t \in Take |-> IF session.groups[t] = r THEN None ELSE session.groups[t]]
           recordings == [session.recordings EXCEPT ![r] = None]
           clips == [session.clips EXCEPT ![r] = None]
           m == [session EXCEPT !.groups = groups, !.recordings = recordings, !.clips = clips]
           entry == [session |-> session, edit |-> None, of |-> r, seen |-> {}]
<1>1. session \in Session /\ Whole(session)
  BY DEF RecordingInv, DataOK
<1>2. Changes(m, None, r)
  BY <1>1 DEF RemoveClip, Session
<1>3. /\ groups \in [Take -> Maybe(Take)] /\ recordings \in [Take -> Maybe(Recording)]
      /\ clips \in [Take -> Maybe(Clip)]
      /\ recordings[r] = None /\ clips[r] = None
      /\ \A q \in Take \ {r} : clips[q] = session.clips[q] /\ recordings[q] = session.recordings[q]
      /\ \A t \in Take : groups[t] = IF session.groups[t] = r THEN None ELSE session.groups[t]
  BY <1>1 DEF Session, Maybe
<1> HIDE DEF groups, recordings, clips
<1>4. /\ m \in Session /\ m.elsewhere = session.elsewhere /\ m.groups = groups
      /\ m.recordings = recordings /\ m.clips = clips
  BY <1>1, <1>3 DEF Session
<1> HIDE DEF m
<1>5. Whole(m)
  <2>1. \A t \in Take : m.groups[t] # None => t \in sound \intersect rows
    BY <1>1, <1>3, <1>4 DEF Whole
  <2>2. ASSUME NEW q \in Take, m.recordings[q] # None PROVE Consistent(m, q)
    <3>1. Consistent(session, q) /\ q # r
      BY <1>1, <1>3, <1>4, <2>2 DEF Whole
    <3>2. m.recordings[q] = session.recordings[q] /\ m.clips[q] = session.clips[q]
      BY <1>3, <1>4, <3>1
    <3>3. session.recordings[q] \in Recording
      BY <1>1, <2>2, <3>2 DEF Session, Maybe
    <3>4. \A t \in Take : session.groups[t] = q => m.groups[t] = q
      BY <1>3, <1>4, <3>1
    <3> QED BY <3>1, <3>2, <3>3, <3>4 DEF Consistent, Recording
  <2> QED BY <2>1, <2>2 DEF Whole, Consistent
<1>6. /\ None \in Maybe(Edit) /\ r \in Maybe(Take) /\ entry.edit = None
      /\ entry.seen = {} /\ Replaces(entry, r)
  BY DEF Maybe, Replaces
<1>7. EditsOf(m, r) = {} /\ \A q \in Take \ {r} : EditsOf(m, q) = EditsOf(session, q)
  BY <1>3, <1>4 DEF EditsOf
<1>8. Advances(session, m, entry)
  <2>1. \A x : {f \in {entry.edit} : f # None /\ entry.of = x} = {}
    BY <1>6
  <2>2. m.elsewhere = session.elsewhere \union {f \in {entry.edit} : f # None /\ entry.of = None}
    BY <1>4, <2>1
  <2>3. ASSUME NEW q \in Take
        PROVE  \/ EditsOf(m, q) = EditsOf(session, q) \union {f \in {entry.edit} : f # None /\ entry.of = q}
               \/ Replaces(entry, q) /\ EditsOf(m, q) = entry.seen
    BY <1>6, <1>7, <2>1
  <2> QED BY <2>2, <2>3 DEF Advances
<1> QED BY <1>2, <1>4, <1>5, <1>6, <1>8, ChangeStep

\* An undo takes back the newest entry, and the edit it stands for.
LEMMA UndoStep ==
    ASSUME RecordingInv, Undo
    PROVE  RecordingInv'
<1> DEFINE n == Len(history)
<1>1. /\ history \in Seq(Entry) /\ history # <<>> /\ edits' \in Nat
      /\ session' = Last(history).session /\ history' = Front(history)
      /\ UNCHANGED <<files, completion, client, host, sidecar, used, faults, sound>>
  BY DEF Undo, RecordingInv, DataOK
<1>2. /\ n \in Nat \ {0} /\ DOMAIN history = 1..n
      /\ history' \in Seq(Entry) /\ Len(history') = n - 1 /\ DOMAIN history' = 1..n - 1
      /\ \A i \in 1..n - 1 : history'[i] = history[i]
      /\ session' = history[n].session
  <2>1. n \in Nat /\ DOMAIN history = 1..n
    BY <1>1
  <2>2. n # 0
    BY <1>1
  <2>3. history' = SubSeq(history, 1, n - 1) /\ session' = history[n].session
    BY <1>1 DEF Front, Last
  <2> HIDE DEF n
  <2>4. \A i \in 1..n - 1 : history[i] \in Entry
    BY <1>1, <2>1
  <2>5. history' = [i \in 1..n - 1 |-> history[i]]
    BY <1>1, <2>1, <2>2, <2>3 DEF n
  <2>6. history' \in Seq(Entry) /\ Len(history') = n - 1
    BY <2>1, <2>2, <2>4, <2>5
  <2> QED BY <2>1, <2>2, <2>3, <2>5, <2>6
<1> HIDE DEF n
<1>3. /\ \A i \in 1..n : Whole(history[i].session)
      /\ \A k \in 1..n : Accounts(history[k].session, history, k - 1)
  BY <1>2 DEF RecordingInv, HistoryIsWhole, EditsAreKept
<1>4. session' \in Session
  <2>1. n \in 1..n
    BY <1>2
  <2>2. history[n] \in Entry
    BY <1>1, <1>2, <2>1
  <2> QED BY <1>2, <2>2 DEF Entry
<1>5. Whole(session)' /\ HistoryIsWhole'
  <2>1. Whole(history[n].session) /\ \A i \in 1..n - 1 : Whole(history'[i].session)
    BY <1>2, <1>3
  <2>2. UNCHANGED <<rows, sound>>
    BY <1>1 DEF files
  <2>3. Whole(session)'
    BY <1>2, <2>1, <2>2 DEF Whole, Consistent
  <2>4. HistoryIsWhole'
    BY <1>2, <2>1, <2>2 DEF HistoryIsWhole, Whole, Consistent
  <2> QED BY <2>3, <2>4
<1>6. EditsAreKept'
  <2>1. ASSUME NEW k \in 1..n PROVE Accounts(history[k].session, history', k - 1)
    <3>1. k - 1 \in Nat /\ \A i \in 1..k - 1 : i \in 1..n - 1
      BY <1>2
    <3>2. \A i \in 1..k - 1 : history'[i] = history[i]
      BY <1>2, <3>1
    <3> QED BY <1>3, <3>1, <3>2, AccountsPrefix
  <2>2. Accounts(session', history', n - 1)
    BY <1>2, <2>1
  <2>3. \A k \in 1..n - 1 : Accounts(history'[k].session, history', k - 1)
    BY <1>2, <2>1
  <2>4. EditsAreKept' <=> /\ Accounts(session', history', Len(history'))
                         /\ \A k \in DOMAIN history' : Accounts(history'[k].session, history', k - 1)
    BY DEF EditsAreKept, Accounts, EditsOf, Replaces
  <2> QED BY <1>2, <2>2, <2>3, <2>4
<1> QED BY <1>1, <1>2, <1>4, <1>5, <1>6, EditFrame DEF RecordingInv

-----------------------------------------------------------------------------
(* The sidecar and the reader of its events.                               *)

\* What the sidecar leaves alone.
LEMMA NativeFrame ==
    ASSUME RecordingInv,
           manifest' \in [Take -> Maybe(Manifest)], native' \in Controller, TakeHasManifest',
           wire' \in Seq(Outcome \union {Exit}), OutcomesAreTrue',
           sound \subseteq sound', sound' \subseteq Take, faults' \in Nat,
           UNCHANGED <<rows, core, completion, client, host, counters>>
    PROVE  RecordingInv'
<1>1. DataOK' /\ ActorsOK' /\ ClientsNameTakes'
  BY DEF RecordingInv, DataOK, ActorsOK, ClientsNameTakes, Names, core, completion, counters
<1>2. WorkersAreEntitled'
  BY WorkersFrame DEF completion
<1>3. Whole(session)' /\ HistoryIsWhole' /\ EditsAreKept'
  BY CoreFrame
<1> QED BY <1>1, <1>2, <1>3 DEF RecordingInv

\* Steps of the sidecar that tell nobody of anything.
LEMMA QuietStep ==
    ASSUME RecordingInv, LoseDevice \/ CompleteStop \/ ReadManifest
    PROVE  RecordingInv'
<1>1. /\ native \in Controller /\ manifest \in [Take -> Maybe(Manifest)] /\ TakeHasManifest
      /\ OutcomesAreTrue /\ wire \in Seq(Outcome \union {Exit}) /\ sound \subseteq Take /\ faults \in Nat
  BY DEF RecordingInv, DataOK, ActorsOK
<1>2. /\ UNCHANGED <<files, core, completion, client, host, wire, counters, faults, sound>>
      /\ native'.outbox = native.outbox /\ native'.take = native.take
      /\ native.phase \in {"recording", "stopping", "processing"}
  BY <1>1 DEF LoseDevice, CompleteStop, ReadManifest, Controller
<1>3. native.take \in Take /\ manifest[native.take] \in Manifest
  BY <1>1, <1>2 DEF TakeHasManifest
<1>4. native' \in Controller /\ (native'.phase = "writing" => native'.doc \in Manifest)
  <2>1. CASE LoseDevice \/ CompleteStop
    BY <1>1, <2>1 DEF LoseDevice, CompleteStop, Controller, Phases
  <2>2. CASE ReadManifest
    BY <1>1, <1>3, <2>2 DEF ReadManifest, Controller, Phases, Maybe
  <2> QED BY <2>1, <2>2
<1>5. TakeHasManifest'
  BY <1>2, <1>3, <1>4 DEF TakeHasManifest, files
<1>6. OutcomesAreTrue'
  BY <1>1, <1>2 DEF OutcomesAreTrue, completion
<1> QED BY <1>1, <1>2, <1>4, <1>5, <1>6, NativeFrame DEF files

LEMMA FinishProcessingStep ==
    ASSUME RecordingInv, FinishProcessing
    PROVE  RecordingInv'
<1> DEFINE t == native.take
<1>1. /\ native \in Controller /\ manifest \in [Take -> Maybe(Manifest)]
      /\ OutcomesAreTrue /\ wire \in Seq(Outcome \union {Exit}) /\ sound \subseteq Take /\ faults \in Nat
      /\ t \in Take /\ native.doc \in Manifest
  BY DEF FinishProcessing, RecordingInv, DataOK, ActorsOK, TakeHasManifest
<1> HIDE DEF t
<1>2. PICK ok \in BOOLEAN :
          /\ manifest' = [manifest EXCEPT ![t] =
                 [native.doc EXCEPT !.state = IF ok THEN "completed" ELSE "recoverable"]]
          /\ native' = [NativeIdle EXCEPT !.last = t, !.outbox = [take |-> t, ok |-> ok]]
          /\ sound' = IF ok THEN sound \union {t} ELSE sound
  BY DEF FinishProcessing, t
<1>3. [native.doc EXCEPT !.state = IF ok THEN "completed" ELSE "recoverable"] \in Manifest
  BY <1>1 DEF Manifest, States
<1>4. manifest' \in [Take -> Maybe(Manifest)]
  BY <1>1, <1>2, <1>3 DEF Maybe
<1>5. [take |-> t, ok |-> ok] \in Outcome
  BY <1>1 DEF Outcome, Maybe
<1>6. /\ native' \in Controller /\ native'.phase = "idle"
      /\ native'.outbox = [take |-> t, ok |-> ok]
  BY <1>1, <1>2, <1>5 DEF NativeIdle, Controller, Phases, Maybe
<1>7. TakeHasManifest'
  BY <1>6 DEF TakeHasManifest
<1>8. sound \subseteq sound' /\ sound' \subseteq Take
  BY <1>1, <1>2
<1>9. UNCHANGED <<rows, core, completion, client, host, wire, counters, faults>>
  BY DEF FinishProcessing
<1>10. OutcomesAreTrue'
  <2>1. native'.outbox.ok => native'.outbox.take \in sound'
    BY <1>2, <1>6
  <2> QED BY <1>1, <1>8, <1>9, <2>1 DEF OutcomesAreTrue, completion
<1> QED BY <1>1, <1>4, <1>6, <1>7, <1>8, <1>9, <1>10, NativeFrame

\* What is appended to the wire is true if what was sent is.
LEMMA WireGrows ==
    ASSUME RecordingInv, NEW event \in Outcome \union {Exit}, event.ok => event.take \in sound,
           wire' = Append(wire, event), UNCHANGED <<slot, sound>>,
           native'.outbox = None
    PROVE  wire' \in Seq(Outcome \union {Exit}) /\ OutcomesAreTrue'
<1>1. wire \in Seq(Outcome \union {Exit}) /\ OutcomesAreTrue
  BY DEF RecordingInv, ActorsOK
<1>2. wire' \in Seq(Outcome \union {Exit})
  BY <1>1
<1>3. \A i \in DOMAIN wire' : wire'[i] = event \/ (i \in DOMAIN wire /\ wire'[i] = wire[i])
  BY <1>1
<1>4. \A i \in DOMAIN wire' : wire'[i].ok => wire'[i].take \in sound
  BY <1>1, <1>3 DEF OutcomesAreTrue
<1> QED BY <1>1, <1>2, <1>4 DEF OutcomesAreTrue

LEMMA ReportCompletionStep ==
    ASSUME RecordingInv, ReportCompletion
    PROVE  RecordingInv'
<1>1. /\ native \in Controller /\ manifest \in [Take -> Maybe(Manifest)] /\ TakeHasManifest
      /\ OutcomesAreTrue /\ sound \subseteq Take /\ faults \in Nat
  BY DEF RecordingInv, DataOK, ActorsOK
<1>2. /\ native.outbox \in Outcome /\ (native.outbox.ok => native.outbox.take \in sound)
      /\ native' = [native EXCEPT !.outbox = None] /\ wire' = Append(wire, native.outbox)
      /\ UNCHANGED <<files, core, completion, client, host, counters, faults, sound>>
  BY <1>1 DEF ReportCompletion, Controller, Maybe, OutcomesAreTrue
<1>3. /\ native' \in Controller /\ native'.outbox = None
      /\ native'.phase = native.phase /\ native'.take = native.take /\ native'.doc = native.doc
  BY <1>1, <1>2 DEF Controller, Maybe
<1>4. wire' \in Seq(Outcome \union {Exit}) /\ OutcomesAreTrue'
  BY <1>2, <1>3, WireGrows DEF completion
<1>5. TakeHasManifest'
  BY <1>1, <1>2, <1>3 DEF TakeHasManifest, files
<1> QED BY <1>1, <1>2, <1>3, <1>4, <1>5, NativeFrame DEF files

\* The sidecar is gone, with the outcome it had not sent.
LEMMA ExitSidecarStep ==
    ASSUME RecordingInv, ExitSidecar
    PROVE  RecordingInv'
<1>1. manifest \in [Take -> Maybe(Manifest)] /\ sound \subseteq Take
  BY DEF RecordingInv, DataOK
<1>2. /\ native' = NativeDown /\ wire' = Append(wire, Exit)
      /\ UNCHANGED <<files, core, completion, client, host, counters, sound>>
  BY DEF ExitSidecar, counters
<1>3. native' \in Controller /\ native'.outbox = None /\ native'.phase = "down"
  BY <1>2 DEF NativeDown, NativeIdle, Controller, Phases, Maybe
<1>4. Exit \in Outcome \union {Exit} /\ ~Exit.ok
  BY DEF Exit
<1>5. wire' \in Seq(Outcome \union {Exit}) /\ OutcomesAreTrue'
  BY <1>2, <1>3, <1>4, WireGrows DEF completion
<1>6. TakeHasManifest'
  BY <1>3 DEF TakeHasManifest
<1>7. faults' \in Nat
  BY FaultsAreCounted DEF ExitSidecar
<1> QED BY <1>1, <1>2, <1>3, <1>5, <1>6, <1>7, NativeFrame DEF files

\* What is put into the slot, for all workers to look at.
LEMMA SlotFrame ==
    ASSUME RecordingInv, NEW outcome \in Outcome, outcome.ok => outcome.take \in sound,
           \/ RecordCompletion(outcome)
           \/ UNCHANGED <<slot, worker>>,
           UNCHANGED <<rows, sound>>
    PROVE  /\ slot' \in Maybe(Outcome) /\ (slot' # None /\ slot'.ok => slot'.take \in sound')
           /\ worker' \in [Take -> Finalizer] /\ WorkersAreEntitled'
<1>1. CASE RecordCompletion(outcome)
  BY <1>1, AwakeWorkers DEF RecordCompletion, Maybe
<1>2. CASE UNCHANGED <<slot, worker>>
  BY <1>2, WorkersFrame DEF RecordingInv, ActorsOK, OutcomesAreTrue
<1> QED BY <1>1, <1>2

\* The reader takes the first event.
LEMMA WireShrinks ==
    ASSUME RecordingInv, wire # <<>>, wire' = Tail(wire)
    PROVE  /\ wire' \in Seq(Outcome \union {Exit})
           /\ \A i \in DOMAIN wire' : wire'[i].ok => wire'[i].take \in sound
           /\ Head(wire) \in Outcome \union {Exit} /\ (Head(wire).ok => Head(wire).take \in sound)
<1>1. wire \in Seq(Outcome \union {Exit}) /\ \A i \in DOMAIN wire : wire[i].ok => wire[i].take \in sound
  BY DEF RecordingInv, ActorsOK, OutcomesAreTrue
<1>2. wire' \in Seq(Outcome \union {Exit})
  BY <1>1
<1>3. \A i \in DOMAIN wire' : i + 1 \in DOMAIN wire /\ wire'[i] = wire[i + 1]
  BY <1>1
<1>4. 1 \in DOMAIN wire /\ Head(wire) = wire[1] /\ wire[1] \in Outcome \union {Exit}
  BY <1>1
<1> QED BY <1>1, <1>2, <1>3, <1>4

LEMMA ReaderSteps ==
    ASSUME RecordingInv, ReaderStep
    PROVE  RecordingInv'
<1> DEFINE outcome == IF Head(wire) = Exit THEN [take |-> None, ok |-> FALSE] ELSE Head(wire)
<1>1. /\ wire # <<>> /\ wire' = Tail(wire)
      /\ UNCHANGED <<files, core, pending, client, host, counters, faults, sound>>
  BY DEF ReaderStep, ReadCompletion, HandleSidecarExit
<1>2. /\ wire' \in Seq(Outcome \union {Exit})
      /\ \A i \in DOMAIN wire' : wire'[i].ok => wire'[i].take \in sound
      /\ Head(wire) \in Outcome \union {Exit} /\ (Head(wire).ok => Head(wire).take \in sound)
  BY <1>1, WireShrinks
<1>3. [take |-> None, ok |-> FALSE] \in Outcome
  BY DEF Outcome, Maybe
<1>4. outcome \in Outcome /\ (outcome.ok => outcome.take \in sound)
  BY <1>2, <1>3
<1>5. RecordCompletion(outcome) \/ UNCHANGED <<slot, worker>>
  BY DEF ReaderStep, ReadCompletion, HandleSidecarExit, FailCompletion
<1> HIDE DEF outcome
<1>6. /\ slot' \in Maybe(Outcome) /\ (slot' # None /\ slot'.ok => slot'.take \in sound')
      /\ worker' \in [Take -> Finalizer] /\ WorkersAreEntitled'
  BY <1>1, <1>4, <1>5, SlotFrame DEF files
<1>7. native' \in Controller /\ TakeHasManifest'
      /\ (native'.outbox # None /\ native'.outbox.ok => native'.outbox.take \in sound')
  <2>1. CASE native' = native
    BY <1>1, <2>1 DEF RecordingInv, ActorsOK, TakeHasManifest, OutcomesAreTrue, files
  <2>2. CASE native' = NativeIdle
    BY <2>2 DEF NativeIdle, Controller, Phases, Maybe, TakeHasManifest
  <2> QED BY <2>1, <2>2 DEF ReaderStep, ReadCompletion, HandleSidecarExit
<1>8. DataOK' /\ ActorsOK' /\ ClientsNameTakes'
  BY <1>1, <1>2, <1>6, <1>7
  DEF RecordingInv, DataOK, ActorsOK, ClientsNameTakes, Names, files, core, counters
<1>9. OutcomesAreTrue'
  BY <1>1, <1>2, <1>6, <1>7 DEF OutcomesAreTrue
<1>10. Whole(session)' /\ HistoryIsWhole' /\ EditsAreKept'
  BY <1>1, CoreFrame DEF files
<1> QED BY <1>6, <1>7, <1>8, <1>9, <1>10 DEF RecordingInv

-----------------------------------------------------------------------------
(* The Host.                                                               *)

LEMMA CancelWaitsStep ==
    ASSUME RecordingInv, CancelWaitsForShutdown
    PROVE  RecordingInv'
<1>1. /\ host' = "closing"
      /\ UNCHANGED <<files, core, pending, client, sidecar, counters, faults, sound>>
  BY DEF CancelWaitsForShutdown
<1>2. [take |-> None, ok |-> FALSE] \in Outcome /\ ~[take |-> None, ok |-> FALSE].ok
  BY DEF Outcome, Maybe
<1>3. RecordCompletion([take |-> None, ok |-> FALSE]) \/ UNCHANGED <<slot, worker>>
  BY DEF CancelWaitsForShutdown, FailCompletion
<1>4. /\ slot' \in Maybe(Outcome) /\ (slot' # None /\ slot'.ok => slot'.take \in sound')
      /\ worker' \in [Take -> Finalizer] /\ WorkersAreEntitled'
  BY <1>1, <1>2, <1>3, SlotFrame DEF files
<1>5. DataOK' /\ ActorsOK' /\ ClientsNameTakes' /\ TakeHasManifest'
  BY <1>1, <1>4
  DEF RecordingInv, DataOK, ActorsOK, ClientsNameTakes, Names, TakeHasManifest, files, core, sidecar, counters
<1>6. OutcomesAreTrue'
  BY <1>1, <1>4 DEF RecordingInv, OutcomesAreTrue, sidecar
<1>7. Whole(session)' /\ HistoryIsWhole' /\ EditsAreKept'
  BY <1>1, CoreFrame DEF files
<1> QED BY <1>4, <1>5, <1>6, <1>7 DEF RecordingInv

LEMMA ForceShutdownStep ==
    ASSUME RecordingInv, ForceShutdown
    PROVE  RecordingInv'
<1>1. /\ host' = "killed" /\ native' = NativeDown
      /\ UNCHANGED <<files, core, completion, client, counters, faults, sound>>
  BY DEF ForceShutdown
<1>2. native' \in Controller /\ native'.outbox = None /\ native'.phase = "down"
  BY <1>1 DEF NativeDown, NativeIdle, Controller, Phases, Maybe
<1>3. wire' \in Seq(Outcome \union {Exit}) /\ OutcomesAreTrue'
  <2>1. CASE wire' = wire
    BY <1>1, <1>2, <2>1 DEF RecordingInv, ActorsOK, OutcomesAreTrue, completion
  <2>2. CASE wire' = Append(wire, Exit)
    <3>1. Exit \in Outcome \union {Exit} /\ ~Exit.ok
      BY DEF Exit
    <3> QED BY <1>1, <1>2, <2>2, <3>1, WireGrows DEF completion
  <2> QED BY <2>1, <2>2 DEF ForceShutdown
<1>4. DataOK' /\ ActorsOK' /\ ClientsNameTakes' /\ TakeHasManifest'
  BY <1>1, <1>2, <1>3
  DEF RecordingInv, DataOK, ActorsOK, ClientsNameTakes, Names, TakeHasManifest, files, core, completion,
      counters
<1>5. WorkersAreEntitled' /\ Whole(session)' /\ HistoryIsWhole' /\ EditsAreKept'
  BY <1>1, WorkersFrame, CoreFrame DEF files, completion
<1> QED BY <1>3, <1>4, <1>5 DEF RecordingInv

LEMMA JoinWorkersStep ==
    ASSUME RecordingInv, JoinWorkers
    PROVE  RecordingInv'
<1>1. /\ host' = "closed"
      /\ UNCHANGED <<files, core, completion, client, sidecar, counters, faults, sound>>
  BY DEF JoinWorkers
<1>2. DataOK' /\ ActorsOK' /\ ClientsNameTakes' /\ TakeHasManifest' /\ OutcomesAreTrue'
  BY <1>1
  DEF RecordingInv, DataOK, ActorsOK, ClientsNameTakes, Names, TakeHasManifest, OutcomesAreTrue, files, core,
      completion, sidecar, counters
<1>3. WorkersAreEntitled' /\ Whole(session)' /\ HistoryIsWhole' /\ EditsAreKept'
  BY <1>1, WorkersFrame, CoreFrame DEF files, completion
<1> QED BY <1>2, <1>3 DEF RecordingInv

-----------------------------------------------------------------------------
(* The theorems.                                                           *)

\* A step that changes nothing keeps it.
LEMMA StutterStep ==
    ASSUME RecordingInv, UNCHANGED vars
    PROVE  RecordingInv'
<1>1. UNCHANGED <<files, core, completion, client, host, sidecar, counters, faults, sound>>
  BY DEF vars
<1>2. DataOK' /\ ActorsOK' /\ ClientsNameTakes' /\ TakeHasManifest' /\ OutcomesAreTrue'
  BY <1>1
  DEF RecordingInv, DataOK, ActorsOK, ClientsNameTakes, Names, TakeHasManifest, OutcomesAreTrue, files, core,
      completion, sidecar, counters
<1>3. WorkersAreEntitled' /\ Whole(session)' /\ HistoryIsWhole' /\ EditsAreKept'
  BY <1>1, WorkersFrame, CoreFrame DEF files, completion
<1> QED BY <1>2, <1>3 DEF RecordingInv

\* The inductive invariant: the outcome of a take is carried truly from the
\* sidecar to the worker, the Session and all its history are whole, and each
\* of them accounts for the edits made and not undone before it.
THEOREM FinalizationInvariance == Spec => []RecordingInv
<1>1. Init => RecordingInv
  BY RecordingInit
<1>2. RecordingInv /\ [Next]_vars => RecordingInv'
  <2> SUFFICES ASSUME RecordingInv, [Next]_vars PROVE RecordingInv'
    OBVIOUS
  <2>1. ASSUME NEW c \in Client, ClientStep(c) PROVE RecordingInv'
    BY <2>1, StartRecordingStep, CheckPendingStep, StartArrangeRecordingStep, SaveCaptureStartStep,
       StopAgainStep, StopRecordingStep, StopArrangeRecordingStep, BeginFinalizationStep, PersistRefusalStep,
       WithdrawFinalizationStep
    DEF ClientStep
  <2>2. ASSUME NEW t \in Take, WorkerStep(t) PROVE RecordingInv'
    BY <2>2, WaitForCompletionStep, UpdateManifestStep, PrepareFinalizationStep, RegisterOutputsStep,
       CommitRecordingStep, FinishFinalizationStep
    DEF WorkerStep
  <2>3. CASE SessionStep
    BY <2>3, EditElsewhereStep, UndoStep, EditClipStep, RemoveClipStep, ActivateTakeStep DEF SessionStep
  <2>4. CASE LoseDevice \/ NativeProcessing \/ ExitSidecar \/ ReaderStep
    BY <2>4, QuietStep, FinishProcessingStep, ReportCompletionStep, ExitSidecarStep, ReaderSteps
    DEF NativeProcessing
  <2>5. CASE HostStep
    BY <2>5, CancelWaitsStep, ForceShutdownStep, JoinWorkersStep DEF HostStep
  <2>6. CASE UNCHANGED vars
    BY <2>6, StutterStep
  <2> QED BY <2>1, <2>2, <2>3, <2>4, <2>5, <2>6 DEF Next
<1> QED BY <1>1, <1>2, PTL DEF Spec

\* Every reachable state is well formed, whatever is read, written and lost.
THEOREM FinalizationTypes == Spec => []RecordingTypeOK
<1>1. RecordingInv => RecordingTypeOK
  <2> SUFFICES ASSUME RecordingInv PROVE RecordingTypeOK
    OBVIOUS
  <2>1. DataOK /\ ActorsOK
    BY DEF RecordingInv
  <2>2. \A i \in DOMAIN history : history[i] \in Entry
    BY <2>1 DEF DataOK
  <2>3. \A i \in DOMAIN wire : wire[i] \in Outcome \union {Exit}
    BY <2>1 DEF ActorsOK
  <2>4. native.phase \in {"down", "idle", "recording", "stopping", "processing", "writing"}
    BY <2>1 DEF ActorsOK, Controller, Phases
  <2> QED BY <2>1, <2>2, <2>3, <2>4 DEF RecordingTypeOK, DataOK, ActorsOK
<1> QED BY <1>1, FinalizationInvariance, PTL

\* A take is in the Session only when the sidecar completed it and its files are
\* registered, and a Session names no pass it does not hold, whatever clients,
\* edits, undos, exits and failed saves do meanwhile (finalize_arrange_recording).
THEOREM CommittedTakesAreWhole == Spec => []TakesAreWhole
<1>1. RecordingInv => TakesAreWhole
  BY DEF RecordingInv, Whole, TakesAreWhole
<1> QED BY <1>1, FinalizationInvariance, PTL

\* Whatever is edited, removed and undone while a worker has a Session it read
\* earlier, an edit made and not undone is in the Session, and no other is, but
\* for the clip of the recording session a take joins: there a take made without
\* seeing the edit loses it, and one that saw an undone edit brings it back
\* (merge_recording_session).
THEOREM MergesKeepEdits == Spec => []EditsSurvive
<1>1. RecordingInv => EditsSurvive
  BY DEF RecordingInv, EditsAreKept, EditsSurvive
<1> QED BY <1>1, FinalizationInvariance, PTL

=============================================================================

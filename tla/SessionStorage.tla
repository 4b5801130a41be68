---------------------------- MODULE SessionStorage ----------------------------
(***************************************************************************)
(* The canonical Session of the open Project (riffra-core's AppCore and    *)
(* History) and the files that keep it (riffra-host's SessionStore and     *)
(* ProjectStore).  One request at a time holds the Project's writer; what  *)
(* it does is a sequence of file operations, and the process may die       *)
(* between any two of them.                                                *)
(*                                                                         *)
(* A save copies the active file to a generation, writes the new Session   *)
(* beside it, renames it over the active file and prunes the generations.  *)
(* The rename is atomic; a copy is not, and one that was cut short is      *)
(* unreadable, like a damaged file.  Temporary files are left out: nothing *)
(* reads them.  A generation is named after the millisecond it was made    *)
(* in; each save of the model has a millisecond of its own.                *)
(***************************************************************************)
EXTENDS Integers, FiniteSets, SequencesExt

CONSTANTS
    Project,            \* Project ids
    Content,            \* what a Session may hold
    Blank,              \* the Content of a new Session
    Imported,           \* what the files a user imports hold
    HistoryLimit,       \* HISTORY_LIMIT
    GenerationsToKeep,  \* GENERATIONS_TO_KEEP
    MaxSaves,           \* bound: saves begun
    MaxSequence,        \* bound: the canonical sequence
    MaxDamages,         \* bound: active files damaged from outside
    Damaged,            \* a file that cannot be read
    None                \* no file, no Session, no Project

ASSUME StorageAssumption ==
    /\ Blank \in Content /\ Imported \subseteq Content
    /\ None \notin Project
    /\ {HistoryLimit, GenerationsToKeep} \subseteq Nat \ {0}
    /\ {MaxSaves, MaxSequence, MaxDamages} \subseteq Nat

VARIABLES
    \* The data root
    directories,  \* the Project containers
    current,      \* per Project: session.json
    generations,  \* per Project: the generations, by the time in their name
    workspace,    \* workspace.json's active Project
    \* The Host
    project,      \* OpenProject: the Project it stores to, None while the Host is stopped
    session,      \* CanonicalSnapshot::session
    sequence,     \* CanonicalSnapshot::sequence
    undo, redo,   \* History
    prepared,     \* a PreparedSession another request works on
    save,         \* what the holder of the writer is doing
    \* The surroundings
    clock,        \* now_ms()
    damages,      \* active files damaged so far
    promised,     \* per Project: what a load may give the user now
    displaced     \* per Project: what a load gave before the last replace

files == <<directories, current, generations, workspace>>
memory == <<project, session, sequence, undo, redo>>
surroundings == <<clock, damages, promised, displaced>>
vars == <<files, memory, prepared, save, surroundings>>

Session == [content : Content, stamp : Nat]

ASSUME FilesAssumption ==
    /\ None \notin Session /\ Damaged \notin Session
    /\ None # Damaged

Saving == {"copy", "torn", "replace", "prune"}
Switching == {"activate", "opening"}
Creations == {"create", "import", "score", "first"}
Purposes == {"edit", "prepared", "undo", "redo", "restore", "open"} \union Creations

Save == [step : {"idle"} \union Saving \union Switching,
         for : Purposes \union {"nothing"},
         project : Project \union {None},
         target : Session \union {None},
         entry : Session \union {None},   \* the history entry being restored
         base : Session \union {None}]    \* the Session a PreparedSession was made from

NoSave == [step |-> "idle", for |-> "nothing", project |-> None,
           target |-> None, entry |-> None, base |-> None]

IsFile(f) == f = Damaged \/ f \in Session

(* The Host's memory is typed, its history stays within the limit, and what    *)
(* the disk holds are files.                                                   *)
StorageTypeOK ==
    /\ directories \in SUBSET Project
    /\ \A p \in Project :
           /\ current[p] = None \/ IsFile(current[p])
           /\ DOMAIN generations[p] \subseteq 1 .. clock
           /\ \A t \in DOMAIN generations[p] : IsFile(generations[p][t])
    /\ workspace \in Project \union {None}
    /\ project \in Project \union {None}
    /\ session \in Session \union {None}
    /\ (project = None) <=> (session = None)
    /\ sequence \in Nat
    /\ undo \in Seq(Session) /\ redo \in Seq(Session)
    /\ Len(undo) + Len(redo) <= HistoryLimit
    /\ prepared = None \/ prepared \in [session : Session, sequence : Nat, base : Session]
    /\ save \in Save
    /\ clock \in Nat /\ damages \in Nat

Init ==
    /\ directories = {}
    /\ current = [p \in Project |-> None]
    /\ generations = [p \in Project |-> <<>>]
    /\ workspace = None
    /\ project = None /\ session = None /\ sequence = 0 /\ undo = <<>> /\ redo = <<>>
    /\ prepared = None
    /\ save = NoSave
    /\ clock = 0 /\ damages = 0
    /\ promised = [p \in Project |-> {None}]
    /\ displaced = [p \in Project |-> None]

Idle == save.step = "idle"
IsOpen == project # None

-----------------------------------------------------------------------------
(* SessionStore: loading                                                      *)

(* newest_valid_generation *)
NewestGeneration(p) ==
    LET readable == {t \in DOMAIN generations[p] : generations[p][t] # Damaged}
    IN  IF readable = {} THEN None ELSE generations[p][Max(readable)]

(* load_saved: the active file, or else the newest generation that can be read *)
Load(p) == IF current[p] \in {None, Damaged} THEN NewestGeneration(p) ELSE current[p]

-----------------------------------------------------------------------------
(* SessionStore: saving                                                       *)

NextUpdateTimestamp(previous, candidate, now) == Max({now, candidate, previous + 1})

Stamped(s) == [s EXCEPT !.stamp = NextUpdateTimestamp(session.stamp, s.stamp, clock + 1)]

(* A save begins: ensure_layout makes the container. *)
BeginSave(purpose, p, target, entry, base) ==
    /\ clock < MaxSaves
    /\ clock' = clock + 1
    /\ save' = [step |-> "copy", for |-> purpose, project |-> p,
                target |-> target, entry |-> entry, base |-> base]
    /\ directories' = directories \union {p}
    /\ promised' = [promised EXCEPT ![p] = @ \union {target}]
    /\ UNCHANGED <<current, generations, workspace, damages, displaced>>

Goto(step) == save' = [save EXCEPT !.step = step]

WithGeneration(p, file) ==
    generations' = [generations EXCEPT ![p] =
                       [t \in DOMAIN @ \union {clock} |-> IF t = clock THEN file ELSE @[t]]]

(* fs::copy begins to write the generation *)
StartCopy ==
    /\ save.step = "copy" /\ current[save.project] # None
    /\ WithGeneration(save.project, Damaged)
    /\ Goto("torn")
    /\ UNCHANGED <<directories, current, workspace, memory, prepared, surroundings>>

(* Mutant: the active file is replaced without a copy of it. *)
SkipCopy ==
    /\ save.step = "torn"
    /\ Goto("replace")
    /\ UNCHANGED <<directories, current, generations, workspace, memory, prepared,
                   surroundings>>

FinishCopy ==
    /\ save.step = "torn"
    /\ WithGeneration(save.project, current[save.project])
    /\ Goto("replace")
    /\ UNCHANGED <<directories, current, workspace, memory, prepared, surroundings>>

NothingToCopy ==
    /\ save.step = "copy" /\ current[save.project] = None
    /\ Goto("replace")
    /\ UNCHANGED <<files, memory, prepared, surroundings>>

(* replace_file, after the temporary file was written and synced *)
ReplaceCurrent ==
    /\ save.step = "replace"
    /\ current' = [current EXCEPT ![save.project] = save.target]
    /\ displaced' = [displaced EXCEPT ![save.project] = Load(save.project)]
    /\ Goto("prune")
    /\ UNCHANGED <<directories, generations, workspace, memory, prepared,
                   clock, damages, promised>>

(* prune_generations: what is older than the newest ones is removed; a file  *)
(* that cannot be removed is left.                                           *)
Stale(p) ==
    {t \in DOMAIN generations[p] :
        Cardinality({u \in DOMAIN generations[p] : u > t}) >= GenerationsToKeep}

PruneGenerations ==
    \E removed \in SUBSET Stale(save.project) :
        generations' = [generations EXCEPT ![save.project] =
                           [t \in DOMAIN @ \ removed |-> @[t]]]

-----------------------------------------------------------------------------
(* History                                                                    *)

(* Vec::push, the oldest entry removed beyond HISTORY_LIMIT *)
Pushed(entries, s) ==
    IF Len(entries) < HistoryLimit THEN Append(entries, s) ELSE Append(Tail(entries), s)

(* Mutant: an edit leaves the redo entries. *)
RecordOnly ==
    /\ undo' = Pushed(undo, session)
    /\ UNCHANGED redo

(* record *)
Record ==
    /\ undo' = Pushed(undo, session)
    /\ redo' = <<>>

(* restore_history_entry gives the entry back when the save failed *)
TakeBack ==
    /\ undo' = IF save.for = "undo" THEN Pushed(undo, save.entry) ELSE undo
    /\ redo' = IF save.for = "redo" THEN Pushed(redo, save.entry) ELSE redo

(* exchange *)
Exchange(target) ==
    /\ session' = target
    /\ sequence' = sequence + 1
    /\ UNCHANGED project

Settle(p, s) == promised' = [promised EXCEPT ![p] = {s}]

-----------------------------------------------------------------------------
(* AppCore: requests that commit to the open Project                          *)

MayWrite == IsOpen /\ Idle /\ sequence < MaxSequence

CommitCandidate(purpose, candidate, base) ==
    /\ candidate # session
    /\ BeginSave(purpose, project, Stamped(candidate), None, base)

(* commit *)
Edit ==
    /\ MayWrite
    /\ \E content \in Content :
           CommitCandidate("edit", [session EXCEPT !.content = content], None)
    /\ UNCHANGED <<memory, prepared>>

(* PreparedSession::from_snapshot, the audio runtime still to be asked *)
Prepare ==
    /\ MayWrite
    /\ prepared = None
    /\ \E content \in Content \ {session.content} :
           prepared' = [session |-> [session EXCEPT !.content = content],
                        sequence |-> sequence, base |-> session]
    /\ UNCHANGED <<files, memory, save, surroundings>>

IsUpToDate(candidate) == candidate.sequence = sequence

(* commit_prepared *)
CommitPrepared ==
    /\ MayWrite
    /\ prepared # None
    /\ IsUpToDate(prepared)
    /\ CommitCandidate("prepared", prepared.session, prepared.base)
    /\ prepared' = None
    /\ UNCHANGED memory

(* ... and ApplicationError::Conflict *)
PreparedConflicts ==
    /\ MayWrite
    /\ prepared # None
    /\ ~IsUpToDate(prepared)
    /\ prepared' = None
    /\ UNCHANGED <<files, memory, save, surroundings>>

Undo ==
    /\ MayWrite
    /\ undo # <<>>
    /\ undo' = Front(undo)
    /\ BeginSave("undo", project, Stamped(Last(undo)), Last(undo), None)
    /\ UNCHANGED <<project, session, sequence, redo, prepared>>

Redo ==
    /\ MayWrite
    /\ redo # <<>>
    /\ redo' = Front(redo)
    /\ BeginSave("redo", project, Stamped(Last(redo)), Last(redo), None)
    /\ UNCHANGED <<project, session, sequence, undo, prepared>>

(* restore_generation first saves the generation as it is; the commit of the *)
(* same Session follows (RestoreSaved).                                       *)
RestoreGeneration ==
    /\ MayWrite
    /\ clock + 2 <= MaxSaves
    /\ \E t \in DOMAIN generations[project] :
           /\ generations[project][t] # Damaged
           /\ BeginSave("restore", project, generations[project][t], None, None)
    /\ UNCHANGED <<memory, prepared>>

-----------------------------------------------------------------------------
(* How a save ends                                                            *)

SaveDone(purposes) == save.step = "prune" /\ save.for \in purposes /\ PruneGenerations

EditSaved ==
    /\ SaveDone({"edit", "prepared"})
    /\ Record
    /\ Exchange(save.target)
    /\ Settle(save.project, save.target)
    /\ save' = NoSave
    /\ UNCHANGED <<directories, current, workspace, prepared, clock, damages, displaced>>

UndoSaved ==
    /\ SaveDone({"undo"})
    /\ redo' = Pushed(redo, session) /\ UNCHANGED undo
    /\ Exchange(save.target)
    /\ Settle(save.project, save.target)
    /\ save' = NoSave
    /\ UNCHANGED <<directories, current, workspace, prepared, clock, damages, displaced>>

RedoSaved ==
    /\ SaveDone({"redo"})
    /\ undo' = Pushed(undo, session) /\ UNCHANGED redo
    /\ Exchange(save.target)
    /\ Settle(save.project, save.target)
    /\ save' = NoSave
    /\ UNCHANGED <<directories, current, workspace, prepared, clock, damages, displaced>>

(* restore_project: the restored Session is committed like an edit. *)
RestoreSaved ==
    /\ SaveDone({"restore"})
    /\ IF save.target = session
       THEN save' = NoSave /\ Settle(project, save.target) /\ UNCHANGED clock
       ELSE /\ clock' = clock + 1
            /\ save' = [save EXCEPT !.step = "copy", !.for = "edit",
                                    !.target = Stamped(save.target)]
            /\ promised' = [promised EXCEPT ![project] = {save.target, Stamped(save.target)}]
    /\ UNCHANGED <<directories, current, workspace, memory, prepared, damages, displaced>>

(* A created Project is activated next. *)
CreationSaved ==
    /\ SaveDone(Creations)
    /\ Settle(save.project, save.target)
    /\ Goto("activate")
    /\ UNCHANGED <<directories, current, workspace, memory, prepared, clock, damages, displaced>>

Discard(p) ==
    /\ directories' = directories \ {p}
    /\ current' = [current EXCEPT ![p] = None]
    /\ generations' = [generations EXCEPT ![p] = <<>>]
    /\ promised' = [promised EXCEPT ![p] = {None}]
    /\ displaced' = [displaced EXCEPT ![p] = None]

KeepFiles == UNCHANGED <<directories, current, generations, promised, displaced>>

(* create_from_session removes the container of a Project it could not save *)
AbandonSave ==
    /\ IF save.for \in {"import", "score"} THEN Discard(save.project) ELSE KeepFiles
    /\ TakeBack
    /\ save' = NoSave
    /\ UNCHANGED <<workspace, project, session, sequence, prepared, clock, damages>>

(* Any file operation before the rename fails ... *)
SaveFails == save.step \in {"copy", "torn", "replace"} /\ AbandonSave

(* ... or prune_generations cannot list the generations after it. *)
PruneFails == save.step = "prune" /\ AbandonSave

-----------------------------------------------------------------------------
(* ProjectStore: which Project is open                                        *)

BeginCreation(purpose, p, content) ==
    BeginSave(purpose, p, [content |-> content, stamp |-> clock + 1], None, None)

(* create and create_from_session, for a Project with a new id *)
CreateProject ==
    /\ MayWrite
    /\ \E p \in Project \ directories :
           \/ BeginCreation("create", p, Blank)
           \/ \E purpose \in {"import", "score"}, content \in Imported :
                  BeginCreation(purpose, p, content)
    /\ UNCHANGED <<memory, prepared>>

(* load: a Project without a readable Session is refused. *)
OpenProject ==
    /\ MayWrite
    /\ \E p \in directories :
           /\ Load(p) # None
           /\ save' = [NoSave EXCEPT !.step = "activate", !.for = "open", !.project = p]
    /\ UNCHANGED <<files, memory, prepared, surroundings>>

(* discard_unactivated_project *)
MayDiscard(p) == workspace # p

(* The runtime refuses the Project, or workspace.json cannot be written. *)
ActivationFails ==
    /\ save.step = "activate"
    /\ IF save.for = "score" /\ MayDiscard(save.project)
       THEN Discard(save.project) ELSE KeepFiles
    /\ save' = NoSave
    /\ UNCHANGED <<workspace, memory, prepared, clock, damages>>

(* Mutant: the next start is not told of the Project. *)
SkipWorkspace ==
    /\ save.step = "activate"
    /\ Goto("opening")
    /\ UNCHANGED <<files, memory, prepared, surroundings>>

(* write_workspace: the file is replaced in one step. *)
WriteWorkspace ==
    /\ save.step = "activate"
    /\ workspace' = save.project
    /\ Goto("opening")
    /\ UNCHANGED <<directories, current, generations, memory, prepared, surroundings>>

Install(p, next) ==
    /\ project' = p
    /\ session' = Load(p)
    /\ sequence' = next
    /\ undo' = <<>> /\ redo' = <<>>
    /\ Settle(p, Load(p))

(* Mutant: each Project counts from its start. *)
FirstSequence == 0

(* The sequence goes on across Projects, so that no candidate survives one. *)
NextSequence == IF IsOpen THEN sequence + 1 ELSE 0

(* ProjectWriter::replace, and the end of initialize_new_project *)
ReplaceProject ==
    /\ save.step = "opening"
    /\ Install(save.project, NextSequence)
    /\ save' = NoSave
    /\ UNCHANGED <<files, prepared, clock, damages, displaced>>

-----------------------------------------------------------------------------
(* ProjectStore::initialize, and the end of a Host                            *)

MayStart == ~IsOpen /\ Idle

(* read_or_repair_active_project: without workspace.json some Project is taken. *)
RepairWorkspace ==
    /\ MayStart
    /\ workspace = None
    /\ \E p \in directories : workspace' = p
    /\ UNCHANGED <<directories, current, generations, memory, prepared, save, surroundings>>

(* The Project workspace.json names, which must exist *)
StartHost ==
    /\ MayStart
    /\ workspace \in directories
    /\ Load(workspace) # None
    /\ Install(workspace, 0)
    /\ UNCHANGED <<files, prepared, save, clock, damages, displaced>>

(* initialize_new_project: the first start, or the Project cannot be read *)
StartAfresh ==
    /\ MayStart
    /\ \/ directories = {}
       \/ workspace \in directories /\ Load(workspace) = None
    /\ \E p \in Project \ directories : BeginCreation("first", p, Blank)
    /\ UNCHANGED <<memory, prepared>>

(* The process ends, at any point of what it was doing. *)
Crash ==
    /\ IsOpen \/ ~Idle
    /\ project' = None /\ session' = None /\ sequence' = 0 /\ undo' = <<>> /\ redo' = <<>>
    /\ prepared' = None
    /\ save' = NoSave
    /\ UNCHANGED <<files, surroundings>>

(* The active file of a stopped Host's Project becomes unreadable. *)
Damage ==
    /\ MayStart
    /\ damages < MaxDamages
    /\ \E p \in directories :
           /\ current[p] \in Session
           /\ current' = [current EXCEPT ![p] = Damaged]
           /\ promised' = [promised EXCEPT ![p] = {displaced[p], current[p]}]
    /\ damages' = damages + 1
    /\ UNCHANGED <<directories, generations, workspace, memory, prepared, save, clock, displaced>>

-----------------------------------------------------------------------------
Commits == Edit \/ Prepare \/ CommitPrepared \/ PreparedConflicts \/ Undo \/ Redo
           \/ RestoreGeneration
Saves == StartCopy \/ FinishCopy \/ NothingToCopy \/ ReplaceCurrent \/ EditSaved \/ UndoSaved
         \/ RedoSaved \/ RestoreSaved \/ CreationSaved \/ SaveFails \/ PruneFails
Switches == CreateProject \/ OpenProject \/ ActivationFails \/ WriteWorkspace \/ ReplaceProject
Lifetimes == RepairWorkspace \/ StartHost \/ StartAfresh \/ Crash \/ Damage

Next == Commits \/ Saves \/ Switches \/ Lifetimes

Spec == Init /\ [][Next]_vars

-----------------------------------------------------------------------------
(* Project ids are random: none differs from another. *)
Symmetry == Permutations(Project)

(* Whenever the Host dies, and wherever a save has come to, loading a Project  *)
(* gives the Session last confirmed to the user or one whose save was begun    *)
(* since; and if the active file is then damaged, the Session it displaced, or *)
(* its own when a later save had already copied it.                            *)
SavesSurvive == \A p \in Project : Load(p) \in promised[p]

(* The next start finds the Project that is open now: workspace.json names it  *)
(* from the moment the Host answers requests for it, and always names a        *)
(* Project that exists.                                                        *)
StartsWhereItStopped ==
    /\ workspace # None => workspace \in directories
    /\ IsOpen /\ save.step # "opening" => workspace = project

(* A prepared candidate replaces the very Session it was made from, whatever   *)
(* edits, undos and Project switches happened while the runtime tried it.      *)
PreparedOnLatest ==
    [][save.for = "prepared" /\ session' # session /\ IsOpen' => session = save.base]_vars

(* SessionStore::save: "Returns an I/O or validation error without replacing   *)
(* the active file."                                                           *)
FailedSaveKeepsFile ==
    [][save.step \in Saving /\ Idle' /\ IsOpen' /\ sequence' = sequence
          => current[save.project] # save.target]_vars

(* The contents of the history and the Session, in the order they were made;   *)
(* an entry being restored is where it was.                                    *)
ContentsOf(sessions) == [i \in DOMAIN sessions |-> sessions[i].content]
UndoLine == IF save.for = "undo" THEN Append(undo, save.entry) ELSE undo
RedoLine == IF save.for = "redo" THEN Append(redo, save.entry) ELSE redo
Line == ContentsOf(UndoLine \o <<session>> \o Reverse(RedoLine))

Edits == INSTANCE EditHistory WITH
    line <- IF IsOpen THEN Line ELSE <<>>,
    at <- IF IsOpen THEN Len(UndoLine) + 1 ELSE 0

(* Edits, undos and redos, with saves that fail and a limit on the entries,    *)
(* are the moves along one line of edits that EditHistory describes.           *)
ImplementsEditHistory == Edits!EditSpec
=============================================================================

------------------------- MODULE SessionStorageProofs -------------------------
(***************************************************************************)
(* Proofs about SessionStorage, for any number of Projects, contents and   *)
(* saves, and for a process that may end between any two file operations:  *)
(* the next start opens the Project that was open, a prepared candidate    *)
(* replaces the Session it was made from, what a load gives is what the    *)
(* user was promised, and edits, undos and redos move along one line:      *)
(* SessionStorage implements EditHistory.                                  *)
(*                                                                         *)
(* The first rests on when workspace.json changes relative to the Project  *)
(* in memory, and on what is discarded: only the container of a creation   *)
(* whose Project workspace.json does not name.  The second rests on the    *)
(* sequence, which grows with every exchange and across Projects, so a     *)
(* candidate that is up to date was made from the Session it finds; from   *)
(* then on the writer is held until the candidate is in place.             *)
(*                                                                         *)
(* The third needs more (SavesInv): how the active file, the generations   *)
(* and the place a save has come to hang together.  Its promise for a      *)
(* damaged file is about the first one: a generation that cannot be read   *)
(* counts when the generations are pruned, so after a second damage none   *)
(* may be left that can.                                                   *)
(*                                                                         *)
(* For the fourth the line is written out as one function of the history   *)
(* and the Session (Laid).  An entry being restored belongs to it although *)
(* the history has already given it up; the writer holds the place it left *)
(* (RoomIsKept), so a failed save can put it back.                         *)
(***************************************************************************)
EXTENDS SessionStorage, FiniteSetTheorems, WellFoundedInduction, TLAPS

\* Only the fields of the two records matter here, not their types.
Shapes ==
    /\ save = [step |-> save.step, for |-> save.for, project |-> save.project,
               target |-> save.target, entry |-> save.entry, base |-> save.base]
    /\ prepared # None => prepared = [session |-> prepared.session, sequence |-> prepared.sequence,
                                      base |-> prepared.base]

\* Every Project that is named anywhere is one.
ProjectsAreNamed ==
    /\ directories \subseteq Project
    /\ project \in Project \union {None}
    /\ sequence \in Nat

\* The holder of the writer works on a container that exists; a creation that
\* may still be taken back is not what workspace.json names; and the Project
\* about to be opened is.
SaveHasDirectory ==
    /\ save.step = "idle" <=> save.for = "nothing"
    /\ save.step # "idle" => save.project \in directories
    /\ save.step \in Saving /\ save.for \in {"import", "score"} => workspace # save.project
    /\ save.step = "opening" => workspace = save.project

\* Saves that start from the open Project find it open until they end.
CommitsAreOpen ==
    /\ save.for \in {"edit", "prepared", "undo", "redo", "restore"} =>
           IsOpen /\ save.step \in Saving
    /\ save.for = "open" => save.step \in Switching

\* A candidate belongs to a Host that runs, was made no later than now, and is
\* the current Session's when nothing was exchanged since.
CandidatesAreOld ==
    /\ prepared # None =>
           /\ IsOpen
           /\ prepared.sequence \in Nat
           /\ prepared.sequence <= sequence
           /\ prepared.sequence = sequence => prepared.base = session
    /\ save.for = "prepared" => save.base = session

\* The inductive invariant.
StorageInv ==
    /\ Shapes
    /\ ProjectsAreNamed
    /\ StartsWhereItStopped
    /\ SaveHasDirectory
    /\ CommitsAreOpen
    /\ CandidatesAreOld

\* Every step keeps the invariant.
LEMMA StorageStep == ASSUME StorageInv, [Next]_vars PROVE StorageInv'
<1> USE StorageAssumption
    DEF StorageInv, Shapes, ProjectsAreNamed, StartsWhereItStopped, SaveHasDirectory,
        CommitsAreOpen, CandidatesAreOld, IsOpen, Idle, NoSave, Saving, Switching, Creations
<1>1. CASE UNCHANGED vars
  BY <1>1 DEF vars, files, memory, surroundings
<1>2. CASE Edit
  BY <1>2 DEF Edit, CommitCandidate, BeginSave, MayWrite, memory
<1>3. CASE Prepare
  BY <1>3 DEF Prepare, MayWrite, files, memory, surroundings
<1>4. CASE CommitPrepared
  BY <1>4 DEF CommitPrepared, CommitCandidate, IsUpToDate, BeginSave, MayWrite, memory
<1>5. CASE PreparedConflicts
  BY <1>5 DEF PreparedConflicts, MayWrite, files, memory, surroundings
<1>6. CASE Undo
  BY <1>6 DEF Undo, BeginSave, MayWrite
<1>7. CASE Redo
  BY <1>7 DEF Redo, BeginSave, MayWrite
<1>8. CASE RestoreGeneration
  BY <1>8 DEF RestoreGeneration, BeginSave, MayWrite, memory
<1>9. CASE StartCopy
  BY <1>9 DEF StartCopy, Goto, memory, surroundings
<1>10. CASE FinishCopy
  BY <1>10 DEF FinishCopy, Goto, memory, surroundings
<1>11. CASE NothingToCopy
  BY <1>11 DEF NothingToCopy, Goto, files, memory, surroundings
<1>12. CASE ReplaceCurrent
  BY <1>12 DEF ReplaceCurrent, Goto, memory
<1>13. CASE EditSaved
  BY <1>13 DEF EditSaved, SaveDone, Exchange
<1>14. CASE UndoSaved
  BY <1>14 DEF UndoSaved, SaveDone, Exchange
<1>15. CASE RedoSaved
  BY <1>15 DEF RedoSaved, SaveDone, Exchange
<1>16. CASE RestoreSaved
  <2>1. CASE save' = NoSave
    BY <1>16, <2>1 DEF RestoreSaved, SaveDone, memory
  <2>2. CASE save' = [save EXCEPT !.step = "copy", !.for = "edit", !.target = Stamped(save.target)]
    <3>1. save' = [step |-> "copy", for |-> "edit", project |-> save.project,
                   target |-> Stamped(save.target), entry |-> save.entry, base |-> save.base]
      BY <2>2
    <3> QED BY <1>16, <3>1 DEF RestoreSaved, SaveDone, memory
  <2> QED BY <1>16, <2>1, <2>2 DEF RestoreSaved
<1>17. CASE CreationSaved
  BY <1>17 DEF CreationSaved, SaveDone, Goto, memory
<1>18. CASE SaveFails
  BY <1>18 DEF SaveFails, AbandonSave, Discard, KeepFiles
<1>19. CASE PruneFails
  BY <1>19 DEF PruneFails, AbandonSave, Discard, KeepFiles
<1>20. CASE CreateProject
  BY <1>20 DEF CreateProject, BeginCreation, BeginSave, MayWrite, memory
<1>21. CASE OpenProject
  BY <1>21 DEF OpenProject, MayWrite, files, memory, surroundings
<1>22. CASE ActivationFails
  BY <1>22 DEF ActivationFails, MayDiscard, Discard, KeepFiles, memory
<1>23. CASE WriteWorkspace
  BY <1>23 DEF WriteWorkspace, Goto, memory, surroundings
<1>24. CASE ReplaceProject
  BY <1>24 DEF ReplaceProject, Install, NextSequence, files
<1>25. CASE RepairWorkspace
  BY <1>25 DEF RepairWorkspace, MayStart, memory, surroundings
<1>26. CASE StartHost
  BY <1>26 DEF StartHost, MayStart, Install, files
<1>27. CASE StartAfresh
  BY <1>27 DEF StartAfresh, MayStart, BeginCreation, BeginSave, memory
<1>28. CASE Crash
  BY <1>28 DEF Crash, files, surroundings
<1>29. CASE Damage
  BY <1>29 DEF Damage, MayStart, memory
<1> QED
  BY <1>1, <1>2, <1>3, <1>4, <1>5, <1>6, <1>7, <1>8, <1>9, <1>10, <1>11, <1>12, <1>13, <1>14, <1>15, <1>16,
     <1>17, <1>18, <1>19, <1>20, <1>21, <1>22, <1>23, <1>24, <1>25, <1>26, <1>27, <1>28, <1>29
  DEF Next, Commits, Saves, Switches, Lifetimes

\* It holds before the first start.
LEMMA StorageInit == Init => StorageInv
  BY DEF Init, StorageInv, Shapes, ProjectsAreNamed, StartsWhereItStopped, SaveHasDirectory,
         CommitsAreOpen, CandidatesAreOld, NoSave, Saving

\* It holds in every state.
THEOREM StorageInvariance == Spec => []StorageInv
<1>1. Init => StorageInv
  BY StorageInit
<1>2. StorageInv /\ [Next]_vars => StorageInv'
  BY StorageStep
<1> QED BY <1>1, <1>2, PTL DEF Spec

\* Wherever the process ends, the next start opens the Project that was open,
\* and what workspace.json names exists.
THEOREM RestartOpensSameProject == Spec => []StartsWhereItStopped
<1>1. StorageInv => StartsWhereItStopped
  BY DEF StorageInv
<1> QED BY <1>1, StorageInvariance, PTL

\* A prepared candidate replaces the Session it was made from: no edit, undo or
\* Project switch between the two is lost.
THEOREM CandidatesReplaceTheirBase == Spec => PreparedOnLatest
<1>1. StorageInv /\ [Next]_vars =>
          [save.for = "prepared" /\ session' # session /\ IsOpen' => session = save.base]_vars
  BY DEF StorageInv, CandidatesAreOld
<1> QED BY <1>1, StorageInvariance, PTL DEF Spec, PreparedOnLatest

-----------------------------------------------------------------------------
(* What a load gives.                                                      *)

\* A set of naturals with an element has a least one.
LEMMA HasLeast ==
    ASSUME NEW S \in SUBSET Nat, S # {}
    PROVE  \E m \in S : \A n \in S : m <= n
<1> DEFINE R == OpToRel(<, Nat)
<1>1. IsWellFoundedOn(R, Nat)
  BY NatLessThanWellFounded
<1>2. \A x, y \in Nat : <<y, x>> \in R <=> y < x
  BY DEF OpToRel
<1> HIDE DEF R
<1>3. PICK x \in S : \A y \in S : ~ (<<y, x>> \in R)
  BY <1>1, WFMin
<1>4. \A y \in S : ~(y < x)
  BY <1>2, <1>3
<1> QED BY <1>4

\* A bounded one has a greatest, which is its Max.
LEMMA HasGreatest ==
    ASSUME NEW n \in Nat, NEW S \in SUBSET (1..n), S # {}
    PROVE  Max(S) \in S /\ \A x \in S : x <= Max(S)
<1> DEFINE T == {n - x : x \in S}
<1>1. T \in SUBSET Nat /\ T # {}
  <2>1. \A x \in S : x \in 1..n /\ n - x \in Nat
    OBVIOUS
  <2> QED BY <2>1
<1>2. PICK m \in T : \A k \in T : m <= k
  <2> HIDE DEF T
  <2> QED BY <1>1, HasLeast
<1>3. PICK x \in S : m = n - x
  OBVIOUS
<1>4. \A y \in S : x >= y
  <2> TAKE y \in S
  <2>1. n - y \in T
    OBVIOUS
  <2>2. m <= n - y
    BY <2>1, <1>2
  <2> QED BY <2>2, <1>3
<1>5. \E z \in S : \A y \in S : z >= y
  BY <1>3, <1>4
<1>6. Max(S) \in S /\ \A y \in S : Max(S) >= y
  BY <1>5 DEF Max
<1> QED BY <1>6

\* The newest readable one among the generations g.
NewestOf(g) ==
    LET readable == {t \in DOMAIN g : g[t] # Damaged}
    IN  IF readable = {} THEN None ELSE g[Max(readable)]

LEMMA NewestIs == \A p \in Project : NewestGeneration(p) = NewestOf(generations[p])
BY DEF NewestGeneration, NewestOf

\* Without a readable generation there is none, otherwise it is one of them.
LEMMA NewestIsOne ==
    ASSUME NEW n \in Nat, NEW g, DOMAIN g \subseteq 1..n
    PROVE  \/ NewestOf(g) = None /\ \A t \in DOMAIN g : g[t] = Damaged
           \/ \E t \in DOMAIN g : g[t] # Damaged /\ NewestOf(g) = g[t]
<1> DEFINE readable == {t \in DOMAIN g : g[t] # Damaged}
<1>1. CASE readable = {}
  BY <1>1 DEF NewestOf
<1>2. CASE readable # {}
  <2>1. readable \in SUBSET (1..n)
    OBVIOUS
  <2>2. NewestOf(g) = g[Max(readable)]
    BY <1>2 DEF NewestOf
  <2>3. Max(readable) \in readable
    <3> HIDE DEF readable
    <3> QED BY <1>2, <2>1, HasGreatest
  <2> QED BY <2>2, <2>3
<1> QED BY <1>1, <1>2

\* A readable generation that is the last of all is the newest.
LEMMA LastIsNewest ==
    ASSUME NEW n \in Nat, NEW g, DOMAIN g \subseteq 1..n, NEW t \in DOMAIN g,
           g[t] # Damaged, \A u \in DOMAIN g : u <= t
    PROVE  NewestOf(g) = g[t]
<1> DEFINE readable == {u \in DOMAIN g : g[u] # Damaged}
<1>1. readable \in SUBSET (1..n) /\ t \in readable
  OBVIOUS
<1>2. NewestOf(g) = g[Max(readable)]
  BY <1>1 DEF NewestOf
<1>3. Max(readable) \in readable /\ t <= Max(readable)
  <2> HIDE DEF readable
  <2> QED BY <1>1, HasGreatest
<1>4. Max(readable) = t
  BY <1>1, <1>3
<1> QED BY <1>2, <1>4

\* A generation that cannot be read changes nothing.
LEMMA UnreadableChangesNothing ==
    ASSUME NEW n \in Nat, NEW g, NEW h, NEW c, DOMAIN g \subseteq 1..n,
           DOMAIN h = DOMAIN g \union {c}, h[c] = Damaged,
           c \in DOMAIN g => g[c] = Damaged,
           \A u \in DOMAIN g : u # c => h[u] = g[u]
    PROVE  NewestOf(h) = NewestOf(g)
<1> DEFINE readable == {t \in DOMAIN g : g[t] # Damaged}
<1>1. {t \in DOMAIN h : h[t] # Damaged} = readable
  OBVIOUS
<1>2. CASE readable = {}
  BY <1>1, <1>2 DEF NewestOf
<1>3. CASE readable # {}
  <2>1. readable \in SUBSET (1..n)
    OBVIOUS
  <2>2. Max(readable) \in readable
    <3> HIDE DEF readable
    <3> QED BY <1>3, <2>1, HasGreatest
  <2>3. h[Max(readable)] = g[Max(readable)]
    BY <2>2
  <2> QED BY <1>1, <1>3, <2>3 DEF NewestOf
<1> QED BY <1>2, <1>3

-----------------------------------------------------------------------------
(* The invariant behind SavesSurvive.                                      *)

Files == Session \union {None, Damaged}

\* What is on the disk.
DiskOK ==
    /\ directories \subseteq Project /\ workspace \in Project \union {None}
    /\ current \in [Project -> Files]
    /\ DOMAIN generations = Project /\ DOMAIN promised = Project /\ DOMAIN displaced = Project
    /\ \A p \in Project :
           /\ DOMAIN generations[p] \subseteq 1..clock
           /\ \A t \in DOMAIN generations[p] : generations[p][t] \in Session \union {Damaged}
    /\ clock \in Nat /\ damages \in Nat

\* What the Host has in memory; an entry that is being restored is out of the
\* history, which has room for it.
MemoryOK ==
    /\ project \in Project \union {None} /\ session \in Session \union {None}
    /\ project = None <=> session = None
    /\ project = None => undo = <<>> /\ redo = <<>>
    /\ sequence \in Nat
    /\ undo \in Seq(Session) /\ redo \in Seq(Session)
    /\ Len(undo) + Len(redo) + (IF save.for \in {"undo", "redo"} THEN 1 ELSE 0) <= HistoryLimit
    /\ prepared = None \/ prepared \in [session : Session, sequence : Nat, base : Session]
    /\ save \in Save
    /\ save.for \in {"undo", "redo"} => save.entry \in Session
    /\ save.step \in Saving => save.target \in Session

\* What a load of Project p gives is promised.  As long as no file was damaged,
\* the newest generation is what the active file displaced, or a copy of it.
Kept(p) ==
    /\ current[p] \in Session => current[p] \in promised[p]
    /\ current[p] = None => DOMAIN generations[p] = {} /\ None \in promised[p]
    /\ current[p] = Damaged =>
           damages # 0 /\ (damages <= 1 => NewestOf(generations[p]) \in promised[p])
    /\ damages = 0 /\ current[p] \in Session =>
           NewestOf(generations[p]) \in {displaced[p], current[p]}
FilesAreKept == \A p \in Project : Kept(p)

\* How far a save of Project p has come: the generation it makes is the last,
\* is unreadable first and a copy of the active file then, and once the active
\* file is replaced it has what was displaced.
Proceeds(p, g) ==
    /\ save.step \in Saving => save.target \in promised[p] /\ clock > 0
    /\ save.step = "copy" => clock \notin DOMAIN g
    /\ save.step = "torn" => current[p] # None /\ clock \in DOMAIN g /\ g[clock] = Damaged
    /\ save.step = "replace" /\ damages = 0 /\ current[p] # None =>
           clock \in DOMAIN g /\ g[clock] = current[p]
    /\ save.step = "prune" => current[p] = save.target
    /\ save.step = "prune" /\ damages = 0 =>
           \/ displaced[p] = None /\ DOMAIN g = {}
           \/ displaced[p] \in Session /\ clock \in DOMAIN g /\ g[clock] = displaced[p]
    /\ save.step \in Switching => Load(p) # None
    /\ save.for \in {"edit", "prepared", "undo", "redo", "restore"} => p = project
SaveProceeds == Proceeds(save.project, generations[save.project])

SavesInv == DiskOK /\ MemoryOK /\ FilesAreKept /\ SaveProceeds

\* A load gives the active file, or else the newest generation.
LEMMA LoadIs ==
    ASSUME DiskOK, NEW p \in Project
    PROVE  /\ current[p] \in Session => Load(p) = current[p]
           /\ current[p] \notin Session => Load(p) = NewestOf(generations[p])
           /\ Load(p) \in Session \union {None}
<1>1. /\ current[p] \in Files /\ clock \in Nat /\ DOMAIN generations[p] \subseteq 1..clock
      /\ \A t \in DOMAIN generations[p] : generations[p][t] \in Session \union {Damaged}
  BY DEF DiskOK
<1>2. current[p] \in Session => Load(p) = current[p]
  BY FilesAssumption DEF Load
<1>3. current[p] \notin Session => Load(p) = NewestOf(generations[p])
  BY <1>1, NewestIs DEF Load, Files
<1>4. NewestOf(generations[p]) \in Session \union {None}
  BY <1>1, NewestIsOne
<1> QED BY <1>2, <1>3, <1>4

\* Without an active file there is nothing to load.
LEMMA NothingToLoad ==
    ASSUME SavesInv, NEW p \in Project, current[p] = None
    PROVE  Load(p) = None
<1>1. DiskOK /\ DOMAIN generations[p] = {}
  BY DEF SavesInv, FilesAreKept, Kept
<1>2. NewestOf(generations[p]) = None
  BY <1>1 DEF NewestOf
<1> QED BY <1>1, <1>2, LoadIs, FilesAssumption

\* A step that leaves the Sessions on the disk alone.
LEMMA DiskFrame ==
    ASSUME SavesInv, UNCHANGED <<current, generations, promised, displaced, clock, damages>>,
           directories' \subseteq Project, workspace' \in Project \union {None}
    PROVE  DiskOK' /\ FilesAreKept'
<1>1. DiskOK'
  BY DEF SavesInv, DiskOK
<1>2. ASSUME NEW q \in Project PROVE Kept(q)'
  <2>1. Kept(q) /\ NewestOf(generations'[q]) = NewestOf(generations[q])
    BY DEF SavesInv, FilesAreKept
  <2> QED BY <2>1 DEF Kept
<1> QED BY <1>1, <1>2 DEF FilesAreKept

\* A step that leaves the memory of the Host alone.
LEMMA MemoryFrame ==
    ASSUME SavesInv, UNCHANGED <<memory, prepared>>, save' \in Save,
           save'.for \in {"undo", "redo"} => save.for \in {"undo", "redo"} /\ save'.entry = save.entry,
           save'.step \in Saving => save'.target \in Session
    PROVE  MemoryOK'
<1>1. /\ UNCHANGED <<project, session, sequence, undo, redo, prepared>>
      /\ Len(undo) \in Nat /\ Len(redo) \in Nat /\ HistoryLimit \in Nat
      /\ Len(undo) + Len(redo) + (IF save.for \in {"undo", "redo"} THEN 1 ELSE 0) <= HistoryLimit
  BY StorageAssumption DEF SavesInv, MemoryOK, memory
<1>2. Len(undo') + Len(redo') + (IF save'.for \in {"undo", "redo"} THEN 1 ELSE 0) <= HistoryLimit
  BY <1>1
<1> QED BY <1>1, <1>2 DEF SavesInv, MemoryOK

\* The holder of the writer goes on to its next step.
LEMMA GotoIs ==
    ASSUME SavesInv, NEW step \in {"idle"} \union Saving \union Switching, Goto(step)
    PROVE  /\ save' \in Save /\ save'.step = step /\ save'.for = save.for
           /\ save'.project = save.project /\ save'.target = save.target
           /\ save'.entry = save.entry /\ save'.base = save.base
BY DEF SavesInv, MemoryOK, Goto, Save

\* No save is under way.
LEMMA NoSaveIs ==
    /\ NoSave \in Save /\ NoSave.step = "idle" /\ NoSave.for = "nothing"
BY DEF NoSave, Save

LEMMA NothingProceeds ==
    ASSUME save' = NoSave
    PROVE  SaveProceeds'
BY NoSaveIs DEF SaveProceeds, Proceeds, Saving, Switching

\* A Session is stamped later than the one before it.
LEMMA StampedIsSession ==
    ASSUME NEW s \in Session, session \in Session, clock \in Nat
    PROVE  Stamped(s) \in Session
<1> DEFINE times == {clock + 1, s.stamp, session.stamp + 1}
<1>1. clock + 1 \in Nat /\ s.stamp \in Nat /\ session.stamp + 1 \in Nat
  BY DEF Session
<1>2. \E x \in times : \A y \in times : x >= y
  BY <1>1
<1>3. Max(times) \in times
  BY <1>2 DEF Max
<1>4. NextUpdateTimestamp(session.stamp, s.stamp, clock + 1) \in Nat
  BY <1>1, <1>3 DEF NextUpdateTimestamp
<1> QED BY <1>4 DEF Stamped, Session

-----------------------------------------------------------------------------
(* Saves begin and go on.                                                  *)

\* A save begins: its Session is promised from now on.
LEMMA BeginSaveKeeps ==
    ASSUME SavesInv, NEW purpose \in Purposes, NEW p \in Project, NEW target \in Session,
           NEW entry \in Session \union {None}, NEW base \in Session \union {None},
           BeginSave(purpose, p, target, entry, base),
           purpose \in {"edit", "prepared", "undo", "redo", "restore"} => p = project'
    PROVE  /\ DiskOK' /\ FilesAreKept' /\ SaveProceeds'
           /\ save' \in Save /\ save'.for = purpose /\ save'.entry = entry
           /\ save'.step = "copy" /\ save'.target = target
<1>1. /\ clock' = clock + 1 /\ directories' = directories \union {p}
      /\ promised' = [promised EXCEPT ![p] = @ \union {target}]
      /\ UNCHANGED <<current, generations, workspace, damages, displaced>>
  BY DEF BeginSave
<1>2. /\ save' \in Save /\ save'.step = "copy" /\ save'.for = purpose /\ save'.project = p
      /\ save'.target = target /\ save'.entry = entry
  BY DEF BeginSave, Save, Saving
<1>3. DiskOK
  BY DEF SavesInv
<1>4. \A q \in Project : promised[q] \subseteq promised'[q]
  BY <1>1, <1>3 DEF DiskOK
<1>5. target \in promised'[p] /\ DOMAIN promised' = Project
  BY <1>1, <1>3 DEF DiskOK
<1>6. clock \in Nat /\ \A q \in Project : DOMAIN generations[q] \subseteq 1..clock
  BY <1>3 DEF DiskOK
<1>7. DiskOK'
  <2>1. \A q \in Project : DOMAIN generations[q] \subseteq 1..clock'
    BY <1>1, <1>6
  <2>2. clock' \in Nat
    BY <1>1, <1>6
  <2> QED BY <1>1, <1>3, <1>5, <2>1, <2>2 DEF DiskOK
<1>8. FilesAreKept'
  <2>1. ASSUME NEW q \in Project PROVE Kept(q)'
    <3>1. /\ Kept(q) /\ NewestOf(generations'[q]) = NewestOf(generations[q])
          /\ promised[q] \subseteq promised'[q]
      BY <1>1, <1>4 DEF SavesInv, FilesAreKept
    <3> QED BY <1>1, <3>1 DEF Kept
  <2> QED BY <2>1 DEF FilesAreKept
<1>9. SaveProceeds'
  <2>1. clock' \notin DOMAIN generations'[p] /\ clock' > 0
    BY <1>1, <1>6
  <2> QED BY <1>2, <1>5, <2>1 DEF SaveProceeds, Proceeds, Switching
<1> QED BY <1>2, <1>7, <1>8, <1>9

\* The generation that is being made is the last one.
LEMMA WithGenerationIs ==
    ASSUME DiskOK, NEW p \in Project, NEW file, WithGeneration(p, file)
    PROVE  /\ DOMAIN generations' = Project
           /\ \A q \in Project \ {p} : generations'[q] = generations[q]
           /\ DOMAIN generations'[p] = DOMAIN generations[p] \union {clock}
           /\ generations'[p][clock] = file
           /\ \A t \in DOMAIN generations[p] : t # clock => generations'[p][t] = generations[p][t]
<1>1. DOMAIN generations = Project
  BY DEF DiskOK
<1>2. generations' = [generations EXCEPT ![p] =
                          [t \in DOMAIN @ \union {clock} |-> IF t = clock THEN file ELSE @[t]]]
  BY DEF WithGeneration
<1>3. generations'[p] = [t \in DOMAIN generations[p] \union {clock} |->
                             IF t = clock THEN file ELSE generations[p][t]]
  BY <1>1, <1>2
<1> QED BY <1>1, <1>2, <1>3

\* The holder of the writer works on a Project.
LEMMA SaveHasProject ==
    ASSUME StorageInv, SavesInv, save.step # "idle"
    PROVE  save.project \in Project /\ DiskOK /\ Kept(save.project)
           /\ Proceeds(save.project, generations[save.project])
BY DEF StorageInv, SaveHasDirectory, ProjectsAreNamed, SavesInv, FilesAreKept, SaveProceeds

\* What the copy leaves alone.
LEMMA CopyFrame ==
    ASSUME StorageInv, SavesInv, save.step \in {"copy", "torn"}, NEW step \in {"torn", "replace"},
           NEW p \in Project, p = save.project,
           NEW file \in Session \union {Damaged}, WithGeneration(p, file), Goto(step),
           UNCHANGED <<directories, current, workspace, memory, prepared, surroundings>>,
           Kept(p)'
    PROVE  DiskOK' /\ MemoryOK' /\ FilesAreKept'
<1>1. p \in Project /\ DiskOK /\ MemoryOK /\ FilesAreKept
      /\ Proceeds(p, generations[p])
  BY SaveHasProject DEF SavesInv
<1>2. /\ DOMAIN generations' = Project
      /\ \A q \in Project \ {p} : generations'[q] = generations[q]
      /\ DOMAIN generations'[p] = DOMAIN generations[p] \union {clock}
      /\ generations'[p][clock] = file
      /\ \A t \in DOMAIN generations[p] : t # clock => generations'[p][t] = generations[p][t]
  BY <1>1, WithGenerationIs
<1>3. /\ save' \in Save /\ save'.step = step /\ save'.for = save.for /\ save'.entry = save.entry
      /\ save'.target = save.target
  BY GotoIs DEF Saving
<1>4. DiskOK'
  <2>1. clock \in 1..clock
    <3>1. clock \in Nat /\ (save.step = "torn" => clock \in DOMAIN generations[p])
          /\ DOMAIN generations[p] \subseteq 1..clock
      BY <1>1 DEF DiskOK, Proceeds
    <3>2. clock > 0
      BY <1>1 DEF Proceeds, Saving
    <3> QED BY <3>1, <3>2
  <2>2. \A q \in Project :
            /\ DOMAIN generations'[q] \subseteq 1..clock
            /\ \A t \in DOMAIN generations'[q] : generations'[q][t] \in Session \union {Damaged}
    <3> TAKE q \in Project
    <3>1. CASE q = p
      BY <1>1, <1>2, <2>1, <3>1 DEF DiskOK
    <3>2. CASE q # p
      BY <1>1, <1>2, <3>2 DEF DiskOK
    <3> QED BY <3>1, <3>2
  <2> QED BY <1>1, <1>2, <2>2 DEF DiskOK, surroundings
<1>5. MemoryOK'
  BY <1>1, <1>3, MemoryFrame DEF MemoryOK, Saving
<1>6. FilesAreKept'
  <2>1. ASSUME NEW q \in Project \ {p} PROVE Kept(q)'
    <3>1. generations'[q] = generations[q] /\ Kept(q)
      BY <1>1, <1>2 DEF FilesAreKept
    <3>2. NewestOf(generations'[q]) = NewestOf(generations[q])
      BY <3>1
    <3> QED BY <3>1, <3>2 DEF Kept, surroundings
  <2> QED BY <2>1 DEF FilesAreKept
<1> QED BY <1>4, <1>5, <1>6

LEMMA StartCopyKeeps ==
    ASSUME StorageInv, SavesInv, StartCopy
    PROVE  SavesInv'
<1> DEFINE p == save.project
           g == generations[p]
<1>1. /\ p \in Project /\ DiskOK /\ Kept(p) /\ Proceeds(p, g)
      /\ save.step = "copy" /\ current[p] # None
  BY SaveHasProject DEF StartCopy, Saving
<1>2. /\ WithGeneration(p, Damaged) /\ Goto("torn")
      /\ UNCHANGED <<directories, current, workspace, memory, prepared, surroundings>>
  BY DEF StartCopy
<1>3. /\ DOMAIN generations'[p] = DOMAIN g \union {clock}
      /\ generations'[p][clock] = Damaged
      /\ \A t \in DOMAIN g : t # clock => generations'[p][t] = g[t]
  BY <1>1, <1>2, WithGenerationIs
<1>4. clock \in Nat /\ DOMAIN g \subseteq 1..clock /\ clock \notin DOMAIN g
  BY <1>1 DEF DiskOK, Proceeds
<1> HIDE DEF p, g
<1>5. NewestOf(generations'[p]) = NewestOf(g)
  BY <1>3, <1>4, UnreadableChangesNothing
<1>6. /\ current' = current /\ promised' = promised /\ damages' = damages /\ displaced' = displaced
      /\ clock' = clock /\ project' = project
  BY <1>2 DEF surroundings, memory
<1>7. current[p] \in Files
  BY <1>1 DEF DiskOK
<1>8. ASSUME NEW q \in Project, q = p PROVE Kept(q)'
  BY <1>1, <1>5, <1>6, <1>8 DEF Kept, g
<1>9. /\ save'.step = "torn" /\ save'.for = save.for /\ save'.project = p /\ save'.target = save.target
  BY <1>2, GotoIs DEF Saving, p
<1>10. SaveProceeds'
  BY <1>1, <1>3, <1>6, <1>9 DEF SaveProceeds, Proceeds, Saving, Switching
<1>11. DiskOK' /\ MemoryOK' /\ FilesAreKept'
  BY <1>1, <1>2, <1>8, CopyFrame DEF p
<1> QED BY <1>10, <1>11 DEF SavesInv

LEMMA FinishCopyKeeps ==
    ASSUME StorageInv, SavesInv, FinishCopy
    PROVE  SavesInv'
<1> DEFINE p == save.project
           g == generations[p]
<1>1. /\ p \in Project /\ DiskOK /\ Kept(p) /\ Proceeds(p, g)
      /\ save.step = "torn"
  BY SaveHasProject DEF FinishCopy, Saving
<1>2. /\ WithGeneration(p, current[p]) /\ Goto("replace")
      /\ UNCHANGED <<directories, current, workspace, memory, prepared, surroundings>>
  BY DEF FinishCopy
<1>3. /\ DOMAIN generations'[p] = DOMAIN g \union {clock}
      /\ generations'[p][clock] = current[p]
      /\ \A t \in DOMAIN g : t # clock => generations'[p][t] = g[t]
  BY <1>1, <1>2, WithGenerationIs
<1>4. /\ clock \in Nat /\ DOMAIN g \subseteq 1..clock /\ clock \in DOMAIN g /\ g[clock] = Damaged
      /\ current[p] \in Session \union {Damaged}
  BY <1>1 DEF DiskOK, Proceeds, Files
<1> HIDE DEF p, g
<1>5. current[p] = Damaged => NewestOf(generations'[p]) = NewestOf(g)
  BY <1>3, <1>4, UnreadableChangesNothing
<1>6. current[p] \in Session => NewestOf(generations'[p]) = current[p]
  <2>1. DOMAIN generations'[p] \subseteq 1..clock
    BY <1>3, <1>4
  <2>2. \A u \in DOMAIN generations'[p] : u <= clock
    BY <1>4, <2>1
  <2> QED BY <1>3, <1>4, <2>1, <2>2, LastIsNewest, FilesAssumption
<1>7. /\ current' = current /\ promised' = promised /\ damages' = damages /\ displaced' = displaced
      /\ clock' = clock /\ project' = project
  BY <1>2 DEF surroundings, memory
<1>8. ASSUME NEW q \in Project, q = p PROVE Kept(q)'
  BY <1>1, <1>4, <1>5, <1>6, <1>7, <1>8, FilesAssumption DEF Kept, g
<1>9. /\ save'.step = "replace" /\ save'.for = save.for /\ save'.project = p /\ save'.target = save.target
  BY <1>2, GotoIs DEF Saving, p
<1>10. SaveProceeds'
  BY <1>1, <1>3, <1>7, <1>9 DEF SaveProceeds, Proceeds, Saving, Switching
<1>11. DiskOK' /\ MemoryOK' /\ FilesAreKept'
  BY <1>1, <1>2, <1>4, <1>8, CopyFrame DEF p
<1> QED BY <1>10, <1>11 DEF SavesInv

LEMMA NothingToCopyKeeps ==
    ASSUME StorageInv, SavesInv, NothingToCopy
    PROVE  SavesInv'
<1>1. /\ UNCHANGED <<directories, current, generations, workspace, memory, prepared, clock, damages, promised,
                     displaced>>
      /\ save.step = "copy" /\ Goto("replace") /\ current[save.project] = None
  BY DEF NothingToCopy, files, surroundings
<1>2. /\ save' \in Save /\ save'.step = "replace" /\ save'.for = save.for
      /\ save'.project = save.project /\ save'.target = save.target /\ save'.entry = save.entry
  BY <1>1, GotoIs DEF Saving
<1>3. DiskOK' /\ FilesAreKept'
  <2>1. directories' \subseteq Project /\ workspace' \in Project \union {None}
    BY <1>1 DEF SavesInv, DiskOK
  <2> QED BY <1>1, <2>1, DiskFrame
<1>4. MemoryOK'
  BY <1>1, <1>2, MemoryFrame DEF SavesInv, MemoryOK, Saving
<1>5. SaveProceeds'
  BY <1>1, <1>2 DEF SavesInv, SaveProceeds, Proceeds, Saving, Switching, memory
<1> QED BY <1>3, <1>4, <1>5 DEF SavesInv

\* The rename: what a load gave before is what the newest generation has, unless
\* the active file was damaged before.
LEMMA ReplaceCurrentKeeps ==
    ASSUME StorageInv, SavesInv, ReplaceCurrent
    PROVE  SavesInv'
<1> DEFINE p == save.project
           g == generations[p]
<1>1. /\ p \in Project /\ DiskOK /\ MemoryOK /\ Kept(p) /\ Proceeds(p, g)
      /\ save.step = "replace"
  BY SaveHasProject DEF ReplaceCurrent, SavesInv
<1>2. /\ current' = [current EXCEPT ![p] = save.target]
      /\ displaced' = [displaced EXCEPT ![p] = Load(p)]
      /\ Goto("prune")
      /\ UNCHANGED <<directories, generations, workspace, memory, prepared, clock, damages, promised>>
  BY DEF ReplaceCurrent
<1>3. /\ save.target \in Session /\ save.target \in promised[p]
      /\ current[p] \in Files /\ DOMAIN displaced = Project
      /\ clock \in Nat /\ DOMAIN g \subseteq 1..clock
  BY <1>1 DEF MemoryOK, Proceeds, DiskOK, Saving
<1>4. /\ current' \in [Project -> Files] /\ current'[p] = save.target /\ displaced'[p] = Load(p)
      /\ DOMAIN displaced' = Project
      /\ \A q \in Project \ {p} : current'[q] = current[q] /\ displaced'[q] = displaced[q]
  BY <1>1, <1>2, <1>3 DEF DiskOK, Files
<1>5. /\ save' \in Save /\ save'.step = "prune" /\ save'.for = save.for
      /\ save'.project = p /\ save'.target = save.target /\ save'.entry = save.entry
  BY <1>2, GotoIs DEF Saving
<1>6. CASE damages = 0
  <2> HIDE DEF p, g
  <2>1. Load(p) = NewestOf(g)
        /\ \/ Load(p) = None /\ DOMAIN g = {}
           \/ Load(p) \in Session /\ clock \in DOMAIN g /\ g[clock] = Load(p)
    <3>1. CASE current[p] = None
      <4>1. Load(p) = NewestOf(g) /\ DOMAIN g = {}
        BY <1>1, <3>1, LoadIs, FilesAssumption DEF Kept, g
      <4>2. NewestOf(g) = None
        BY <4>1 DEF NewestOf
      <4> QED BY <4>1, <4>2
    <3>2. CASE current[p] # None
      <4>1. current[p] \in Session /\ clock \in DOMAIN g /\ g[clock] = current[p]
        BY <1>1, <1>3, <1>6, <3>2 DEF Kept, Proceeds, Files
      <4>2. Load(p) = current[p]
        BY <1>1, <4>1, LoadIs
      <4>3. \A u \in DOMAIN g : u <= clock
        BY <1>3
      <4>4. NewestOf(g) = g[clock]
        BY <1>3, <4>1, <4>3, LastIsNewest, FilesAssumption
      <4> QED BY <4>1, <4>2, <4>4
    <3> QED BY <3>1, <3>2
  <2>2. FilesAreKept'
    <3>1. ASSUME NEW q \in Project \ {p} PROVE Kept(q)'
      <4>1. Kept(q) /\ generations' = generations
        BY <1>2 DEF SavesInv, FilesAreKept
      <4> QED BY <1>2, <1>4, <4>1 DEF Kept, NewestOf
    <3>2. ASSUME NEW q \in Project, q = p PROVE Kept(q)'
      <4>1. NewestOf(generations'[q]) = Load(p)
        BY <1>2, <2>1, <3>2 DEF g
      <4> QED BY <1>2, <1>3, <1>4, <3>2, <4>1, FilesAssumption DEF Kept
    <3> QED BY <3>1, <3>2 DEF FilesAreKept
  <2>3. SaveProceeds'
    BY <1>1, <1>2, <1>3, <1>4, <1>5, <2>1 DEF SaveProceeds, Proceeds, Saving, Switching, memory, g
  <2>4. DiskOK'
    BY <1>1, <1>2, <1>4 DEF DiskOK
  <2>5. MemoryOK'
    BY <1>2, <1>3, <1>5, MemoryFrame
  <2> QED BY <2>2, <2>3, <2>4, <2>5 DEF SavesInv
<1>7. CASE damages # 0
  <2> HIDE DEF p, g
  <2>1. FilesAreKept'
    <3>1. ASSUME NEW q \in Project \ {p} PROVE Kept(q)'
      <4>1. Kept(q) /\ generations' = generations
        BY <1>2 DEF SavesInv, FilesAreKept
      <4> QED BY <1>2, <1>4, <4>1 DEF Kept, NewestOf
    <3>2. ASSUME NEW q \in Project, q = p PROVE Kept(q)'
      BY <1>2, <1>3, <1>4, <1>7, <3>2, FilesAssumption DEF Kept
    <3> QED BY <3>1, <3>2 DEF FilesAreKept
  <2>2. SaveProceeds'
    BY <1>1, <1>2, <1>3, <1>4, <1>5, <1>7 DEF SaveProceeds, Proceeds, Saving, Switching, memory
  <2>3. DiskOK'
    BY <1>1, <1>2, <1>4 DEF DiskOK
  <2>4. MemoryOK'
    BY <1>2, <1>3, <1>5, MemoryFrame
  <2> QED BY <2>1, <2>2, <2>3, <2>4 DEF SavesInv
<1> QED BY <1>6, <1>7

-----------------------------------------------------------------------------
(* Saves end.                                                              *)

\* Pruning keeps the generation the save has made, so it loses nothing that a
\* load could give after the active file is damaged.
LEMMA PruneKeeps ==
    ASSUME StorageInv, SavesInv, save.step = "prune", PruneGenerations,
           NEW p \in Project, p = save.project, NEW promises, save.target \in promises,
           promised' = [promised EXCEPT ![p] = promises], clock' \in {clock, clock + 1},
           UNCHANGED <<directories, current, workspace, damages, displaced>>
    PROVE  DiskOK' /\ FilesAreKept'
<1> DEFINE g == generations[p]
<1>1. /\ DiskOK /\ Kept(p) /\ Proceeds(p, g) /\ save.target \in Session
      /\ current[p] = save.target
  BY SaveHasProject DEF SavesInv, MemoryOK, Saving, Proceeds
<1>2. clock \in Nat /\ DOMAIN g \subseteq 1..clock /\ DOMAIN generations = Project
  BY <1>1 DEF DiskOK
<1>3. PICK removed \in SUBSET Stale(save.project) :
          generations' = [generations EXCEPT ![save.project] = [t \in DOMAIN @ \ removed |-> @[t]]]
  BY DEF PruneGenerations
<1> DEFINE h == [t \in DOMAIN g \ removed |-> g[t]]
<1>4. /\ DOMAIN generations' = Project /\ generations'[p] = h
      /\ \A q \in Project \ {p} : generations'[q] = generations[q]
  BY <1>2, <1>3
<1>5. /\ DOMAIN h \subseteq DOMAIN g /\ DOMAIN h = DOMAIN g \ removed
      /\ \A t \in DOMAIN h : h[t] = g[t]
  OBVIOUS
<1>6. clock \in DOMAIN g => clock \notin removed
  <2> SUFFICES ASSUME clock \in DOMAIN g, clock \in removed PROVE FALSE
    OBVIOUS
  <2>1. Cardinality({u \in DOMAIN g : u > clock}) >= GenerationsToKeep
    BY DEF Stale
  <2>2. {u \in DOMAIN g : u > clock} = {}
    BY <1>2
  <2>3. Cardinality({u \in DOMAIN g : u > clock}) = 0
    BY <2>2, FS_EmptySet
  <2>4. GenerationsToKeep \in Nat \ {0}
    BY StorageAssumption
  <2> QED BY <2>1, <2>3, <2>4
<1>7. /\ promised'[p] = promises /\ DOMAIN promised' = Project
      /\ \A q \in Project \ {p} : promised'[q] = promised[q]
  BY <1>1 DEF DiskOK
<1> HIDE DEF h, g
<1>8. damages = 0 => NewestOf(h) = displaced[p]
  <2>1. CASE displaced[p] = None /\ DOMAIN g = {}
    BY <1>5, <2>1 DEF NewestOf
  <2>2. CASE displaced[p] \in Session /\ clock \in DOMAIN g /\ g[clock] = displaced[p]
    <3>1. clock \in DOMAIN h /\ h[clock] = displaced[p]
      BY <1>5, <1>6, <2>2
    <3>2. DOMAIN h \subseteq 1..clock /\ \A u \in DOMAIN h : u <= clock
      BY <1>2, <1>5
    <3> QED BY <1>2, <2>2, <3>1, <3>2, LastIsNewest, FilesAssumption
  <2> QED BY <1>1, <2>1, <2>2 DEF Proceeds
<1>9. FilesAreKept'
  <2>1. ASSUME NEW q \in Project \ {p} PROVE Kept(q)'
    <3>1. Kept(q) /\ generations'[q] = generations[q] /\ promised'[q] = promised[q]
      BY <1>4, <1>7 DEF SavesInv, FilesAreKept
    <3>2. NewestOf(generations'[q]) = NewestOf(generations[q])
      BY <3>1
    <3> QED BY <3>1, <3>2 DEF Kept
  <2>2. Kept(p)'
    BY <1>1, <1>4, <1>7, <1>8, FilesAssumption DEF Kept
  <2> QED BY <2>1, <2>2 DEF FilesAreKept
<1>10. DiskOK'
  <2>1. ASSUME NEW q \in Project
        PROVE  /\ DOMAIN generations'[q] \subseteq DOMAIN generations[q]
               /\ \A t \in DOMAIN generations'[q] : generations'[q][t] = generations[q][t]
    BY <1>4, <1>5 DEF g
  <2>2. /\ \A q \in Project : DOMAIN generations'[q] \subseteq 1..clock
        /\ \A q \in Project : \A t \in DOMAIN generations'[q] :
               generations'[q][t] \in Session \union {Damaged}
    BY <1>1, <2>1 DEF DiskOK
  <2>3. clock' \in Nat /\ 1..clock \subseteq 1..clock'
    BY <1>2
  <2> QED BY <1>1, <1>4, <1>7, <2>2, <2>3 DEF DiskOK
<1> QED BY <1>9, <1>10

\* What Vec::push makes of a history.
LEMMA PushedIs ==
    ASSUME NEW entries \in Seq(Session), NEW s \in Session, Len(entries) <= HistoryLimit
    PROVE  /\ Pushed(entries, s) \in Seq(Session)
           /\ Len(Pushed(entries, s)) <= HistoryLimit
           /\ Len(Pushed(entries, s)) <= Len(entries) + 1
<1>1. HistoryLimit \in Nat \ {0}
  BY StorageAssumption
<1>2. CASE Len(entries) < HistoryLimit
  BY <1>1, <1>2 DEF Pushed
<1>3. CASE ~(Len(entries) < HistoryLimit)
  <2>1. entries # <<>>
    BY <1>1, <1>3
  <2>2. Tail(entries) \in Seq(Session) /\ Len(Tail(entries)) = Len(entries) - 1
    BY <2>1
  <2>3. Pushed(entries, s) = Append(Tail(entries), s)
    BY <1>3 DEF Pushed
  <2>4. /\ Append(Tail(entries), s) \in Seq(Session)
        /\ Len(Append(Tail(entries), s)) = Len(entries)
    BY <2>2
  <2> QED BY <1>1, <1>3, <2>3, <2>4
<1> QED BY <1>2, <1>3

\* The lengths of the history.
LEMMA HistoryIs ==
    ASSUME MemoryOK
    PROVE  /\ undo \in Seq(Session) /\ redo \in Seq(Session)
           /\ Len(undo) \in Nat /\ Len(redo) \in Nat /\ HistoryLimit \in Nat
           /\ Len(undo) + Len(redo) <= HistoryLimit
           /\ Len(undo) <= HistoryLimit /\ Len(redo) <= HistoryLimit
           /\ save.for \in {"undo", "redo"} => Len(undo) + Len(redo) + 1 <= HistoryLimit
BY StorageAssumption DEF MemoryOK

\* A new history that fits, once no entry of it is being restored.
LEMMA HistoryEnds ==
    ASSUME SavesInv, save' = NoSave, prepared' = prepared,
           undo' \in Seq(Session), redo' \in Seq(Session), Len(undo') + Len(redo') <= HistoryLimit,
           sequence' \in Nat, project' = project, session' \in Session \union {None},
           project = None <=> session' = None,
           project = None => undo' = <<>> /\ redo' = <<>>
    PROVE  MemoryOK'
<1>1. Len(undo') + Len(redo') + (IF save'.for \in {"undo", "redo"} THEN 1 ELSE 0) <= HistoryLimit
  BY NoSaveIs
<1>2. save' \in Save /\ save'.for = "nothing" /\ save'.step = "idle"
  BY NoSaveIs
<1> QED BY <1>1, <1>2 DEF SavesInv, MemoryOK, Saving

\* An edit, an undo or a redo was saved: the history moves on and the writer is
\* free again.
LEMMA ExchangeKeeps ==
    ASSUME StorageInv, SavesInv, EditSaved \/ UndoSaved \/ RedoSaved
    PROVE  SavesInv'
<1> DEFINE p == save.project
<1>1. /\ save.step = "prune" /\ PruneGenerations /\ Exchange(save.target) /\ Settle(p, save.target)
      /\ save' = NoSave
      /\ UNCHANGED <<directories, current, workspace, prepared, clock, damages, displaced>>
      /\ save.for \in {"edit", "prepared", "undo", "redo"}
  BY DEF EditSaved, UndoSaved, RedoSaved, SaveDone
<1>2. p \in Project /\ MemoryOK
  BY <1>1, SaveHasProject DEF SavesInv
<1>3. DiskOK' /\ FilesAreKept'
  <2>1. promised' = [promised EXCEPT ![p] = {save.target}] /\ save.target \in {save.target}
    BY <1>1 DEF Settle
  <2> QED BY <1>1, <1>2, <2>1, PruneKeeps
<1>4. IsOpen /\ save.target \in Session /\ session \in Session
  BY <1>1, <1>2 DEF StorageInv, CommitsAreOpen, MemoryOK, Saving, IsOpen
<1>5. undo' \in Seq(Session) /\ redo' \in Seq(Session) /\ Len(undo') + Len(redo') <= HistoryLimit
  <2>1. CASE EditSaved
    <3>1. undo' = Pushed(undo, session) /\ redo' = <<>>
      BY <2>1 DEF EditSaved, Record
    <3> QED BY <1>2, <1>4, <3>1, HistoryIs, PushedIs
  <2>2. CASE UndoSaved
    <3>1. redo' = Pushed(redo, session) /\ undo' = undo /\ save.for = "undo"
      BY <2>2 DEF UndoSaved, SaveDone
    <3>2. redo' \in Seq(Session) /\ Len(redo') <= Len(redo) + 1
      BY <1>2, <1>4, <3>1, HistoryIs, PushedIs
    <3>3. Len(redo') \in Nat
      BY <3>2
    <3> QED BY <1>2, <3>1, <3>2, <3>3, HistoryIs
  <2>3. CASE RedoSaved
    <3>1. undo' = Pushed(undo, session) /\ redo' = redo /\ save.for = "redo"
      BY <2>3 DEF RedoSaved, SaveDone
    <3>2. undo' \in Seq(Session) /\ Len(undo') <= Len(undo) + 1
      BY <1>2, <1>4, <3>1, HistoryIs, PushedIs
    <3>3. Len(undo') \in Nat
      BY <3>2
    <3> QED BY <1>2, <3>1, <3>2, <3>3, HistoryIs
  <2> QED BY <2>1, <2>2, <2>3
<1>6. MemoryOK'
  <2>1. /\ sequence' \in Nat /\ project' = project /\ session' \in Session \union {None}
        /\ project # None /\ session' # None
    BY <1>1, <1>2, <1>4, FilesAssumption DEF Exchange, IsOpen, MemoryOK
  <2> QED BY <1>1, <1>5, <2>1, HistoryEnds
<1>7. SaveProceeds'
  BY <1>1, NothingProceeds
<1> QED BY <1>3, <1>6, <1>7 DEF SavesInv

\* A restored generation was saved as it is; unless it is the current Session,
\* the save of its commit follows.
LEMMA RestoreSavedKeeps ==
    ASSUME StorageInv, SavesInv, RestoreSaved
    PROVE  SavesInv'
<1> DEFINE p == save.project
<1>1. /\ save.step = "prune" /\ PruneGenerations /\ save.for = "restore"
      /\ UNCHANGED <<directories, current, workspace, memory, prepared, damages, displaced>>
  BY DEF RestoreSaved, SaveDone
<1>2. p \in Project /\ MemoryOK /\ DiskOK /\ p = project /\ clock \in Nat /\ DOMAIN promised = Project
  BY <1>1, SaveHasProject DEF SavesInv, Proceeds, DiskOK
<1>3. IsOpen /\ save.target \in Session /\ session \in Session
  BY <1>1, <1>2 DEF StorageInv, CommitsAreOpen, MemoryOK, Saving, IsOpen
<1>4. CASE save' = NoSave /\ Settle(project, save.target) /\ UNCHANGED clock
  <2>1. DiskOK' /\ FilesAreKept'
    <3>1. promised' = [promised EXCEPT ![p] = {save.target}] /\ save.target \in {save.target}
      BY <1>2, <1>4 DEF Settle
    <3> QED BY <1>1, <1>2, <1>4, <3>1, PruneKeeps
  <2>2. MemoryOK'
    BY <1>1, <1>4, MemoryFrame, NoSaveIs DEF Saving
  <2> QED BY <1>4, <2>1, <2>2, NothingProceeds DEF SavesInv
<1>5. CASE /\ clock' = clock + 1
           /\ save' = [save EXCEPT !.step = "copy", !.for = "edit", !.target = Stamped(save.target)]
           /\ promised' = [promised EXCEPT ![project] = {save.target, Stamped(save.target)}]
  <2> DEFINE target == Stamped(save.target)
  <2>1. target \in Session
    BY <1>2, <1>3, StampedIsSession
  <2> HIDE DEF target
  <2>2. DiskOK' /\ FilesAreKept'
    <3>1. /\ promised' = [promised EXCEPT ![p] = {save.target, target}]
          /\ save.target \in {save.target, target}
      BY <1>2, <1>5 DEF target
    <3> QED BY <1>1, <1>2, <1>5, <3>1, PruneKeeps
  <2>3. /\ save' \in Save /\ save'.step = "copy" /\ save'.for = "edit" /\ save'.target = target
        /\ save'.project = p
    BY <1>2, <1>5, <2>1 DEF MemoryOK, Save, Saving, Purposes, target
  <2>4. MemoryOK'
    BY <1>1, <2>1, <2>3, MemoryFrame
  <2>5. SaveProceeds'
    <3>1. target \in promised'[p]
      BY <1>2, <1>5 DEF target
    <3>2. clock' > 0 /\ clock' \notin DOMAIN generations'[p]
      <4>1. DOMAIN generations'[p] \subseteq DOMAIN generations[p]
        BY <1>1, <1>2 DEF PruneGenerations, DiskOK
      <4> QED BY <1>2, <1>5, <4>1 DEF DiskOK
    <3>3. p = project'
      BY <1>1, <1>2 DEF memory
    <3> QED BY <2>3, <3>1, <3>2, <3>3 DEF SaveProceeds, Proceeds, Switching
  <2> QED BY <2>2, <2>4, <2>5 DEF SavesInv
<1> QED BY <1>4, <1>5 DEF RestoreSaved

\* A created Project can be loaded.
LEMMA CreationSavedKeeps ==
    ASSUME StorageInv, SavesInv, CreationSaved
    PROVE  SavesInv'
<1> DEFINE p == save.project
<1>1. /\ save.step = "prune" /\ PruneGenerations /\ Settle(p, save.target) /\ Goto("activate")
      /\ UNCHANGED <<directories, current, workspace, memory, prepared, clock, damages, displaced>>
      /\ save.for \in Creations
  BY DEF CreationSaved, SaveDone
<1>2. p \in Project /\ MemoryOK /\ current[p] = save.target /\ save.target \in Session
  BY <1>1, SaveHasProject DEF SavesInv, Proceeds, MemoryOK, Saving
<1>3. DiskOK' /\ FilesAreKept'
  <2>1. promised' = [promised EXCEPT ![p] = {save.target}] /\ save.target \in {save.target}
    BY <1>1 DEF Settle
  <2> QED BY <1>1, <1>2, <2>1, PruneKeeps
<1>4. /\ save' \in Save /\ save'.step = "activate" /\ save'.for = save.for /\ save'.entry = save.entry
      /\ save'.project = p
  BY <1>1, GotoIs DEF Switching
<1>5. MemoryOK'
  BY <1>1, <1>4, MemoryFrame DEF Saving
<1>6. SaveProceeds'
  <2>1. ASSUME NEW q \in Project, q = p PROVE Load(q)' # None
    BY <1>1, <1>2, <2>1, FilesAssumption DEF Load
  <2>2. PICK q \in Project : q = p
    BY <1>2
  <2>3. Load(save.project)' # None
    BY <1>4, <2>1, <2>2
  <2> QED BY <1>1, <1>4, <2>3 DEF SaveProceeds, Proceeds, Saving, Creations
<1> QED BY <1>3, <1>5, <1>6 DEF SavesInv

\* What a Session restored into the history makes of it when a save fails.
LEMMA TakeBackKeeps ==
    ASSUME StorageInv, SavesInv, TakeBack, save' = NoSave, UNCHANGED <<project, session, sequence, prepared>>
    PROVE  MemoryOK'
<1>1. /\ MemoryOK /\ (save.for \in {"undo", "redo"} => IsOpen)
      /\ undo' = (IF save.for = "undo" THEN Pushed(undo, save.entry) ELSE undo)
      /\ redo' = (IF save.for = "redo" THEN Pushed(redo, save.entry) ELSE redo)
  BY DEF StorageInv, CommitsAreOpen, SavesInv, TakeBack
<1>2. undo' \in Seq(Session) /\ redo' \in Seq(Session) /\ Len(undo') + Len(redo') <= HistoryLimit
  <2>1. CASE save.for = "undo"
    <3>1. undo' = Pushed(undo, save.entry) /\ redo' = redo /\ save.entry \in Session
      BY <1>1, <2>1 DEF MemoryOK
    <3>2. undo' \in Seq(Session) /\ Len(undo') <= Len(undo) + 1
      BY <1>1, <3>1, HistoryIs, PushedIs
    <3>3. Len(undo') \in Nat
      BY <3>2
    <3> QED BY <1>1, <2>1, <3>1, <3>2, <3>3, HistoryIs
  <2>2. CASE save.for = "redo"
    <3>1. redo' = Pushed(redo, save.entry) /\ undo' = undo /\ save.entry \in Session
      BY <1>1, <2>2 DEF MemoryOK
    <3>2. redo' \in Seq(Session) /\ Len(redo') <= Len(redo) + 1
      BY <1>1, <3>1, HistoryIs, PushedIs
    <3>3. Len(redo') \in Nat
      BY <3>2
    <3> QED BY <1>1, <2>2, <3>1, <3>2, <3>3, HistoryIs
  <2>3. CASE save.for \notin {"undo", "redo"}
    BY <1>1, <2>3, HistoryIs
  <2> QED BY <2>1, <2>2, <2>3
<1>3. /\ sequence' \in Nat /\ project' = project /\ session' \in Session \union {None}
      /\ (project = None <=> session' = None)
      /\ (project = None => undo' = <<>> /\ redo' = <<>>)
  BY <1>1 DEF MemoryOK, IsOpen
<1> QED BY <1>2, <1>3, HistoryEnds

\* A container that is removed is promised to give nothing.
LEMMA DiscardKeeps ==
    ASSUME SavesInv, NEW p \in Project, Discard(p), UNCHANGED <<workspace, clock, damages>>
    PROVE  DiskOK' /\ FilesAreKept'
<1>1. DiskOK
  BY DEF SavesInv
<1>2. /\ current'[p] = None /\ generations'[p] = <<>> /\ promised'[p] = {None}
      /\ current' \in [Project -> Files] /\ directories' \subseteq Project
      /\ DOMAIN generations' = Project /\ DOMAIN promised' = Project /\ DOMAIN displaced' = Project
  BY <1>1 DEF Discard, DiskOK, Files
<1>3. \A q \in Project \ {p} : /\ current'[q] = current[q] /\ generations'[q] = generations[q]
                               /\ promised'[q] = promised[q] /\ displaced'[q] = displaced[q]
  BY <1>1 DEF Discard, DiskOK
<1>4. DOMAIN generations'[p] = {}
  BY <1>2
<1>5. DiskOK'
  BY <1>1, <1>2, <1>3, <1>4 DEF DiskOK
<1>6. FilesAreKept'
  <2>1. ASSUME NEW q \in Project \ {p} PROVE Kept(q)'
    <3>1. Kept(q) /\ NewestOf(generations'[q]) = NewestOf(generations[q])
      BY <1>3 DEF SavesInv, FilesAreKept
    <3> QED BY <1>3, <3>1 DEF Kept
  <2>2. Kept(p)'
    BY <1>2, <1>4, FilesAssumption DEF Kept
  <2> QED BY <2>1, <2>2 DEF FilesAreKept
<1> QED BY <1>5, <1>6

\* A save that fails leaves the active file, and its Session stays promised.
LEMMA AbandonKeeps ==
    ASSUME StorageInv, SavesInv, SaveFails \/ PruneFails
    PROVE  SavesInv'
<1>1. /\ save.step # "idle" /\ AbandonSave
  BY DEF SaveFails, PruneFails
<1>2. save.project \in Project /\ DiskOK
  BY <1>1, SaveHasProject
<1>3. DiskOK' /\ FilesAreKept'
  <2>1. CASE Discard(save.project)
    BY <1>1, <1>2, <2>1, DiscardKeeps DEF AbandonSave
  <2>2. CASE KeepFiles
    BY <1>1, <1>2, <2>2, DiskFrame DEF AbandonSave, KeepFiles, DiskOK
  <2> QED BY <1>1, <2>1, <2>2 DEF AbandonSave
<1>4. MemoryOK'
  BY <1>1, TakeBackKeeps DEF AbandonSave
<1> QED BY <1>1, <1>3, <1>4, NothingProceeds DEF SavesInv, AbandonSave

-----------------------------------------------------------------------------
(* Requests.                                                               *)

\* A step that touches neither the Sessions on the disk nor the writer.
LEMMA ProceedsFrame ==
    ASSUME SavesInv,
           UNCHANGED <<current, generations, promised, displaced, clock, damages, project, save>>
    PROVE  SaveProceeds'
BY DEF SavesInv, SaveProceeds, Proceeds, Load, NewestGeneration

\* An idle writer has nothing to do.
LEMMA IdleProceeds ==
    ASSUME save'.step = "idle", save'.for = "nothing"
    PROVE  SaveProceeds'
BY DEF SaveProceeds, Proceeds, Saving, Switching

\* A request that takes nothing from the history begins its save.
LEMMA BeginKeeps ==
    ASSUME SavesInv, NEW purpose \in Purposes \ {"undo", "redo"}, NEW p \in Project,
           NEW target \in Session, NEW base \in Session \union {None},
           BeginSave(purpose, p, target, None, base),
           purpose \in {"edit", "prepared", "restore"} => p = project,
           UNCHANGED memory, prepared' \in {prepared, None}
    PROVE  SavesInv'
<1>1. UNCHANGED <<project, session, sequence, undo, redo>>
  BY DEF memory
<1>2. /\ DiskOK' /\ FilesAreKept' /\ SaveProceeds'
      /\ save' \in Save /\ save'.for = purpose /\ save'.step = "copy" /\ save'.target = target
  BY <1>1, BeginSaveKeeps
<1>3. MemoryOK'
  <2>1. Len(undo) + Len(redo) <= HistoryLimit /\ MemoryOK
    BY HistoryIs DEF SavesInv
  <2>2. Len(undo') + Len(redo') + (IF save'.for \in {"undo", "redo"} THEN 1 ELSE 0) <= HistoryLimit
    BY <1>1, <1>2, <2>1, HistoryIs
  <2> QED BY <1>1, <1>2, <2>1, <2>2 DEF MemoryOK
<1> QED BY <1>2, <1>3 DEF SavesInv

\* An open Project has a Session.
LEMMA OpenHasSession ==
    ASSUME SavesInv, MayWrite
    PROVE  project \in Project /\ session \in Session /\ sequence \in Nat /\ DiskOK /\ MemoryOK
BY DEF SavesInv, MemoryOK, MayWrite, IsOpen

LEMMA EditKeeps ==
    ASSUME SavesInv, Edit
    PROVE  SavesInv'
<1>1. MayWrite /\ UNCHANGED <<memory, prepared>>
  BY DEF Edit
<1>2. PICK content \in Content : CommitCandidate("edit", [session EXCEPT !.content = content], None)
  BY DEF Edit
<1>3. project \in Project /\ session \in Session /\ clock \in Nat
  BY <1>1, OpenHasSession DEF DiskOK
<1>4. [session EXCEPT !.content = content] \in Session
  BY <1>3 DEF Session
<1>5. Stamped([session EXCEPT !.content = content]) \in Session
  BY <1>3, <1>4, StampedIsSession
<1>6. BeginSave("edit", project, Stamped([session EXCEPT !.content = content]), None, None)
  BY <1>2 DEF CommitCandidate
<1> QED BY <1>1, <1>3, <1>5, <1>6, BeginKeeps DEF Purposes

LEMMA PrepareKeeps ==
    ASSUME SavesInv, Prepare
    PROVE  SavesInv'
<1>1. MayWrite /\ UNCHANGED <<files, memory, save, surroundings>>
  BY DEF Prepare
<1>2. PICK content \in Content : prepared' = [session |-> [session EXCEPT !.content = content],
                                              sequence |-> sequence, base |-> session]
  BY DEF Prepare
<1>3. session \in Session /\ sequence \in Nat /\ DiskOK /\ MemoryOK
  BY <1>1, OpenHasSession
<1>4. prepared' \in [session : Session, sequence : Nat, base : Session]
  BY <1>2, <1>3 DEF Session
<1>5. DiskOK' /\ FilesAreKept'
  BY <1>1, <1>3, DiskFrame DEF files, surroundings, DiskOK
<1>6. MemoryOK'
  BY <1>1, <1>3, <1>4 DEF MemoryOK, memory
<1>7. SaveProceeds'
  BY <1>1, ProceedsFrame DEF files, memory, surroundings
<1> QED BY <1>5, <1>6, <1>7 DEF SavesInv

LEMMA CommitPreparedKeeps ==
    ASSUME SavesInv, CommitPrepared
    PROVE  SavesInv'
<1>1. /\ MayWrite /\ prepared # None /\ prepared' = None /\ UNCHANGED memory
      /\ BeginSave("prepared", project, Stamped(prepared.session), None, prepared.base)
  BY DEF CommitPrepared, CommitCandidate
<1>2. project \in Project /\ session \in Session /\ clock \in Nat /\ MemoryOK
  BY <1>1, OpenHasSession DEF DiskOK
<1>3. prepared.session \in Session /\ prepared.base \in Session
  BY <1>1, <1>2 DEF MemoryOK
<1>4. Stamped(prepared.session) \in Session
  BY <1>2, <1>3, StampedIsSession
<1> QED BY <1>1, <1>2, <1>3, <1>4, BeginKeeps DEF Purposes

\* A candidate that is out of date is dropped, and workspace.json may be
\* repaired: neither touches a Session.
LEMMA PreparedConflictsKeeps ==
    ASSUME SavesInv, PreparedConflicts
    PROVE  SavesInv'
<1>1. prepared' = None /\ UNCHANGED <<files, memory, save, surroundings>>
  BY DEF PreparedConflicts
<1>2. DiskOK /\ MemoryOK
  BY DEF SavesInv
<1>3. DiskOK' /\ FilesAreKept'
  BY <1>1, <1>2, DiskFrame DEF files, surroundings, DiskOK
<1>4. MemoryOK'
  BY <1>1, <1>2 DEF MemoryOK, memory
<1>5. SaveProceeds'
  BY <1>1, ProceedsFrame DEF files, memory, surroundings
<1> QED BY <1>3, <1>4, <1>5 DEF SavesInv

LEMMA RepairWorkspaceKeeps ==
    ASSUME SavesInv, RepairWorkspace
    PROVE  SavesInv'
<1>1. /\ workspace' \in directories
      /\ UNCHANGED <<directories, current, generations, memory, prepared, save, surroundings>>
  BY DEF RepairWorkspace
<1>2. DiskOK /\ MemoryOK
  BY DEF SavesInv
<1>3. DiskOK' /\ FilesAreKept'
  BY <1>1, <1>2, DiskFrame DEF surroundings, DiskOK
<1>4. MemoryOK'
  BY <1>1, <1>2 DEF MemoryOK, memory
<1>5. SaveProceeds'
  BY <1>1, ProceedsFrame DEF memory, surroundings
<1> QED BY <1>3, <1>4, <1>5 DEF SavesInv

\* Nothing happens.
LEMMA StutterKeeps ==
    ASSUME SavesInv, UNCHANGED vars
    PROVE  SavesInv'
<1>1. UNCHANGED <<files, memory, prepared, save, surroundings>>
  BY DEF vars
<1>2. DiskOK /\ MemoryOK
  BY DEF SavesInv
<1>3. DiskOK' /\ FilesAreKept'
  BY <1>1, <1>2, DiskFrame DEF files, surroundings, DiskOK
<1>4. MemoryOK'
  BY <1>1, <1>2 DEF MemoryOK, memory
<1>5. SaveProceeds'
  BY <1>1, ProceedsFrame DEF files, memory, surroundings
<1> QED BY <1>3, <1>4, <1>5 DEF SavesInv

\* The first n elements of a sequence.
LEMMA PrefixIs ==
    ASSUME NEW S, NEW s \in Seq(S), NEW n \in Nat, n <= Len(s)
    PROVE  SubSeq(s, 1, n) \in Seq(S) /\ Len(SubSeq(s, 1, n)) = n
OBVIOUS

\* Undo and Redo take an entry from the history and keep its place free.
LEMMA TakenIs ==
    ASSUME NEW entries \in Seq(Session), entries # <<>>
    PROVE  /\ Front(entries) \in Seq(Session) /\ Len(Front(entries)) = Len(entries) - 1
           /\ Last(entries) \in Session
<1>1. Len(entries) \in Nat \ {0}
  OBVIOUS
<1>2. Last(entries) \in Session
  BY <1>1 DEF Last
<1>3. Len(entries) - 1 \in Nat /\ Len(entries) - 1 <= Len(entries)
  BY <1>1
<1> QED BY <1>2, <1>3, PrefixIs DEF Front

LEMMA UndoKeeps ==
    ASSUME StorageInv, SavesInv, Undo
    PROVE  SavesInv'
<1>1. /\ MayWrite /\ undo # <<>> /\ undo' = Front(undo)
      /\ BeginSave("undo", project, Stamped(Last(undo)), Last(undo), None)
      /\ UNCHANGED <<project, session, sequence, redo, prepared>>
  BY DEF Undo
<1>2. /\ project \in Project /\ session \in Session /\ clock \in Nat /\ MemoryOK
      /\ undo \in Seq(Session) /\ project # None
  BY <1>1, OpenHasSession DEF DiskOK, MemoryOK, MayWrite, IsOpen
<1>3. /\ undo' \in Seq(Session) /\ Len(undo') = Len(undo) - 1 /\ Last(undo) \in Session
  BY <1>1, <1>2, TakenIs
<1>4. Stamped(Last(undo)) \in Session
  BY <1>2, <1>3, StampedIsSession
<1>5. /\ DiskOK' /\ FilesAreKept' /\ SaveProceeds'
      /\ save' \in Save /\ save'.for = "undo" /\ save'.entry = Last(undo)
      /\ save'.step = "copy" /\ save'.target = Stamped(Last(undo))
  BY <1>1, <1>2, <1>3, <1>4, BeginSaveKeeps DEF Purposes
<1>6. MemoryOK'
  <2>1. Len(undo') + Len(redo') + (IF save'.for \in {"undo", "redo"} THEN 1 ELSE 0) <= HistoryLimit
    BY <1>1, <1>2, <1>3, <1>5, HistoryIs
  <2> QED BY <1>1, <1>2, <1>3, <1>4, <1>5, <2>1 DEF MemoryOK
<1> QED BY <1>5, <1>6 DEF SavesInv

LEMMA RedoKeeps ==
    ASSUME StorageInv, SavesInv, Redo
    PROVE  SavesInv'
<1>1. /\ MayWrite /\ redo # <<>> /\ redo' = Front(redo)
      /\ BeginSave("redo", project, Stamped(Last(redo)), Last(redo), None)
      /\ UNCHANGED <<project, session, sequence, undo, prepared>>
  BY DEF Redo
<1>2. /\ project \in Project /\ session \in Session /\ clock \in Nat /\ MemoryOK
      /\ redo \in Seq(Session) /\ project # None
  BY <1>1, OpenHasSession DEF DiskOK, MemoryOK, MayWrite, IsOpen
<1>3. /\ redo' \in Seq(Session) /\ Len(redo') = Len(redo) - 1 /\ Last(redo) \in Session
  BY <1>1, <1>2, TakenIs
<1>4. Stamped(Last(redo)) \in Session
  BY <1>2, <1>3, StampedIsSession
<1>5. /\ DiskOK' /\ FilesAreKept' /\ SaveProceeds'
      /\ save' \in Save /\ save'.for = "redo" /\ save'.entry = Last(redo)
      /\ save'.step = "copy" /\ save'.target = Stamped(Last(redo))
  BY <1>1, <1>2, <1>3, <1>4, BeginSaveKeeps DEF Purposes
<1>6. MemoryOK'
  <2>1. Len(undo') + Len(redo') + (IF save'.for \in {"undo", "redo"} THEN 1 ELSE 0) <= HistoryLimit
    BY <1>1, <1>2, <1>3, <1>5, HistoryIs
  <2> QED BY <1>1, <1>2, <1>3, <1>4, <1>5, <2>1 DEF MemoryOK
<1> QED BY <1>5, <1>6 DEF SavesInv

\* A generation is a Session of the Project that can be read.
LEMMA RestoreGenerationKeeps ==
    ASSUME SavesInv, RestoreGeneration
    PROVE  SavesInv'
<1>1. MayWrite /\ UNCHANGED <<memory, prepared>>
  BY DEF RestoreGeneration
<1>2. PICK t \in DOMAIN generations[project] :
          /\ generations[project][t] # Damaged
          /\ BeginSave("restore", project, generations[project][t], None, None)
  BY DEF RestoreGeneration
<1>3. project \in Project /\ DiskOK
  BY <1>1, OpenHasSession
<1>4. generations[project][t] \in Session
  BY <1>2, <1>3 DEF DiskOK
<1> QED BY <1>1, <1>2, <1>3, <1>4, BeginKeeps DEF Purposes

\* A new Project, the first one too, begins with a save.
LEMMA CreationKeeps ==
    ASSUME SavesInv, CreateProject \/ StartAfresh
    PROVE  SavesInv'
<1>1. UNCHANGED <<memory, prepared>>
  BY DEF CreateProject, StartAfresh
<1>2. PICK purpose \in Creations, p \in Project, content \in Content :
          BeginSave(purpose, p, [content |-> content, stamp |-> clock + 1], None, None)
  BY StorageAssumption DEF CreateProject, StartAfresh, BeginCreation, Creations
<1>3. [content |-> content, stamp |-> clock + 1] \in Session
  BY DEF SavesInv, DiskOK, Session
<1>4. purpose \in Purposes \ {"undo", "redo"} /\ purpose \notin {"edit", "prepared", "restore"}
  BY DEF Purposes, Creations
<1> QED BY <1>1, <1>2, <1>3, <1>4, BeginKeeps

-----------------------------------------------------------------------------
(* Projects are switched, and Hosts start and end.                         *)

\* A Project that is opened has something to load.
LEMMA OpenProjectKeeps ==
    ASSUME SavesInv, OpenProject
    PROVE  SavesInv'
<1>1. MayWrite /\ UNCHANGED <<files, memory, prepared, surroundings>>
  BY DEF OpenProject
<1>2. PICK p \in directories :
          /\ Load(p) # None
          /\ save' = [NoSave EXCEPT !.step = "activate", !.for = "open", !.project = p]
  BY DEF OpenProject
<1>3. DiskOK /\ MemoryOK /\ p \in Project
  BY DEF SavesInv, DiskOK
<1>4. /\ save' \in Save /\ save'.step = "activate" /\ save'.for = "open" /\ save'.project = p
  BY <1>2, <1>3 DEF NoSave, Save, Switching, Purposes
<1>5. DiskOK' /\ FilesAreKept'
  BY <1>1, <1>3, DiskFrame DEF files, surroundings, DiskOK
<1>6. MemoryOK'
  BY <1>1, <1>4, MemoryFrame DEF Saving
<1>7. SaveProceeds'
  <2>1. current' = current /\ generations' = generations
    BY <1>1 DEF files
  <2>2. Load(save.project)' # None
    BY <1>2, <1>4, <2>1 DEF Load, NewestGeneration
  <2> QED BY <1>4, <2>2 DEF SaveProceeds, Proceeds, Saving
<1> QED BY <1>5, <1>6, <1>7 DEF SavesInv

\* A Project that cannot be activated is left, or removed with its container.
LEMMA ActivationFailsKeeps ==
    ASSUME StorageInv, SavesInv, ActivationFails
    PROVE  SavesInv'
<1>1. /\ save.step = "activate" /\ save' = NoSave
      /\ UNCHANGED <<workspace, memory, prepared, clock, damages>>
      /\ Discard(save.project) \/ KeepFiles
  BY DEF ActivationFails
<1>2. save.project \in Project /\ DiskOK
  BY <1>1, SaveHasProject
<1>3. DiskOK' /\ FilesAreKept'
  <2>1. CASE Discard(save.project)
    BY <1>1, <1>2, <2>1, DiscardKeeps
  <2>2. CASE KeepFiles
    BY <1>1, <1>2, <2>2, DiskFrame DEF KeepFiles, DiskOK
  <2> QED BY <1>1, <2>1, <2>2
<1>4. MemoryOK'
  BY <1>1, MemoryFrame, NoSaveIs DEF Saving
<1> QED BY <1>1, <1>3, <1>4, NothingProceeds DEF SavesInv

LEMMA WriteWorkspaceKeeps ==
    ASSUME StorageInv, SavesInv, WriteWorkspace
    PROVE  SavesInv'
<1>1. /\ save.step = "activate" /\ workspace' = save.project /\ Goto("opening")
      /\ UNCHANGED <<directories, current, generations, memory, prepared, surroundings>>
  BY DEF WriteWorkspace
<1>2. save.project \in Project /\ DiskOK /\ MemoryOK /\ Load(save.project) # None
  BY <1>1, SaveHasProject DEF SavesInv, Proceeds, Switching
<1>3. /\ save' \in Save /\ save'.step = "opening" /\ save'.for = save.for /\ save'.entry = save.entry
      /\ save'.project = save.project
  BY <1>1, GotoIs DEF Switching
<1>4. DiskOK' /\ FilesAreKept'
  BY <1>1, <1>2, DiskFrame DEF surroundings, DiskOK
<1>5. MemoryOK'
  BY <1>1, <1>3, MemoryFrame DEF Saving
<1>6. SaveProceeds'
  <2>1. Load(save.project)' # None
    BY <1>1, <1>2, <1>3 DEF Load, NewestGeneration
  <2>2. save.for \in {"edit", "prepared", "undo", "redo", "restore"} => save.project = project
    BY DEF SavesInv, SaveProceeds, Proceeds
  <2>3. project' = project
    BY <1>1 DEF memory
  <2> QED BY <1>3, <2>1, <2>2, <2>3 DEF SaveProceeds, Proceeds, Saving
<1> QED BY <1>4, <1>5, <1>6 DEF SavesInv

\* A Project is loaded: what the load gives is what the user has now.
LEMMA InstallKeeps ==
    ASSUME SavesInv, NEW p \in Project, Load(p) # None, NEW next \in Nat, Install(p, next),
           UNCHANGED <<files, prepared, clock, damages, displaced>>,
           save' \in Save, save'.step = "idle", save'.for = "nothing"
    PROVE  SavesInv'
<1>1. /\ project' = p /\ session' = Load(p) /\ sequence' = next /\ undo' = <<>> /\ redo' = <<>>
      /\ promised' = [promised EXCEPT ![p] = {Load(p)}]
      /\ UNCHANGED <<directories, current, generations, workspace>>
  BY DEF Install, Settle, files
<1>2. DiskOK /\ MemoryOK /\ Load(p) \in Session
  BY LoadIs DEF SavesInv
<1>3. /\ promised'[p] = {Load(p)} /\ DOMAIN promised' = Project
      /\ \A q \in Project \ {p} : promised'[q] = promised[q]
  BY <1>1, <1>2 DEF DiskOK
<1>4. DiskOK'
  BY <1>1, <1>2, <1>3 DEF DiskOK
<1>5. FilesAreKept'
  <2>1. ASSUME NEW q \in Project \ {p} PROVE Kept(q)'
    <3>1. Kept(q) /\ NewestOf(generations'[q]) = NewestOf(generations[q])
      BY <1>1 DEF SavesInv, FilesAreKept
    <3> QED BY <1>1, <1>3, <3>1 DEF Kept
  <2>2. Kept(p)'
    <3>1. /\ Kept(p) /\ NewestOf(generations'[p]) = NewestOf(generations[p])
          /\ current[p] # None /\ current[p] \in Files
      BY <1>1, <1>2, NothingToLoad DEF SavesInv, FilesAreKept, DiskOK
    <3>2. /\ current[p] \in Session => Load(p) = current[p]
          /\ current[p] = Damaged => Load(p) = NewestOf(generations[p])
      BY <1>2, LoadIs, FilesAssumption
    <3> QED BY <1>1, <1>3, <3>1, <3>2 DEF Kept, Files
  <2> QED BY <2>1, <2>2 DEF FilesAreKept
<1>6. MemoryOK'
  <2>1. /\ undo' \in Seq(Session) /\ redo' \in Seq(Session) /\ Len(undo') = 0 /\ Len(redo') = 0
    BY <1>1
  <2>2. Len(undo') + Len(redo') + (IF save'.for \in {"undo", "redo"} THEN 1 ELSE 0) <= HistoryLimit
    BY <2>1, StorageAssumption
  <2>3. project' # None /\ session' # None
    BY <1>1, StorageAssumption
  <2> QED BY <1>1, <1>2, <2>1, <2>2, <2>3 DEF MemoryOK, Saving
<1> QED BY <1>4, <1>5, <1>6, IdleProceeds DEF SavesInv

LEMMA ReplaceProjectKeeps ==
    ASSUME StorageInv, SavesInv, ReplaceProject
    PROVE  SavesInv'
<1>1. /\ save.step = "opening" /\ Install(save.project, NextSequence) /\ save' = NoSave
      /\ UNCHANGED <<files, prepared, clock, damages, displaced>>
  BY DEF ReplaceProject
<1>2. save.project \in Project /\ Load(save.project) # None
  BY <1>1, SaveHasProject DEF Proceeds, Switching
<1>3. NextSequence \in Nat
  BY DEF SavesInv, MemoryOK, NextSequence
<1> QED BY <1>1, <1>2, <1>3, NoSaveIs, InstallKeeps

LEMMA StartHostKeeps ==
    ASSUME StorageInv, SavesInv, StartHost
    PROVE  SavesInv'
<1>1. /\ MayStart /\ workspace \in directories /\ Load(workspace) # None /\ Install(workspace, 0)
      /\ UNCHANGED <<files, prepared, save, clock, damages, displaced>>
  BY DEF StartHost
<1>2. workspace \in Project /\ save \in Save
  BY <1>1 DEF SavesInv, DiskOK, MemoryOK
<1>3. save'.step = "idle" /\ save'.for = "nothing"
  BY <1>1 DEF StorageInv, SaveHasDirectory, MayStart, Idle
<1> QED BY <1>1, <1>2, <1>3, InstallKeeps

\* The files stay as they are when the process ends.
LEMMA CrashKeeps ==
    ASSUME SavesInv, Crash
    PROVE  SavesInv'
<1>1. /\ project' = None /\ session' = None /\ sequence' = 0 /\ undo' = <<>> /\ redo' = <<>>
      /\ prepared' = None /\ save' = NoSave /\ UNCHANGED <<files, surroundings>>
  BY DEF Crash
<1>2. DiskOK' /\ FilesAreKept'
  BY <1>1, DiskFrame DEF files, surroundings, SavesInv, DiskOK
<1>3. MemoryOK'
  <2>1. /\ undo' \in Seq(Session) /\ redo' \in Seq(Session) /\ Len(undo') = 0 /\ Len(redo') = 0
    BY <1>1
  <2>2. Len(undo') + Len(redo') + (IF save'.for \in {"undo", "redo"} THEN 1 ELSE 0) <= HistoryLimit
    BY <1>1, <2>1, NoSaveIs, StorageAssumption
  <2> QED BY <1>1, <2>1, <2>2, NoSaveIs DEF MemoryOK, Saving
<1> QED BY <1>1, <1>2, <1>3, NothingProceeds DEF SavesInv

\* The first file that is damaged has a copy or leaves what it displaced.
LEMMA DamageKeeps ==
    ASSUME StorageInv, SavesInv, Damage
    PROVE  SavesInv'
<1>1. /\ MayStart /\ damages' = damages + 1
      /\ UNCHANGED <<directories, generations, workspace, memory, prepared, save, clock, displaced>>
  BY DEF Damage
<1>2. PICK p \in directories :
          /\ current[p] \in Session
          /\ current' = [current EXCEPT ![p] = Damaged]
          /\ promised' = [promised EXCEPT ![p] = {displaced[p], current[p]}]
  BY DEF Damage
<1>3. DiskOK /\ MemoryOK /\ p \in Project /\ damages \in Nat
  BY DEF SavesInv, DiskOK
<1>4. /\ current' \in [Project -> Files] /\ DOMAIN promised' = Project
      /\ current'[p] = Damaged /\ promised'[p] = {displaced[p], current[p]}
      /\ \A q \in Project \ {p} : current'[q] = current[q] /\ promised'[q] = promised[q]
  BY <1>2, <1>3 DEF DiskOK, Files
<1>5. damages' \in Nat /\ damages' # 0 /\ (damages' <= 1 => damages = 0)
  BY <1>1, <1>3
<1>6. DiskOK'
  BY <1>1, <1>3, <1>4, <1>5 DEF DiskOK
<1>7. FilesAreKept'
  <2>1. ASSUME NEW q \in Project \ {p} PROVE Kept(q)'
    <3>1. Kept(q) /\ generations' = generations
      BY <1>1 DEF SavesInv, FilesAreKept
    <3> QED BY <1>1, <1>4, <1>5, <3>1 DEF Kept, NewestOf
  <2>2. Kept(p)'
    <3>1. Kept(p) /\ generations' = generations
      BY <1>1, <1>3 DEF SavesInv, FilesAreKept
    <3>2. damages = 0 => NewestOf(generations'[p]) \in promised'[p]
      BY <1>2, <1>4, <3>1 DEF Kept
    <3> QED BY <1>4, <1>5, <3>2, FilesAssumption DEF Kept
  <2> QED BY <2>1, <2>2 DEF FilesAreKept
<1>8. MemoryOK'
  BY <1>1, <1>3 DEF MemoryOK, memory
<1>9. SaveProceeds'
  BY <1>1, IdleProceeds DEF StorageInv, SaveHasDirectory, MayStart, Idle
<1> QED BY <1>6, <1>7, <1>8, <1>9 DEF SavesInv

-----------------------------------------------------------------------------
(* The theorems.                                                           *)

LEMMA SavesInit == Init => SavesInv
<1> SUFFICES ASSUME Init PROVE SavesInv
  OBVIOUS
<1>1. /\ save = NoSave /\ save \in Save /\ save.step = "idle" /\ save.for = "nothing"
  BY NoSaveIs DEF Init
<1>2. DiskOK
  BY DEF Init, DiskOK, Files
<1>3. MemoryOK
  <2>1. /\ undo \in Seq(Session) /\ redo \in Seq(Session) /\ Len(undo) = 0 /\ Len(redo) = 0
    BY DEF Init
  <2> QED BY <1>1, <2>1, StorageAssumption DEF Init, MemoryOK, Saving
<1>4. FilesAreKept
  BY FilesAssumption DEF Init, FilesAreKept, Kept
<1>5. SaveProceeds
  BY <1>1 DEF SaveProceeds, Proceeds, Saving, Switching
<1> QED BY <1>2, <1>3, <1>4, <1>5 DEF SavesInv

LEMMA SavesStep == ASSUME StorageInv, SavesInv, [Next]_vars PROVE SavesInv'
<1>1. CASE UNCHANGED vars
  BY <1>1, StutterKeeps
<1>2. CASE Commits
  BY <1>2, EditKeeps, PrepareKeeps, CommitPreparedKeeps, PreparedConflictsKeeps, UndoKeeps, RedoKeeps,
     RestoreGenerationKeeps
  DEF Commits
<1>3. CASE Saves
  BY <1>3, StartCopyKeeps, FinishCopyKeeps, NothingToCopyKeeps, ReplaceCurrentKeeps, ExchangeKeeps,
     RestoreSavedKeeps, CreationSavedKeeps, AbandonKeeps
  DEF Saves
<1>4. CASE Switches
  BY <1>4, CreationKeeps, OpenProjectKeeps, ActivationFailsKeeps, WriteWorkspaceKeeps, ReplaceProjectKeeps
  DEF Switches
<1>5. CASE Lifetimes
  BY <1>5, RepairWorkspaceKeeps, StartHostKeeps, CreationKeeps, CrashKeeps, DamageKeeps DEF Lifetimes
<1> QED BY <1>1, <1>2, <1>3, <1>4, <1>5 DEF Next

\* What is on the disk and how far a save has come agree in every state, at any
\* point where the process may end.
THEOREM SavesInvariance == Spec => []SavesInv
<1>1. Init => SavesInv
  BY SavesInit
<1>2. StorageInv /\ SavesInv /\ [Next]_vars => SavesInv'
  BY SavesStep
<1> QED BY <1>1, <1>2, StorageInvariance, PTL DEF Spec

\* The state is typed and the history within its limit.
THEOREM StorageTypes == Spec => []StorageTypeOK
<1>1. SavesInv => StorageTypeOK
  <2> SUFFICES ASSUME SavesInv PROVE StorageTypeOK
    OBVIOUS
  <2>1. DiskOK /\ MemoryOK
    BY DEF SavesInv
  <2>2. \A p \in Project :
            /\ current[p] = None \/ IsFile(current[p])
            /\ DOMAIN generations[p] \subseteq 1 .. clock
            /\ \A t \in DOMAIN generations[p] : IsFile(generations[p][t])
    BY <2>1 DEF DiskOK, Files, IsFile
  <2>3. Len(undo) + Len(redo) <= HistoryLimit
    BY <2>1, HistoryIs
  <2> QED BY <2>1, <2>2, <2>3 DEF StorageTypeOK, DiskOK, MemoryOK
<1> QED BY <1>1, SavesInvariance, PTL

\* Wherever a save has come to when the process ends, and with the active file
\* of one Project damaged after that, a load gives what was last confirmed or a
\* Session whose save was begun since; after the damage, what that file displaced
\* or its own.
THEOREM LoadsGiveWhatIsPromised == Spec => [](damages <= 1 => SavesSurvive)
<1>1. SavesInv => (damages <= 1 => SavesSurvive)
  <2> SUFFICES ASSUME SavesInv, damages <= 1, NEW p \in Project PROVE Load(p) \in promised[p]
    BY DEF SavesSurvive
  <2>1. DiskOK /\ Kept(p) /\ current[p] \in Files
    BY DEF SavesInv, FilesAreKept, DiskOK
  <2>2. CASE current[p] \in Session
    BY <2>1, <2>2, LoadIs DEF Kept
  <2>3. CASE current[p] = None
    BY <2>1, <2>3, NothingToLoad DEF Kept
  <2>4. CASE current[p] = Damaged
    BY <2>1, <2>4, LoadIs, FilesAssumption DEF Kept
  <2> QED BY <2>1, <2>2, <2>3, <2>4 DEF Files
<1> QED BY <1>1, SavesInvariance, PTL

-----------------------------------------------------------------------------
(* The line of edits.                                                      *)

\* The parts sequences are made of, element by element.
LEMMA SameElements ==
    ASSUME NEW S, NEW a \in Seq(S), NEW b \in Seq(S), Len(a) = Len(b), \A i \in 1..Len(a) : a[i] = b[i]
    PROVE  a = b
OBVIOUS

LEMMA ElementsAre ==
    ASSUME NEW S, NEW s \in Seq(S)
    PROVE  Len(s) \in Nat /\ \A i \in 1..Len(s) : s[i] \in S
OBVIOUS

LEMMA AppendIs ==
    ASSUME NEW S, NEW s \in Seq(S), NEW e \in S
    PROVE  /\ Append(s, e) \in Seq(S) /\ Len(Append(s, e)) = Len(s) + 1
           /\ Append(s, e)[Len(s) + 1] = e
           /\ \A i \in 1..Len(s) : Append(s, e)[i] = s[i]
OBVIOUS

LEMMA TailIs ==
    ASSUME NEW S, NEW s \in Seq(S), s # <<>>
    PROVE  /\ Tail(s) \in Seq(S) /\ Len(Tail(s)) = Len(s) - 1 /\ Len(s) \in Nat \ {0}
           /\ \A i \in 1..(Len(s) - 1) : Tail(s)[i] = s[i + 1]
OBVIOUS

LEMMA PrefixElements ==
    ASSUME NEW S, NEW s \in Seq(S), NEW n \in Nat, n <= Len(s)
    PROVE  \A i \in 1..n : SubSeq(s, 1, n)[i] = s[i]
OBVIOUS

LEMMA SuffixIs ==
    ASSUME NEW S, NEW s \in Seq(S), Len(s) > 1
    PROVE  /\ SubSeq(s, 2, Len(s)) \in Seq(S) /\ Len(SubSeq(s, 2, Len(s))) = Len(s) - 1
           /\ \A i \in 1..(Len(s) - 1) : SubSeq(s, 2, Len(s))[i] = s[i + 1]
OBVIOUS

\* The line of a history, written out.
Laid(u, s, r) ==
    [i \in 1..(Len(u) + Len(r) + 1) |->
        IF i <= Len(u) THEN u[i].content
        ELSE IF i = Len(u) + 1 THEN s.content
        ELSE r[Len(u) + Len(r) + 2 - i].content]

\* ... and element by element.
IsLaid(l, u, s, r) ==
    /\ l \in Seq(Content) /\ Len(l) = Len(u) + Len(r) + 1
    /\ Len(u) \in Nat /\ Len(r) \in Nat
    /\ \A i \in 1..Len(u) : l[i] = u[i].content
    /\ l[Len(u) + 1] = s.content
    /\ \A i \in (Len(u) + 2)..(Len(u) + Len(r) + 1) : l[i] = r[Len(u) + Len(r) + 2 - i].content

LEMMA LaidIs ==
    ASSUME NEW u \in Seq(Session), NEW r \in Seq(Session), NEW s \in Session
    PROVE  IsLaid(Laid(u, s, r), u, s, r)
<1>1. Len(u) \in Nat /\ Len(r) \in Nat /\ Len(u) + Len(r) + 1 \in Nat
  OBVIOUS
<1>2. /\ \A i \in 1..Len(u) : u[i] \in Session
      /\ \A i \in 1..Len(r) : r[i] \in Session
      /\ \A t \in Session : t.content \in Content
  <2>1. \A t \in Session : t.content \in Content
    BY DEF Session
  <2> QED BY <2>1, ElementsAre
<1>3. \A i \in 1..(Len(u) + Len(r) + 1) :
          /\ i <= Len(u) => Laid(u, s, r)[i] = u[i].content
          /\ i = Len(u) + 1 => Laid(u, s, r)[i] = s.content
          /\ i > Len(u) + 1 => Laid(u, s, r)[i] = r[Len(u) + Len(r) + 2 - i].content
  BY <1>1 DEF Laid
<1>4. \A i \in 1..(Len(u) + Len(r) + 1) : Laid(u, s, r)[i] \in Content
  <2> TAKE i \in 1..(Len(u) + Len(r) + 1)
  <2>1. CASE i <= Len(u)
    <3>1. i \in 1..Len(u)
      BY <1>1, <2>1
    <3> QED BY <1>2, <1>3, <2>1, <3>1
  <2>2. CASE i = Len(u) + 1
    BY <1>2, <1>3, <2>2
  <2>3. CASE i > Len(u) + 1
    <3>1. Len(u) + Len(r) + 2 - i \in 1..Len(r)
      BY <1>1, <2>3
    <3> QED BY <1>2, <1>3, <2>3, <3>1
  <2> QED BY <1>1, <2>1, <2>2, <2>3
<1>5. DOMAIN Laid(u, s, r) = 1..(Len(u) + Len(r) + 1)
      /\ Laid(u, s, r) = [i \in 1..(Len(u) + Len(r) + 1) |-> Laid(u, s, r)[i]]
  BY DEF Laid
<1>6. ASSUME NEW n \in Nat, NEW f, f = [i \in 1..n |-> f[i]], \A i \in 1..n : f[i] \in Content
      PROVE  f \in Seq(Content) /\ Len(f) = n
  <2>1. f \in [1..n -> Content]
    BY <1>6
  <2> QED BY <2>1
<1>7. Laid(u, s, r) \in Seq(Content) /\ Len(Laid(u, s, r)) = Len(u) + Len(r) + 1
  BY <1>1, <1>4, <1>5, <1>6
<1> QED BY <1>1, <1>3, <1>7 DEF IsLaid

\* Without anything to redo.
LEMMA LaidLast ==
    ASSUME NEW u \in Seq(Session), NEW s \in Session, NEW r \in Seq(Session), Len(r) = 0
    PROVE  /\ Laid(u, s, r) \in Seq(Content) /\ Len(Laid(u, s, r)) = Len(u) + 1
           /\ \A i \in 1..Len(u) : Laid(u, s, r)[i] = u[i].content
           /\ Laid(u, s, r)[Len(u) + 1] = s.content
<1>1. Len(u) + Len(r) + 1 = Len(u) + 1
  BY ElementsAre
<1>2. IsLaid(Laid(u, s, r), u, s, r)
  BY LaidIs
<1> QED BY <1>1, <1>2 DEF IsLaid

\* It is what the refinement mapping shows.
LEMMA LineIsLaid ==
    ASSUME NEW u \in Seq(Session), NEW r \in Seq(Session), NEW s \in Session
    PROVE  ContentsOf(u \o <<s>> \o Reverse(r)) = Laid(u, s, r)
<1>1. Reverse(r) \in Seq(Session) /\ Len(Reverse(r)) = Len(r)
      /\ \A i \in 1..Len(r) : Reverse(r)[i] = r[Len(r) - i + 1]
  BY DEF Reverse
<1>2. ASSUME NEW q \in Seq(Session)
      PROVE  /\ Len(u \o <<s>> \o q) = Len(u) + Len(q) + 1
             /\ DOMAIN (u \o <<s>> \o q) = 1..(Len(u) + Len(q) + 1)
             /\ \A i \in 1..(Len(u) + Len(q) + 1) :
                   (u \o <<s>> \o q)[i] = IF i <= Len(u) THEN u[i] ELSE IF i = Len(u) + 1 THEN s
                                          ELSE q[i - Len(u) - 1]
  OBVIOUS
<1> DEFINE q == Reverse(r)
           x == u \o <<s>> \o q
<1>3. /\ DOMAIN x = 1..(Len(u) + Len(r) + 1)
      /\ \A i \in 1..(Len(u) + Len(r) + 1) :
             x[i] = IF i <= Len(u) THEN u[i] ELSE IF i = Len(u) + 1 THEN s ELSE q[i - Len(u) - 1]
  BY <1>1, <1>2
<1>4. Len(u) \in Nat /\ Len(r) \in Nat
  BY ElementsAre
<1>5. \A i \in 1..Len(r) : q[i] = r[Len(r) - i + 1]
  BY <1>1
<1> HIDE DEF x, q
<1>6. ASSUME NEW i \in 1..(Len(u) + Len(r) + 1) PROVE x[i].content = Laid(u, s, r)[i]
  <2>1. CASE i <= Len(u) + 1
    BY <1>3, <1>4, <2>1 DEF Laid
  <2>2. CASE i > Len(u) + 1
    <3>1. i - Len(u) - 1 \in 1..Len(r) /\ Len(r) - (i - Len(u) - 1) + 1 = Len(u) + Len(r) + 2 - i
      BY <1>4, <2>2
    <3>2. q[i - Len(u) - 1] = r[Len(u) + Len(r) + 2 - i]
      BY <1>5, <3>1
    <3>3. x[i] = q[i - Len(u) - 1]
      BY <1>3, <1>4, <2>2
    <3> QED BY <1>4, <2>2, <3>2, <3>3 DEF Laid
  <2> QED BY <1>4, <2>1, <2>2
<1>7. Laid(u, s, r) = [i \in 1..(Len(u) + Len(r) + 1) |-> Laid(u, s, r)[i]]
  BY DEF Laid
<1>8. ContentsOf(x) = [i \in 1..(Len(u) + Len(r) + 1) |-> x[i].content]
  BY <1>3 DEF ContentsOf
<1> QED BY <1>6, <1>7, <1>8 DEF x, q


\* l is the line of u, s and r, cut behind s, extended by t's content and short
\* of its oldest entry when the history was full.
ExtendsLine(l, u, s, r, t) ==
    l = Edits!Newest(HistoryLimit + 1, Append(SubSeq(Laid(u, s, r), 1, Len(u) + 1), t.content))
\* An edit cuts the line behind the Session, extends it and gives up the oldest
\* entry once the history is full.
LEMMA EditExtendsLine ==
    ASSUME NEW u \in Seq(Session), NEW r \in Seq(Session), NEW s \in Session, NEW t \in Session,
           NEW none \in Seq(Session), Len(u) <= HistoryLimit, Len(none) = 0
    PROVE  ExtendsLine(Laid(Pushed(u, s), t, none), u, s, r, t)
<1> DEFINE n == Len(u)
           cut == SubSeq(Laid(u, s, r), 1, n + 1)
           x == Append(cut, t.content)
<1>1. /\ n \in Nat /\ Len(r) \in Nat /\ HistoryLimit \in Nat \ {0} /\ n <= HistoryLimit
      /\ t.content \in Content
  BY ElementsAre, StorageAssumption DEF Session
<1>2. /\ cut \in Seq(Content) /\ Len(cut) = n + 1
      /\ \A i \in 1..n : cut[i] = u[i].content
      /\ cut[n + 1] = s.content
  <2>1. /\ Laid(u, s, r) \in Seq(Content) /\ Len(Laid(u, s, r)) = n + Len(r) + 1
        /\ \A i \in 1..n : Laid(u, s, r)[i] = u[i].content
        /\ Laid(u, s, r)[n + 1] = s.content
    <3>1. IsLaid(Laid(u, s, r), u, s, r)
      BY LaidIs
    <3> QED BY <3>1 DEF IsLaid
  <2>2. n + 1 \in Nat /\ n + 1 <= Len(Laid(u, s, r))
    BY <1>1, <2>1
  <2>3. cut \in Seq(Content) /\ Len(cut) = n + 1
    BY <2>1, <2>2, PrefixIs
  <2>4. \A i \in 1..(n + 1) : cut[i] = Laid(u, s, r)[i]
    BY <2>1, <2>2, PrefixElements
  <2> HIDE DEF cut, n
  <2>5. n + 1 \in 1..(n + 1) /\ \A i \in 1..n : i \in 1..(n + 1)
    BY <1>1
  <2>6. \A i \in 1..n : cut[i] = u[i].content
    BY <2>1, <2>4, <2>5
  <2>7. cut[n + 1] = s.content
    BY <2>1, <2>4, <2>5
  <2> QED BY <2>3, <2>6, <2>7
<1> HIDE DEF cut, n
<1>3. /\ x \in Seq(Content) /\ Len(x) = n + 2
      /\ \A i \in 1..n : x[i] = u[i].content
      /\ x[n + 1] = s.content /\ x[n + 2] = t.content
  <2>1. /\ x \in Seq(Content) /\ Len(x) = Len(cut) + 1 /\ x[Len(cut) + 1] = t.content
        /\ \A i \in 1..Len(cut) : x[i] = cut[i]
    BY <1>1, <1>2, AppendIs
  <2> HIDE DEF x
  <2>2. Len(cut) + 1 = n + 2
    BY <1>1, <1>2
  <2>3. \A i \in 1..(n + 1) : x[i] = cut[i]
    BY <1>2, <2>1
  <2> QED BY <1>1, <1>2, <2>1, <2>2, <2>3
<1> HIDE DEF x
<1>4. CASE n < HistoryLimit
  <2> DEFINE p == Append(u, s)
             l == Laid(p, t, none)
  <2>1. Pushed(u, s) = p
    BY <1>4 DEF Pushed, n
  <2>2. /\ p \in Seq(Session) /\ Len(p) = n + 1 /\ p[n + 1] = s
        /\ \A i \in 1..n : p[i] = u[i]
    BY AppendIs DEF n
  <2> HIDE DEF p
  <2>3. /\ l \in Seq(Content) /\ Len(l) = Len(p) + 1
        /\ \A i \in 1..Len(p) : l[i] = p[i].content
        /\ l[Len(p) + 1] = t.content
    <3>1. p \in Seq(Session)
      BY <2>2
    <3> QED BY <3>1, LaidLast
  <2> HIDE DEF l
  <2>4. Len(l) = n + 2 /\ l[n + 2] = t.content /\ \A i \in 1..(n + 1) : l[i] = p[i].content
    BY <1>1, <2>2, <2>3
  <2>5. \A i \in 1..Len(l) : l[i] = x[i]
    <3> TAKE i \in 1..Len(l)
    <3>1. CASE i <= n
      <4>1. i \in 1..n /\ i \in 1..(n + 1)
        BY <1>1, <2>4, <3>1
      <4> QED BY <1>3, <2>2, <2>4, <4>1
    <3>2. CASE i = n + 1
      <4>1. i \in 1..(n + 1)
        BY <1>1, <3>2
      <4> QED BY <1>3, <2>2, <2>4, <3>2, <4>1
    <3>3. CASE i = n + 2
      BY <1>3, <2>4, <3>3
    <3> QED BY <1>1, <2>4, <3>1, <3>2, <3>3
  <2>6. l = x
    BY <1>3, <2>3, <2>4, <2>5, SameElements
  <2>7. Edits!Newest(HistoryLimit + 1, x) = x
    BY <1>1, <1>3, <1>4 DEF Edits!Newest
  <2> QED BY <2>1, <2>6, <2>7 DEF ExtendsLine, l, x, cut, n
<1>5. CASE ~(n < HistoryLimit)
  <2> DEFINE p == Append(Tail(u), s)
             l == Laid(p, t, none)
             y == SubSeq(x, 2, Len(x))
  <2>1. Pushed(u, s) = p
    BY <1>5 DEF Pushed, n
  <2>2. u # <<>> /\ n >= 1
    BY <1>1, <1>5 DEF n
  <2>3. /\ Tail(u) \in Seq(Session) /\ Len(Tail(u)) = n - 1
        /\ \A i \in 1..(n - 1) : Tail(u)[i] = u[i + 1]
    BY <2>2, TailIs DEF n
  <2>4. /\ p \in Seq(Session) /\ Len(p) = Len(Tail(u)) + 1 /\ p[Len(Tail(u)) + 1] = s
        /\ \A i \in 1..Len(Tail(u)) : p[i] = Tail(u)[i]
    BY <2>3, AppendIs
  <2> HIDE DEF p
  <2>5. /\ Len(p) = n /\ p[n] = s /\ \A i \in 1..(n - 1) : p[i] = u[i + 1]
    BY <1>1, <2>2, <2>3, <2>4
  <2>6. /\ l \in Seq(Content) /\ Len(l) = Len(p) + 1
        /\ \A i \in 1..Len(p) : l[i] = p[i].content
        /\ l[Len(p) + 1] = t.content
    <3>1. p \in Seq(Session)
      BY <2>4
    <3> QED BY <3>1, LaidLast
  <2> HIDE DEF l
  <2>7. y \in Seq(Content) /\ Len(y) = n + 1 /\ \A i \in 1..(n + 1) : y[i] = x[i + 1]
    <3>1. x \in Seq(Content) /\ Len(x) > 1 /\ Len(x) - 1 = n + 1
      BY <1>1, <1>3
    <3> QED BY <3>1, SuffixIs
  <2> HIDE DEF y
  <2>8. ASSUME NEW i \in 1..(n + 1) PROVE l[i] = y[i]
    <3>1. y[i] = x[i + 1]
      BY <1>1, <2>7
    <3>2. CASE i <= n - 1
      <4>1. i \in 1..Len(p) /\ i + 1 \in 1..n /\ i \in 1..(n - 1)
        BY <1>1, <2>5, <3>2
      <4>2. l[i] = u[i + 1].content /\ x[i + 1] = u[i + 1].content
        BY <1>3, <2>5, <2>6, <4>1
      <4> QED BY <3>1, <4>2
    <3>3. CASE i = n
      BY <1>1, <1>3, <2>2, <2>5, <2>6, <3>1, <3>3
    <3>4. CASE i = n + 1
      <4>1. i + 1 = n + 2 /\ i = Len(p) + 1
        BY <1>1, <2>5, <3>4
      <4> QED BY <1>3, <2>6, <3>1, <4>1
    <3> QED BY <1>1, <3>2, <3>3, <3>4
  <2>9. l = y
    <3>1. Len(l) = n + 1 /\ Len(y) = n + 1
      BY <1>1, <2>5, <2>6, <2>7
    <3> QED BY <2>6, <2>7, <2>8, <3>1, SameElements
  <2>10. Edits!Newest(HistoryLimit + 1, x) = y
    <3>1. Len(x) - (HistoryLimit + 1) + 1 = 2 /\ ~(Len(x) <= HistoryLimit + 1)
      BY <1>1, <1>3, <1>5
    <3> QED BY <1>3, <3>1 DEF Edits!Newest, y
  <2> QED BY <2>1, <2>9, <2>10 DEF ExtendsLine, l, x, cut, n
<1> QED BY <1>4, <1>5

\* Undo and Redo move along the line.
LEMMA MoveKeepsLine ==
    ASSUME NEW u \in Seq(Session), NEW r \in Seq(Session),
           NEW s \in Session, NEW t \in Session, NEW e \in Session, NEW f \in Session,
           s.content = f.content, t.content = e.content
    PROVE  Laid(Append(u, e), s, r) = Laid(u, t, Append(r, f))
<1> DEFINE p == Append(u, e)
           q == Append(r, f)
           a == Laid(p, s, r)
           b == Laid(u, t, q)
           n == Len(u)
           m == Len(r)
<1>1. n \in Nat /\ m \in Nat
  BY ElementsAre
<1>2. /\ p \in Seq(Session) /\ Len(p) = n + 1 /\ p[n + 1] = e /\ \A i \in 1..n : p[i] = u[i]
      /\ q \in Seq(Session) /\ Len(q) = m + 1 /\ q[m + 1] = f /\ \A i \in 1..m : q[i] = r[i]
  BY AppendIs
<1> HIDE DEF p, q
<1>3. /\ a \in Seq(Content) /\ Len(a) = Len(p) + m + 1
      /\ \A i \in 1..Len(p) : a[i] = p[i].content
      /\ a[Len(p) + 1] = s.content
      /\ \A i \in (Len(p) + 2)..(Len(p) + m + 1) : a[i] = r[Len(p) + m + 2 - i].content
  <2>1. p \in Seq(Session)
    BY <1>2
  <2>2. IsLaid(a, p, s, r)
    BY <2>1, LaidIs
  <2> QED BY <2>2 DEF IsLaid
<1>4. /\ b \in Seq(Content) /\ Len(b) = n + Len(q) + 1
      /\ \A i \in 1..n : b[i] = u[i].content
      /\ b[n + 1] = t.content
      /\ \A i \in (n + 2)..(n + Len(q) + 1) : b[i] = q[n + Len(q) + 2 - i].content
  <2>1. q \in Seq(Session)
    BY <1>2
  <2>2. IsLaid(b, u, t, q)
    BY <2>1, LaidIs
  <2> QED BY <2>2 DEF IsLaid
<1> HIDE DEF a, b, n, m
<1>5. Len(a) = n + m + 2 /\ Len(b) = n + m + 2
  BY <1>1, <1>2, <1>3, <1>4
<1>6. ASSUME NEW i \in 1..(n + m + 2) PROVE a[i] = b[i]
  <2>1. CASE i <= n
    <3>1. i \in 1..n /\ i \in 1..Len(p)
      BY <1>1, <1>2, <2>1
    <3> QED BY <1>2, <1>3, <1>4, <3>1
  <2>2. CASE i = n + 1
    <3>1. i \in 1..Len(p)
      BY <1>1, <1>2, <2>2
    <3> QED BY <1>2, <1>3, <1>4, <2>2, <3>1
  <2>3. CASE i = n + 2
    <3>1. i = Len(p) + 1 /\ i \in (n + 2)..(n + Len(q) + 1) /\ n + Len(q) + 2 - i = m + 1
      BY <1>1, <1>2, <2>3
    <3> QED BY <1>2, <1>3, <1>4, <3>1
  <2>4. CASE i > n + 2
    <3>1. /\ i \in (Len(p) + 2)..(Len(p) + m + 1) /\ i \in (n + 2)..(n + Len(q) + 1)
          /\ Len(p) + m + 2 - i = n + m + 3 - i /\ n + Len(q) + 2 - i = n + m + 3 - i
          /\ n + m + 3 - i \in 1..m
      <4>1. Len(p) = n + 1 /\ Len(q) = m + 1
        BY <1>2
      <4>2. i \in Int /\ i > n + 2 /\ i <= n + m + 2
        BY <1>1, <2>4
      <4> QED BY <1>1, <4>1, <4>2
    <3>2. a[i] = r[n + m + 3 - i].content /\ b[i] = q[n + m + 3 - i].content
      BY <1>3, <1>4, <3>1
    <3> QED BY <1>2, <3>1, <3>2
  <2> QED BY <1>1, <2>1, <2>2, <2>3, <2>4
<1>7. a = b
  BY <1>3, <1>4, <1>5, <1>6, SameElements
<1> QED BY <1>7 DEF a, b, p, q

\* What Undo and Redo take is where it was.
LEMMA TakenIsLast ==
    ASSUME NEW entries \in Seq(Session), entries # <<>>
    PROVE  Append(Front(entries), Last(entries)) = entries
<1> DEFINE f == Front(entries)
           x == Append(f, Last(entries))
           n == Len(entries) - 1
<1>1. n \in Nat /\ n <= Len(entries) /\ Len(entries) = n + 1
  <2>1. Len(entries) \in Nat \ {0}
    OBVIOUS
  <2> QED BY <2>1
<1>2. f \in Seq(Session) /\ Len(f) = n /\ Last(entries) \in Session
  BY TakenIs
<1>3. \A i \in 1..n : f[i] = entries[i]
  BY <1>1, PrefixElements DEF Front
<1> HIDE DEF f
<1>4. /\ x \in Seq(Session) /\ Len(x) = Len(f) + 1 /\ x[Len(f) + 1] = Last(entries)
      /\ \A i \in 1..Len(f) : x[i] = f[i]
  BY <1>2, AppendIs
<1>5. Last(entries) = entries[n + 1]
  BY <1>1 DEF Last
<1> HIDE DEF x, n
<1>6. \A i \in 1..Len(x) : x[i] = entries[i]
  BY <1>1, <1>2, <1>3, <1>4, <1>5
<1>7. x = entries
  BY <1>1, <1>2, <1>4, <1>6, SameElements
<1> QED BY <1>7 DEF x, f

-----------------------------------------------------------------------------
(* The history implements EditHistory.                                     *)

\* What Undo and Redo save holds what the entry they took holds.
EntryIsSaved == save.for \in {"undo", "redo"} => save.target.content = save.entry.content

\* A stamp changes nothing a Session holds.
LEMMA StampedHolds ==
    ASSUME NEW s \in Session
    PROVE  Stamped(s).content = s.content
BY DEF Stamped, Session

\* Requests that take nothing from the history.
LEMMA RequestIsPlain ==
    ASSUME Edit \/ CommitPrepared \/ RestoreGeneration \/ CreateProject \/ StartAfresh
    PROVE  save'.for \notin {"undo", "redo"} /\ UNCHANGED memory /\ save.step = "idle"
<1>1. UNCHANGED memory /\ save.step = "idle"
  BY DEF Edit, CommitPrepared, RestoreGeneration, CreateProject, StartAfresh, MayWrite, MayStart, Idle
<1>2. CASE Edit
  BY <1>1, <1>2 DEF Edit, CommitCandidate, BeginSave
<1>3. CASE CommitPrepared
  BY <1>1, <1>3 DEF CommitPrepared, CommitCandidate, BeginSave
<1>4. CASE RestoreGeneration
  BY <1>1, <1>4 DEF RestoreGeneration, BeginSave
<1>5. CASE CreateProject
  BY <1>1, <1>5 DEF CreateProject, BeginCreation, BeginSave
<1>6. CASE StartAfresh
  BY <1>1, <1>6 DEF StartAfresh, BeginCreation, BeginSave
<1> QED BY <1>1, <1>2, <1>3, <1>4, <1>5, <1>6

\* What a step is for is known when it begins.
LEMMA EntryStep ==
    ASSUME StorageInv, SavesInv, EntryIsSaved, [Next]_vars
    PROVE  EntryIsSaved'
<1>1. ASSUME save'.for \notin {"undo", "redo"} PROVE EntryIsSaved'
  BY <1>1 DEF EntryIsSaved
<1>2. ASSUME UNCHANGED save PROVE EntryIsSaved'
  BY <1>2 DEF EntryIsSaved
<1>3. ASSUME NEW step \in {"idle"} \union Saving \union Switching, Goto(step) PROVE EntryIsSaved'
  BY <1>3, GotoIs DEF EntryIsSaved
<1>5. ASSUME save' = NoSave PROVE EntryIsSaved'
  BY <1>5, NoSaveIs DEF EntryIsSaved
<1>6. CASE Undo \/ Redo
  <2>1. MayWrite
    BY <1>6 DEF Undo, Redo
  <2>2. undo \in Seq(Session) /\ redo \in Seq(Session)
    BY <2>1, OpenHasSession, HistoryIs
  <2>3. PICK entry \in Session, purpose \in {"undo", "redo"} :
            BeginSave(purpose, project, Stamped(entry), entry, None)
    BY <1>6, <2>2, TakenIs DEF Undo, Redo
  <2>4. save'.target = Stamped(entry) /\ save'.entry = entry
    BY <2>3 DEF BeginSave
  <2> QED BY <2>4, StampedHolds DEF EntryIsSaved
<1>7. CASE Edit \/ CommitPrepared \/ RestoreGeneration \/ CreateProject \/ StartAfresh
  BY <1>1, <1>7, RequestIsPlain
<1>8. CASE StartCopy \/ FinishCopy \/ NothingToCopy \/ ReplaceCurrent \/ CreationSaved \/ WriteWorkspace
  BY <1>3, <1>8 DEF StartCopy, FinishCopy, NothingToCopy, ReplaceCurrent, CreationSaved, WriteWorkspace,
                    Saving, Switching
<1>9. CASE EditSaved \/ UndoSaved \/ RedoSaved \/ SaveFails \/ PruneFails \/ ActivationFails
           \/ ReplaceProject \/ Crash
  BY <1>5, <1>9 DEF EditSaved, UndoSaved, RedoSaved, SaveFails, PruneFails, AbandonSave, ActivationFails,
                    ReplaceProject, Crash
<1>10. CASE RestoreSaved
  <2>1. CASE save' = NoSave
    BY <1>5, <2>1
  <2>2. CASE save' = [save EXCEPT !.step = "copy", !.for = "edit", !.target = Stamped(save.target)]
    <3>1. save \in Save
      BY DEF SavesInv, MemoryOK
    <3>2. save'.for = "edit"
      BY <2>2, <3>1 DEF Save
    <3> QED BY <1>1, <3>2
  <2> QED BY <1>10, <2>1, <2>2 DEF RestoreSaved
<1>11. CASE OpenProject
  <2>1. save'.for = "open"
    BY <1>11 DEF OpenProject, NoSave
  <2> QED BY <1>1, <2>1
<1>12. CASE Prepare \/ PreparedConflicts \/ RepairWorkspace \/ StartHost \/ Damage \/ UNCHANGED vars
  BY <1>2, <1>12 DEF Prepare, PreparedConflicts, RepairWorkspace, StartHost, Damage, vars
<1> QED BY <1>6, <1>7, <1>8, <1>9, <1>10, <1>11, <1>12 DEF Next, Commits, Saves, Switches, Lifetimes

\* A step that changes no history stands still on the line.
LEMMA LineStays ==
    ASSUME UNCHANGED <<project, session>>, UndoLine' = UndoLine, RedoLine' = RedoLine
    PROVE  UNCHANGED Edits!editVars
BY DEF Edits!editVars, IsOpen, Line, ContentsOf

LEMMA HistoryWaits ==
    ASSUME UNCHANGED memory,
           \/ save'.for = save.for /\ save'.entry = save.entry
           \/ save.for \notin {"undo", "redo"} /\ save'.for \notin {"undo", "redo"}
    PROVE  UNCHANGED Edits!editVars
<1>1. UNCHANGED <<project, session, undo, redo>>
  BY DEF memory
<1>2. UndoLine' = UndoLine /\ RedoLine' = RedoLine
  BY <1>1 DEF UndoLine, RedoLine
<1> QED BY <1>1, <1>2, LineStays

\* The parts of the line are Sessions.
LEMMA LinesAre ==
    ASSUME MemoryOK
    PROVE  UndoLine \in Seq(Session) /\ RedoLine \in Seq(Session)
<1>1. undo \in Seq(Session) /\ redo \in Seq(Session)
      /\ (save.for \in {"undo", "redo"} => save.entry \in Session)
  BY DEF MemoryOK
<1>2. save.for \in {"undo", "redo"} =>
          Append(undo, save.entry) \in Seq(Session) /\ Append(redo, save.entry) \in Seq(Session)
  BY <1>1, AppendIs
<1> QED BY <1>1, <1>2 DEF UndoLine, RedoLine

\* Requests that only begin a save, and the steps of a save before its end.
LEMMA QuietStep ==
    ASSUME StorageInv, SavesInv,
           \/ Edit \/ Prepare \/ CommitPrepared \/ PreparedConflicts \/ RestoreGeneration
           \/ StartCopy \/ FinishCopy \/ NothingToCopy \/ ReplaceCurrent \/ RestoreSaved \/ CreationSaved
           \/ CreateProject \/ OpenProject \/ ActivationFails \/ WriteWorkspace
           \/ RepairWorkspace \/ StartAfresh \/ Damage \/ UNCHANGED vars
    PROVE  UNCHANGED Edits!editVars
<1>1. save.step = "idle" => save.for = "nothing"
  BY DEF StorageInv, SaveHasDirectory
<1>2. ASSUME UNCHANGED <<memory, save>> PROVE UNCHANGED Edits!editVars
  BY <1>2, HistoryWaits
<1>3. ASSUME NEW step \in {"idle"} \union Saving \union Switching, Goto(step), UNCHANGED memory
      PROVE  UNCHANGED Edits!editVars
  BY <1>3, GotoIs, HistoryWaits
<1>5. CASE Edit \/ CommitPrepared \/ RestoreGeneration \/ CreateProject \/ StartAfresh
  BY <1>1, <1>5, RequestIsPlain, HistoryWaits
<1>6. CASE StartCopy \/ FinishCopy \/ NothingToCopy \/ ReplaceCurrent \/ CreationSaved \/ WriteWorkspace
  BY <1>3, <1>6 DEF StartCopy, FinishCopy, NothingToCopy, ReplaceCurrent, CreationSaved, WriteWorkspace,
                    Saving, Switching
<1>7. CASE Prepare \/ PreparedConflicts \/ RepairWorkspace \/ Damage \/ UNCHANGED vars
  BY <1>2, <1>7 DEF Prepare, PreparedConflicts, RepairWorkspace, Damage, vars
<1>8. CASE RestoreSaved
  <2>1. save.for = "restore" /\ UNCHANGED memory /\ save \in Save
    BY <1>8 DEF RestoreSaved, SaveDone, SavesInv, MemoryOK
  <2>2. save'.for \in {"nothing", "edit"}
    BY <1>8, <2>1, NoSaveIs DEF RestoreSaved, Save
  <2> QED BY <2>1, <2>2, HistoryWaits
<1>9. CASE OpenProject
  <2>1. save'.for = "open" /\ UNCHANGED memory /\ save.step = "idle"
    BY <1>9 DEF OpenProject, NoSave, MayWrite, Idle
  <2> QED BY <1>1, <2>1, HistoryWaits
<1>10. CASE ActivationFails
  <2>1. save' = NoSave /\ UNCHANGED memory /\ save.step = "activate"
    BY <1>10 DEF ActivationFails
  <2>2. save.for \notin {"undo", "redo"}
    BY <2>1 DEF StorageInv, CommitsAreOpen, Saving
  <2> QED BY <2>1, <2>2, NoSaveIs, HistoryWaits
<1> QED BY <1>5, <1>6, <1>7, <1>8, <1>9, <1>10

\* What Undo or Redo takes it puts beside the history, and a save that fails
\* puts it back.
LEMMA TakenStays ==
    ASSUME StorageInv, SavesInv, Undo \/ Redo
    PROVE  UNCHANGED Edits!editVars
<1>1. MayWrite /\ save.for = "nothing" /\ undo \in Seq(Session) /\ redo \in Seq(Session)
  BY DEF Undo, Redo, MayWrite, Idle, StorageInv, SaveHasDirectory, SavesInv, MemoryOK
<1>2. UndoLine = undo /\ RedoLine = redo
  BY <1>1 DEF UndoLine, RedoLine
<1>3. CASE Undo
  <2>1. /\ save'.for = "undo" /\ save'.entry = Last(undo) /\ undo' = Front(undo) /\ undo # <<>>
        /\ UNCHANGED <<project, session, redo>>
    BY <1>3 DEF Undo, BeginSave
  <2>2. UndoLine' = Append(Front(undo), Last(undo)) /\ RedoLine' = redo
    BY <2>1 DEF UndoLine, RedoLine
  <2>3. UndoLine' = undo
    BY <1>1, <2>1, <2>2, TakenIsLast
  <2> QED BY <1>2, <2>1, <2>2, <2>3, LineStays
<1>4. CASE Redo
  <2>1. /\ save'.for = "redo" /\ save'.entry = Last(redo) /\ redo' = Front(redo) /\ redo # <<>>
        /\ UNCHANGED <<project, session, undo>>
    BY <1>4 DEF Redo, BeginSave
  <2>2. RedoLine' = Append(Front(redo), Last(redo)) /\ UndoLine' = undo
    BY <2>1 DEF UndoLine, RedoLine
  <2>3. RedoLine' = redo
    BY <1>1, <2>1, <2>2, TakenIsLast
  <2> QED BY <1>2, <2>1, <2>2, <2>3, LineStays
<1> QED BY <1>3, <1>4

\* There is room for what is taken back, or on the other side of the history.
LEMMA RoomIsKept ==
    ASSUME SavesInv, save.for \in {"undo", "redo"}, NEW s \in Session
    PROVE  Pushed(undo, s) = Append(undo, s) /\ Pushed(redo, s) = Append(redo, s)
<1>1. Len(undo) < HistoryLimit /\ Len(redo) < HistoryLimit
  BY HistoryIs DEF SavesInv
<1> QED BY <1>1 DEF Pushed

LEMMA PutBackStays ==
    ASSUME StorageInv, SavesInv, SaveFails \/ PruneFails
    PROVE  UNCHANGED Edits!editVars
<1>1. TakeBack /\ save' = NoSave /\ UNCHANGED <<project, session>>
  BY DEF SaveFails, PruneFails, AbandonSave
<1>2. UndoLine' = undo' /\ RedoLine' = redo'
  BY <1>1, NoSaveIs DEF UndoLine, RedoLine
<1>3. save.for \in {"undo", "redo"} => save.entry \in Session
  BY DEF SavesInv, MemoryOK
<1>4. undo' = UndoLine /\ redo' = RedoLine
  BY <1>1, <1>3, RoomIsKept DEF TakeBack, UndoLine, RedoLine
<1> QED BY <1>1, <1>2, <1>4, LineStays

\* Where the Session stands.
LEMMA StandsOnLine ==
    ASSUME MemoryOK, IsOpen
    PROVE  /\ Line = Laid(UndoLine, session, RedoLine) /\ session \in Session
           /\ UndoLine \in Seq(Session) /\ RedoLine \in Seq(Session)
<1>1. UndoLine \in Seq(Session) /\ RedoLine \in Seq(Session)
  BY LinesAre
<1>2. session \in Session
  BY DEF MemoryOK, IsOpen
<1> QED BY <1>1, <1>2, LineIsLaid DEF Line

\* An edit, or a Session restored from a generation, extends the line.
LEMMA EditMoves ==
    ASSUME StorageInv, SavesInv, EditSaved
    PROVE  Edits!Edit
<1> DEFINE line == Laid(undo, session, redo)
           content == save.target.content
<1>1. /\ undo' = Pushed(undo, session) /\ redo' = <<>> /\ session' = save.target /\ project' = project
      /\ save' = NoSave /\ save.for \in {"edit", "prepared"} /\ save.step = "prune"
  BY DEF EditSaved, SaveDone, Record, Exchange
<1>2. IsOpen /\ MemoryOK /\ save.target \in Session /\ Len(undo) <= HistoryLimit
  BY <1>1, HistoryIs DEF StorageInv, CommitsAreOpen, SavesInv, MemoryOK, Saving
<1>3. UndoLine = undo /\ RedoLine = redo
  BY <1>1 DEF UndoLine, RedoLine
<1>4. /\ Line = line /\ session \in Session /\ undo \in Seq(Session) /\ redo \in Seq(Session)
  BY <1>2, <1>3, StandsOnLine
<1>5. UndoLine' = undo' /\ RedoLine' = redo' /\ IsOpen'
  BY <1>1, <1>2, NoSaveIs DEF UndoLine, RedoLine, IsOpen
<1>6. undo' \in Seq(Session) /\ redo' \in Seq(Session) /\ Len(redo') = 0
  BY <1>1, <1>2, <1>4, PushedIs
<1>7. Line' = Laid(undo', session', redo') /\ Len(Line') = Len(undo') + 1
  <2>1. session' \in Session
    BY <1>1, <1>2
  <2>2. Line' = Laid(undo', session', redo')
    BY <1>5, <1>6, <2>1, LineIsLaid DEF Line
  <2> QED BY <1>6, <2>1, <2>2, LaidLast
<1>8. Line' = Edits!Newest(HistoryLimit + 1, Append(SubSeq(line, 1, Len(undo) + 1), content))
  <2>1. ASSUME NEW none \in Seq(Session), Len(none) = 0
        PROVE  ExtendsLine(Laid(Pushed(undo, session), save.target, none),
                           undo, session, redo, save.target)
    <3>1. /\ undo \in Seq(Session) /\ redo \in Seq(Session) /\ session \in Session
          /\ save.target \in Session /\ Len(undo) <= HistoryLimit
      BY <1>2, <1>4
    <3> HIDE DEF line, content
    <3> QED BY <2>1, <3>1, EditExtendsLine
  <2>2. redo' \in Seq(Session) /\ Len(redo') = 0
    BY <1>6
  <2> QED BY <1>1, <1>7, <2>1, <2>2 DEF ExtendsLine
<1>9. content \in Content /\ Len(undo) + 1 > 0
  BY <1>2, <1>4, ElementsAre DEF Session
<1> HIDE DEF line, content
<1> QED BY <1>2, <1>3, <1>4, <1>5, <1>7, <1>8, <1>9 DEF Edits!Edit, Edits!IsOpen

\* Undo and Redo move the Session by one and leave the line alone.
LEMMA UndoMoves ==
    ASSUME StorageInv, SavesInv, EntryIsSaved, UndoSaved
    PROVE  Edits!Undo
<1>1. /\ undo' = undo /\ redo' = Pushed(redo, session) /\ session' = save.target /\ project' = project
      /\ save' = NoSave /\ save.for = "undo" /\ save.step = "prune"
  BY DEF UndoSaved, SaveDone, Exchange
<1>2. /\ IsOpen /\ MemoryOK /\ save.target \in Session /\ save.entry \in Session
      /\ save.target.content = save.entry.content
  BY <1>1 DEF StorageInv, CommitsAreOpen, SavesInv, MemoryOK, Saving, EntryIsSaved
<1>3. UndoLine = Append(undo, save.entry) /\ RedoLine = redo
  BY <1>1 DEF UndoLine, RedoLine
<1>4. /\ Line = Laid(Append(undo, save.entry), session, redo) /\ session \in Session
      /\ undo \in Seq(Session) /\ redo \in Seq(Session)
  BY <1>2, <1>3, StandsOnLine DEF MemoryOK
<1>5. UndoLine' = undo /\ RedoLine' = Append(redo, session) /\ IsOpen'
  BY <1>1, <1>2, <1>4, NoSaveIs, RoomIsKept DEF UndoLine, RedoLine, IsOpen
<1>6. Line' = Laid(undo, save.target, Append(redo, session))
  <2>1. Append(redo, session) \in Seq(Session)
    BY <1>4, AppendIs
  <2> QED BY <1>1, <1>2, <1>4, <1>5, <2>1, LineIsLaid DEF Line
<1>7. Line' = Line
  BY <1>2, <1>4, <1>6, MoveKeepsLine
<1>8. Len(UndoLine) + 1 = Len(UndoLine') + 2 /\ Len(UndoLine') \in Nat
  BY <1>2, <1>3, <1>4, <1>5, AppendIs, ElementsAre
<1> QED BY <1>2, <1>5, <1>7, <1>8 DEF Edits!Undo

LEMMA RedoMoves ==
    ASSUME StorageInv, SavesInv, EntryIsSaved, RedoSaved
    PROVE  Edits!Redo
<1>1. /\ redo' = redo /\ undo' = Pushed(undo, session) /\ session' = save.target /\ project' = project
      /\ save' = NoSave /\ save.for = "redo" /\ save.step = "prune"
  BY DEF RedoSaved, SaveDone, Exchange
<1>2. /\ IsOpen /\ MemoryOK /\ save.target \in Session /\ save.entry \in Session
      /\ save.target.content = save.entry.content
  BY <1>1 DEF StorageInv, CommitsAreOpen, SavesInv, MemoryOK, Saving, EntryIsSaved
<1>3. UndoLine = undo /\ RedoLine = Append(redo, save.entry)
  BY <1>1 DEF UndoLine, RedoLine
<1>4. /\ Line = Laid(undo, session, Append(redo, save.entry)) /\ session \in Session
      /\ undo \in Seq(Session) /\ redo \in Seq(Session)
  BY <1>2, <1>3, StandsOnLine DEF MemoryOK
<1>5. UndoLine' = Append(undo, session) /\ RedoLine' = redo /\ IsOpen'
  BY <1>1, <1>2, <1>4, NoSaveIs, RoomIsKept DEF UndoLine, RedoLine, IsOpen
<1>6. Line' = Laid(Append(undo, session), save.target, redo)
  <2>1. Append(undo, session) \in Seq(Session)
    BY <1>4, AppendIs
  <2> QED BY <1>1, <1>2, <1>4, <1>5, <2>1, LineIsLaid DEF Line
<1>7. Line' = Line
  BY <1>2, <1>4, <1>6, MoveKeepsLine
<1>8. Len(UndoLine') = Len(UndoLine) + 1 /\ Len(UndoLine) \in Nat /\ Len(UndoLine) + 1 < Len(Line)
  <2>1. Len(Append(redo, save.entry)) = Len(redo) + 1 /\ Append(redo, save.entry) \in Seq(Session)
        /\ Len(Append(undo, session)) = Len(undo) + 1
    BY <1>2, <1>4, AppendIs
  <2>2. Len(Line) = Len(undo) + Len(Append(redo, save.entry)) + 1
    <3>1. IsLaid(Line, undo, session, Append(redo, save.entry))
      BY <1>4, <2>1, LaidIs
    <3> QED BY <3>1 DEF IsLaid
  <2>3. Len(undo) \in Nat /\ Len(redo) \in Nat
    BY <1>4, ElementsAre
  <2> QED BY <1>3, <1>5, <2>1, <2>2, <2>3
<1> QED BY <1>2, <1>5, <1>7, <1>8 DEF Edits!Redo, Edits!IsOpen

\* A Project that is opened begins a line.
LEMMA InstallOpens ==
    ASSUME SavesInv, NEW p \in Project, Load(p) # None, NEW next, Install(p, next),
           save'.for = "nothing"
    PROVE  Edits!Open
<1>1. /\ project' = p /\ session' = Load(p) /\ undo' = <<>> /\ redo' = <<>>
  BY DEF Install
<1>2. session' \in Session
  BY <1>1, LoadIs DEF SavesInv
<1>3. IsOpen' /\ UndoLine' = undo' /\ RedoLine' = redo'
  BY <1>1, StorageAssumption DEF IsOpen, UndoLine, RedoLine
<1>4. undo' \in Seq(Session) /\ redo' \in Seq(Session) /\ Len(undo') = 0 /\ Len(redo') = 0
  BY <1>1
<1>5. Line' = Laid(undo', session', redo')
  BY <1>2, <1>3, <1>4, LineIsLaid DEF Line
<1>6. /\ Line' \in Seq(Content) /\ Len(Line') = 1 /\ Line'[1] = session'.content
  <2>1. /\ Laid(undo', session', redo') \in Seq(Content)
        /\ Len(Laid(undo', session', redo')) = Len(undo') + 1
        /\ Laid(undo', session', redo')[Len(undo') + 1] = session'.content
    BY <1>2, <1>4, LaidLast
  <2>2. Len(undo') + 1 = 1
    BY <1>4
  <2> QED BY <1>5, <2>1, <2>2
<1>7. ASSUME NEW l \in Seq(Content), Len(l) = 1, NEW c \in Content, l[1] = c PROVE l = <<c>>
  BY <1>7
<1>8. Line' = <<session'.content>> /\ session'.content \in Content
  <2>1. session'.content \in Content
    BY <1>2 DEF Session
  <2> QED BY <1>6, <1>7, <2>1
<1>9. Len(UndoLine') + 1 = 1
  BY <1>3, <1>4
<1> QED BY <1>3, <1>8, <1>9 DEF Edits!Open

\* Every step of the storage is a step of EditHistory, or changes nothing there.
LEMMA EditHistoryStep ==
    ASSUME StorageInv, SavesInv, EntryIsSaved, [Next]_vars
    PROVE  [Edits!EditNext]_(Edits!editVars)
<1>1. CASE EditSaved
  BY <1>1, EditMoves DEF Edits!EditNext
<1>2. CASE UndoSaved
  BY <1>2, UndoMoves DEF Edits!EditNext
<1>3. CASE RedoSaved
  BY <1>3, RedoMoves DEF Edits!EditNext
<1>4. CASE ReplaceProject
  <2>1. /\ save.step = "opening" /\ Install(save.project, NextSequence) /\ save' = NoSave
    BY <1>4 DEF ReplaceProject
  <2>2. save.project \in Project /\ Load(save.project) # None
    BY <2>1, SaveHasProject DEF Proceeds, Switching
  <2> QED BY <2>1, <2>2, NoSaveIs, InstallOpens DEF Edits!EditNext
<1>5. CASE StartHost
  <2>1. /\ MayStart /\ Load(workspace) # None /\ Install(workspace, 0) /\ save' = save
        /\ workspace \in Project
    BY <1>5 DEF StartHost, SavesInv, DiskOK
  <2>2. save'.for = "nothing"
    BY <2>1 DEF StorageInv, SaveHasDirectory, MayStart, Idle
  <2> QED BY <2>1, <2>2, InstallOpens DEF Edits!EditNext
<1>6. CASE Crash
  BY <1>6 DEF Crash, IsOpen, Edits!EditNext, Edits!Close
<1>7. CASE Undo \/ Redo
  BY <1>7, TakenStays
<1>8. CASE SaveFails \/ PruneFails
  BY <1>8, PutBackStays
<1> QED BY <1>1, <1>2, <1>3, <1>4, <1>5, <1>6, <1>7, <1>8, QuietStep
        DEF Next, Commits, Saves, Switches, Lifetimes

\* Edits, undos and redos move along one line of edits, whatever saves fail,
\* whichever Projects are opened and whenever the process ends: AppCore and its
\* History implement EditHistory.
THEOREM HistoryIsOneLine == Spec => ImplementsEditHistory
<1>1. Init => EntryIsSaved /\ Edits!Closed
  BY NoSaveIs DEF Init, EntryIsSaved, Edits!Closed, IsOpen
<1>2. StorageInv /\ SavesInv /\ EntryIsSaved /\ [Next]_vars => EntryIsSaved'
  BY EntryStep
<1>3. StorageInv /\ SavesInv /\ EntryIsSaved /\ [Next]_vars => [Edits!EditNext]_(Edits!editVars)
  BY EditHistoryStep
<1> QED BY <1>1, <1>2, <1>3, StorageInvariance, SavesInvariance, PTL
        DEF Spec, ImplementsEditHistory, Edits!EditSpec
=============================================================================

---------------------------- MODULE GraphLifecycle ----------------------------
(***************************************************************************)
(* What the native TimelineEngine promises about the arrangement graphs it *)
(* is given, whatever queues and threads carry them: graphs become active  *)
(* in the order they were committed, a graph is destroyed only once a      *)
(* later one has replaced it, and every committed graph gets its turn.     *)
(* A graph is named by its serial, 1 for the first one committed.          *)
(***************************************************************************)
EXTENDS Integers

VARIABLES committed,  \* how many graphs have been committed
          active,     \* serial of the graph the audio uses, 0 before the first
          freed       \* serials of the destroyed graphs

lifecycleVars == <<committed, active, freed>>

Init == committed = 0 /\ active = 0 /\ freed = {}

\* Graphs that a later one has replaced.
Replaced == 1 .. active - 1

\* A commit queues a graph, or makes it active at once when nothing is queued.
Commit ==
    /\ committed' = committed + 1
    /\ active' \in {active} \union (IF active = committed THEN {committed + 1} ELSE {})
    /\ UNCHANGED freed

Publish == active < committed /\ active' = active + 1 /\ UNCHANGED <<committed, freed>>

Free ==
    /\ freed' \in SUBSET (freed \union Replaced)
    /\ freed \subseteq freed'
    /\ freed # freed'
    /\ UNCHANGED <<committed, active>>

Next == Commit \/ Publish \/ Free

Spec == Init /\ [][Next]_lifecycleVars /\ WF_lifecycleVars(Publish)
===============================================================================

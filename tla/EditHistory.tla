----------------------------- MODULE EditHistory -----------------------------
(***************************************************************************)
(* What the canonical Session promises the person editing it.  The edits   *)
(* of the open Project form a line; the Session stands somewhere on it.    *)
(* An edit cuts the line behind the Session and extends it, Undo and Redo  *)
(* move along it and change nothing on it, and only the oldest entries are *)
(* ever given up.  Opening a Project starts a new line; a stopped Host has *)
(* none.                                                                   *)
(*                                                                         *)
(* SessionStorage shows that AppCore, its History and the saves they make, *)
(* some of which fail, implement this.                                     *)
(***************************************************************************)
EXTENDS Integers, SequencesExt

CONSTANTS
    Content,        \* what a Session may hold
    HistoryLimit    \* how many Sessions Undo can go back, at least one

VARIABLES
    line,   \* the contents of the Session, oldest first
    at      \* where on the line the Session stands

editVars == <<line, at>>

(* The newest n elements of a sequence. *)
Newest(n, s) == IF Len(s) <= n THEN s ELSE SubSeq(s, Len(s) - n + 1, Len(s))

IsOpen == at > 0

(* No Project is open: nothing to undo, nothing to redo. *)
Closed == line = <<>> /\ at = 0

Open == \E content \in Content : line' = <<content>> /\ at' = 1

Close == line' = <<>> /\ at' = 0

Edit ==
    /\ IsOpen
    /\ \E content \in Content :
           line' = Newest(HistoryLimit + 1, Append(SubSeq(line, 1, at), content))
    /\ at' = Len(line')

Undo == at > 1 /\ at' = at - 1 /\ UNCHANGED line

Redo == IsOpen /\ at < Len(line) /\ at' = at + 1 /\ UNCHANGED line

EditNext == Open \/ Close \/ Edit \/ Undo \/ Redo

EditSpec == Closed /\ [][EditNext]_editVars
=============================================================================

------------------------ MODULE MCRecordingFinalization ------------------------
(***************************************************************************)
(* RecordingFinalization for TLC.  An edit or an undo matters to a take    *)
(* that is about to read the Session or to be merged into it; any other    *)
(* step commutes with it, but for a client's start, which finds one more   *)
(* or one less recording to go on with, and the closing of the Host, after *)
(* which there are no edits.  So the constraint lets them happen at these  *)
(* two moments only, and only in a behaviour without faults.               *)
(***************************************************************************)
EXTENDS RecordingFinalization

WhereEditsMatter ==
    /\ history' # history => \E t \in Take : worker[t].step \in {"prepare", "commit"}
    /\ edits' = 0 \/ faults' = 0
=============================================================================

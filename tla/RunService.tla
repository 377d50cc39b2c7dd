----------------------------- MODULE RunService -----------------------------
(***************************************************************************)
(* What the run manager promises to its clients: accepted runs, numbered   *)
(* in the order of acceptance, are served one at a time and in that order;  *)
(* a run leaves the backlog only after it has been served, or together     *)
(* with the whole backlog when a client asks for that; a run that is being *)
(* served cannot be taken away.                                            *)
(***************************************************************************)
EXTENDS Integers, Sequences

VARIABLES
  accepted,   \* number of runs accepted so far
  backlog,    \* numbers of the runs that wait or are being served
  serving     \* number of the run being served, 0 if there is none

vars == <<accepted, backlog, serving>>

Init == accepted = 0 /\ backlog = <<>> /\ serving = 0

Accept ==
  /\ serving = 0
  /\ accepted' = accepted + 1
  /\ backlog' \in {Append(backlog, accepted'), <<accepted'>>}
  /\ UNCHANGED serving

Serve ==
  /\ serving = 0 /\ backlog # <<>>
  /\ serving' = Head(backlog)
  /\ UNCHANGED <<accepted, backlog>>

\* A repetitive run stays at the head of the backlog.
Finish ==
  /\ serving # 0
  /\ backlog' \in {backlog, Tail(backlog)}
  /\ serving' = 0
  /\ UNCHANGED accepted

Next == Accept \/ Serve \/ Finish

Spec == Init /\ [][Next]_vars
=============================================================================

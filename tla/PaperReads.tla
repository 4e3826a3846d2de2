----------------------------- MODULE PaperReads -----------------------------
(***************************************************************************)
(* Paper trading as a whole: the endpoints of PaperTrading that write, and *)
(* those of PaperViews and PaperHistory that read beside them.             *)
(***************************************************************************)
EXTENDS PaperViews, PaperHistory

allVars == <<vars, view, walk>>

ReadInit == Init /\ view = Idle /\ walk = Idle

\* Reads change nothing that others see, so that one at a time is enough to
\* see all that a read can see.
ReadNext ==
  \/ Next /\ UNCHANGED <<view, walk>>
  \/ ViewStep /\ walk = Idle /\ UNCHANGED walk
  \/ WalkStep /\ view = Idle /\ UNCHANGED view

ReadSpec == ReadInit /\ [][ReadNext]_allVars
=============================================================================

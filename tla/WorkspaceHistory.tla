-------------------------- MODULE WorkspaceHistory --------------------------
(***************************************************************************)
(* Workspace with one history variable, for what only holds until the      *)
(* workspace was led astray: a control client named a leaf that is none    *)
(* (focus_surface takes any number), or a terminal process of a layout     *)
(* could not be spawned (load_layout goes on without it).                  *)
(***************************************************************************)
EXTENDS Workspace

VARIABLE stray    \* history: that has happened

Strays ==
    \/ LoadStepFails
    \/ \E index \in 0..MaxLeafId :
           FocusSurface(index) /\ ~HasLeaf(ActiveTree(tm), index)

HistoryInit == Init /\ stray = FALSE

HistoryNext == Next /\ stray' = (stray \/ Strays)

HistorySpec == HistoryInit /\ [][HistoryNext]_<<vars, stray>>

\* The focused id of every tab is the id of one of its leaves, so there is a pane
\* to send the input to, and every terminal process is reachable from a tab, so
\* nothing runs that no tab shows and no close can free: unless a control client
\* once named a leaf that is none, or the pane of a layout failed to start.
NothingLost == stray \/ (FocusResolves /\ NoOrphanPane)
=============================================================================

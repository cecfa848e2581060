----------------------------- MODULE MCWorkspace -----------------------------
(***************************************************************************)
(* Small instances for TLC: Workspace with its tabs, panes and focus, and  *)
(* SplitGeometry with the frames of one tab.  A behaviour takes the steps  *)
(* of one of them, its subject, and leaves the other as it begins.         *)
(***************************************************************************)
EXTENDS WorkspaceHistory

CONSTANTS
    Width, Height, TilePanes, MaxChanges, Points, CellSteps, RemoteRatios,
    MaxShape    \* bound on the panes of the tab and its changes together

VARIABLES
    subject,
    splits, panes, focus, layout, pointer, drag, held, preset, changes

tiles == <<splits, panes, focus, layout, pointer, drag, held, preset, changes>>

mcvars == <<vars, tiles, subject, stray>>

MCPoints == {<<x, y>> : x \in {300, 900}, y \in {200, 400}} \cup {<<600, 400>>}

\* Six points to the left or up.
MCSteps == {-60}

Tiles == INSTANCE SplitGeometry WITH MaxPanes <- TilePanes

ASSUME Tiles!GeometryAssumption

\* A layout of two tabs, the first with a split.
MCLayouts == {<<"tab", "split", "tab">>}

MCInit ==
    /\ HistoryInit
    /\ Tiles!Init
    /\ subject \in {"workspace", "geometry"}

\* The geometry ends with its bound on changes.
MCNext ==
    \/ /\ subject = "workspace"
       /\ HistoryNext
       /\ UNCHANGED <<tiles, subject>>
    \/ /\ subject = "geometry"
       /\ Tiles!Next
       /\ Cardinality(DOMAIN panes') + changes' <= MaxShape
       /\ UNCHANGED <<vars, stray, subject>>
    \/ subject = "geometry" /\ UNCHANGED mcvars

MCSpec == MCInit /\ [][MCNext]_mcvars

\* Without the names of the panes and the place of a pointer that drags nothing.
MCShape ==
    <<vars, stray, subject, splits, Tiles!PathOf(focus), layout, drag, held, preset, changes,
      IF drag = "none" THEN <<>> ELSE pointer>>

\* The frames of the panes tile the terminal, whatever was split, closed, dragged
\* or laid out before; moves of the focus reach every pane from every other; and
\* a divider that is dragged is where the pointer is.
PanesTile ==
    subject = "geometry" =>
        /\ Tiles!TypeOK
        /\ Tiles!PanesTile
        /\ Tiles!EveryPaneReachable
        /\ Tiles!DividerFollows
=============================================================================

------------------------------ MODULE Workspace ------------------------------
(***************************************************************************)
(* The workspace of the server: the tab list, the split tree of each tab   *)
(* and the terminal processes (backend panes) behind the leaves.  Every    *)
(* operation a key binding, a control command, a remote command or the     *)
(* exit of a terminal process performs on them is one action, run to its   *)
(* end by the single server thread (BooApp::update).                       *)
(*                                                                         *)
(*    tm        the tab manager (module TabManager)                        *)
(*    live      the panes the backend owns a terminal process for          *)
(*    marked    marked_pane_id; the null pane stands for None              *)
(*    nextPane  NEXT_PANE_ID                                               *)
(*    inited    surface_initialized_once                                   *)
(*    loading   what load_layout still has to create: "tab" is the first   *)
(*              pane of a layout tab, "split" any other pane.  No other    *)
(*              operation runs until it is empty.                          *)
(***************************************************************************)
EXTENDS TabManager

CONSTANTS
    MaxPanes,        \* bound: pane ids handed out
    MaxTabs,         \* bound: tabs open at once
    MaxTabId,        \* bound: tab ids handed out
    MaxLeafId,       \* bound: leaf ids handed out in one tree
    Layouts,         \* the saved layouts, as sequences of creation steps
    TrustedIndices,  \* FocusSurface only ever names a leaf of the active tab
    CreateMayFail    \* spawning a terminal process may fail

ASSUME BoundsAssumption ==
    /\ MaxPanes \in Nat
    /\ MaxTabs \in Nat
    /\ MaxTabId \in Nat
    /\ MaxLeafId \in Nat

\* A layout begins with the first pane of its first tab.
ASSUME LayoutsAssumption ==
    /\ Layouts \subseteq Seq({"tab", "split"})
    /\ \A steps \in Layouts : steps # <<>> => Head(steps) = "tab"

ASSUME FlagsAssumption == TrustedIndices \in BOOLEAN /\ CreateMayFail \in BOOLEAN

VARIABLES tm, live, marked, nextPane, inited, loading

vars == <<tm, live, marked, nextPane, inited, loading>>

PaneIds == Nat \ {NullPane}

TypeOK ==
    /\ tm \in ManagerType(PaneIds)
    /\ live \in SUBSET PaneIds
    /\ marked \in Nat
    /\ nextPane \in PaneIds
    /\ inited \in BOOLEAN
    /\ loading \in Seq({"tab", "split"})

Init ==
    /\ tm = EmptyManager
    /\ live = {}
    /\ marked = NullPane
    /\ nextPane = 1
    /\ inited = FALSE
    /\ loading = <<>>

-----------------------------------------------------------------------------
(* Building blocks.                                                        *)

Idle == loading = <<>>

\* The bounds on what an operation may still hand out.
RoomForPane == nextPane <= MaxPanes
RoomForTab == Len(tm.tabs) < MaxTabs /\ tm.nextId <= MaxTabId
RoomForLeaf == HasActive(tm) => ActiveTree(tm).next <= MaxLeafId

\* create_pane: a fresh id and a terminal process for it.
CreatePane ==
    /\ live' = live \cup {nextPane}
    /\ nextPane' = nextPane + 1

\* Operations that only rearrange tabs, trees and focus.
KeepsPanes == UNCHANGED <<live, marked, nextPane, inited, loading>>

\* Operations that free terminal processes.
Frees(panes) ==
    /\ live' = live \ panes
    /\ UNCHANGED <<marked, nextPane, inited, loading>>

OnActiveTree(Op(_)) ==
    /\ Idle
    /\ HasActive(tm)
    /\ tm' = WithActiveTree(tm, Op(ActiveTree(tm)))
    /\ KeepsPanes

-----------------------------------------------------------------------------
(* Creating panes.                                                         *)

\* init_surface, and the startup layout it may go on to load.
InitSurface ==
    /\ Idle
    /\ tm.tabs = <<>>
    /\ ~inited
    /\ RoomForPane /\ RoomForTab
    /\ tm' = AddInitialTab(tm, nextPane)
    /\ CreatePane
    /\ inited' = TRUE
    /\ \E steps \in Layouts \cup {<<>>} :
          /\ nextPane + Len(steps) <= MaxPanes
          /\ loading' = steps
    /\ UNCHANGED marked

NewTab ==
    /\ Idle
    /\ RoomForPane /\ RoomForTab
    /\ tm' = NewTabWith(tm, nextPane)
    /\ CreatePane
    /\ UNCHANGED <<marked, inited, loading>>

\* create_split makes the terminal process first; whether the tree then has
\* room for it is up to split_focused.
CreateSplit ==
    /\ Idle
    /\ HasActive(tm)
    /\ RoomForPane /\ RoomForLeaf
    /\ tm' = WithActiveTree(tm, SplitFocused(ActiveTree(tm), nextPane))
    /\ CreatePane
    /\ UNCHANGED <<marked, inited, loading>>

LoadLayout ==
    /\ Idle
    /\ \E steps \in Layouts :
          /\ steps # <<>>
          /\ nextPane + Len(steps) <= MaxPanes + 1
          /\ loading' = steps
    /\ UNCHANGED <<tm, live, marked, nextPane, inited>>

\* One turn of load_layout's inner loop, its pane created.
LoadStep ==
    /\ loading # <<>>
    /\ RoomForPane
    /\ CASE Head(loading) = "tab"   -> tm' = NewTabWith(tm, nextPane)
         [] Head(loading) = "split" ->
               tm' = IF HasActive(tm)
                     THEN WithActiveTree(tm, SplitFocused(ActiveTree(tm), nextPane))
                     ELSE tm
    /\ CreatePane
    /\ loading' = Tail(loading)
    /\ UNCHANGED <<marked, inited>>

\* The same turn when the terminal process could not be spawned: `continue'.
LoadStepFails ==
    /\ CreateMayFail
    /\ loading # <<>>
    /\ nextPane' = nextPane + 1
    /\ loading' = Tail(loading)
    /\ UNCHANGED <<tm, live, marked, inited>>

-----------------------------------------------------------------------------
(* Focus within the active tab.                                            *)

\* The leaf ids a control client may put in a FocusSurface command.
SurfaceIndices(t) ==
    IF TrustedIndices
    THEN {t.leaves[i].id : i \in DOMAIN t.leaves}
    ELSE 0..MaxLeafId

FocusSurface(index) ==
    /\ HasActive(tm)
    /\ index \in SurfaceIndices(ActiveTree(tm))
    /\ OnActiveTree(LAMBDA t : SetFocus(t, index))

FocusPaneById(pane) == OnActiveTree(LAMBDA t : SetFocusToPane(t, pane))

\* focus_direction ends on some other leaf, which one is geometry; it does
\* nothing without a focused leaf.
SwitchFocus(id) ==
    /\ HasActive(tm)
    /\ HasLeaf(ActiveTree(tm), ActiveTree(tm).focus)
    /\ HasLeaf(ActiveTree(tm), id)
    /\ OnActiveTree(LAMBDA t : SetFocus(t, id))

\* focus_at focuses the leaf under the pointer, whatever had the focus.
FocusAt(id) ==
    /\ HasActive(tm)
    /\ HasLeaf(ActiveTree(tm), id)
    /\ OnActiveTree(LAMBDA t : SetFocus(t, id))

NextPane == OnActiveTree(FocusNext)

PreviousPane == OnActiveTree(FocusPrev)

-----------------------------------------------------------------------------
(* Rearranging the active tab.                                             *)

SwapPane(next) == OnActiveTree(LAMBDA t : SwapFocused(t, next))

RotateActive(forward) == OnActiveTree(LAMBDA t : RotatePanes(t, forward))

\* apply_layout_to_active rebuilds a tree of more than one pane.
ApplyLayout ==
    OnActiveTree(LAMBDA t : IF Len(t.leaves) > 1 THEN Rebuild(t) ELSE t)

-----------------------------------------------------------------------------
(* Moving between tabs.                                                    *)

Navigate(index) ==
    /\ Idle
    /\ tm' = GotoIndex(tm, index)
    /\ KeepsPanes

GotoTab(index) == Navigate(index)

NextTab == Len(tm.tabs) > 1 /\ Navigate(NextIndex(tm))

PrevTab == Len(tm.tabs) > 1 /\ Navigate(PrevIndex(tm))

PreviousTab == Navigate(PreviousActive(tm))

\* select_find_window_entry and select_choose_tree_entry: a pane of any tab.
SelectTreeEntry(pane) ==
    /\ Idle
    /\ pane \in AllPanes(tm)
    /\ LET m == GotoIndex(tm, IndexOfPane(tm, pane))
       IN  tm' = WithActiveTree(m, SetFocusToPane(ActiveTree(m), pane))
    /\ KeepsPanes

-----------------------------------------------------------------------------
(* Closing.                                                                *)

\* Mutant: the last-pane path taken for any pane.
SurfaceClosedFreesTab(m) ==
    /\ Frees(PanesOf(ActiveTree(m)))
    /\ tm' = IF HasLeaf(ActiveTree(m), ActiveTree(m).focus)
             THEN DropIfEmpty(WithActiveTree(m, RemoveFocused(ActiveTree(m))), m.active)
             ELSE RemoveTab(m, m.active)

\* handle_surface_closed on a manager m: the focused pane goes, with its tab
\* when it was the last.  With no focused leaf the whole active tab goes.
SurfaceClosed(m) ==
    IF HasLeaf(ActiveTree(m), ActiveTree(m).focus)
    THEN /\ Frees({FocusedPane(ActiveTree(m))})
         /\ tm' = DropIfEmpty(WithActiveTree(m, RemoveFocused(ActiveTree(m))), m.active)
    ELSE /\ Frees(PanesOf(ActiveTree(m)))
         /\ tm' = RemoveTab(m, m.active)

CloseSurface ==
    /\ Idle
    /\ HasActive(tm)
    /\ SurfaceClosed(tm)

\* Mutant: whatever has the focus is closed.
PaneExitedNoRefocus(pane) ==
    /\ Idle
    /\ HasActive(tm)
    /\ pane \in PanesOf(ActiveTree(tm))
    /\ SurfaceClosed(tm)

\* close_pane_by_id for a terminal process poll_backend found exited: the
\* backend only polls the panes of the active tab.
PaneExited(pane) ==
    /\ Idle
    /\ HasActive(tm)
    /\ pane \in PanesOf(ActiveTree(tm))
    /\ SurfaceClosed(WithActiveTree(tm, SetFocusToPane(ActiveTree(tm), pane)))

\* Mutant: the panes remove_tab returns are not freed.
RemoveTabAtLeaks(index) ==
    /\ Frees({})
    /\ tm' = RemoveTab(tm, index)

RemoveTabAt(index) ==
    /\ Frees(PanesOf(tm.tabs[index + 1].tree))
    /\ tm' = RemoveTab(tm, index)

CloseTab ==
    /\ Idle
    /\ HasActive(tm)
    /\ RemoveTabAt(tm.active)

\* destroy_remote_runtime_tab: any tab, named by its id.
DestroyTab(id) ==
    /\ Idle
    /\ id \in TabIds(tm)
    /\ RemoveTabAt(IndexOfTab(tm, id))

-----------------------------------------------------------------------------
(* Moving panes between tabs.                                              *)

BreakPane ==
    /\ Idle
    /\ HasActive(tm)
    /\ HasLeaf(ActiveTree(tm), ActiveTree(tm).focus)
    /\ tm.nextId <= MaxTabId
    /\ tm' = BreakActivePane(tm)
    /\ KeepsPanes

MarkPane ==
    /\ Idle
    /\ marked' = FocusedPaneOf(tm)
    /\ UNCHANGED <<tm, live, nextPane, inited, loading>>

ClearMarkedPane ==
    /\ Idle
    /\ marked' = NullPane
    /\ UNCHANGED <<tm, live, nextPane, inited, loading>>

\* The marked pane moves next to the focused one of whatever tab is active
\* once it has been taken out of its own.  A mark whose pane is gone is dropped.
JoinMarkedPane ==
    /\ Idle
    /\ marked # NullPane
    /\ marked # FocusedPaneOf(tm)
    /\ RoomForLeaf
    /\ marked' = NullPane
    /\ IF marked \in AllPanes(tm)
       THEN LET m == RemovePaneById(tm, marked)
            IN  tm' = IF HasActive(m)
                      THEN WithActiveTree(m, SplitFocused(ActiveTree(m), marked))
                      ELSE m
       ELSE UNCHANGED tm
    /\ UNCHANGED <<live, nextPane, inited, loading>>

-----------------------------------------------------------------------------
Next ==
    \/ InitSurface
    \/ NewTab
    \/ CreateSplit
    \/ LoadLayout
    \/ LoadStep
    \/ LoadStepFails
    \/ \E index \in 0..MaxLeafId : FocusSurface(index)
    \/ \E pane \in AllPanes(tm) : FocusPaneById(pane)
    \/ \E id \in 0..MaxLeafId : SwitchFocus(id)
    \/ \E id \in 0..MaxLeafId : FocusAt(id)
    \/ NextPane
    \/ PreviousPane
    \/ \E next \in BOOLEAN : SwapPane(next)
    \/ \E forward \in BOOLEAN : RotateActive(forward)
    \/ ApplyLayout
    \/ \E index \in 0..MaxTabs : GotoTab(index)
    \/ NextTab
    \/ PrevTab
    \/ PreviousTab
    \/ \E pane \in AllPanes(tm) : SelectTreeEntry(pane)
    \/ CloseSurface
    \/ \E pane \in AllPanes(tm) : PaneExited(pane)
    \/ CloseTab
    \/ \E id \in TabIds(tm) : DestroyTab(id)
    \/ BreakPane
    \/ MarkPane
    \/ ClearMarkedPane
    \/ JoinMarkedPane

Spec == Init /\ [][Next]_vars

-----------------------------------------------------------------------------
(* What holds whatever leaf ids control clients send.                      *)

\* The active index names a tab whenever there is one (remove_tab adjusts it
\* after the removal of any other index), and is 0 on an empty list, where
\* add_initial_tab relies on it.
ActiveInRange ==
    IF tm.tabs = <<>> THEN tm.active = 0 ELSE tm.active < Len(tm.tabs)

\* Tab ids are handed out once and the list stays sorted by id, so an id held
\* by a remote client never comes to name another tab.
TabIdsIncreasing ==
    /\ \A i, j \in DOMAIN tm.tabs : i < j => tm.tabs[i].id < tm.tabs[j].id
    /\ \A i \in DOMAIN tm.tabs : tm.tabs[i].id < tm.nextId

\* No tab without a pane survives an operation: a close, a break or a join
\* that takes the last pane of a tab takes the tab too.
NoEmptyTab == \A i \in DOMAIN tm.tabs : tm.tabs[i].tree.leaves # <<>>

\* In one tree no two leaves share an id, and the next id is unused, also
\* after rebuild_from_panes has renumbered the leaves.
LeafIdsFresh ==
    \A i \in DOMAIN tm.tabs :
        LET t == tm.tabs[i].tree
        IN  /\ \A k \in DOMAIN t.leaves : t.leaves[k].id < t.next
            /\ \A k, l \in DOMAIN t.leaves : t.leaves[k].id = t.leaves[l].id => k = l

\* A pane is shown by at most one leaf of at most one tab, through breaks,
\* joins, swaps, rotations and rebuilds.
PanesUnique ==
    \A i, j \in DOMAIN tm.tabs :
        \A k \in DOMAIN tm.tabs[i].tree.leaves, l \in DOMAIN tm.tabs[j].tree.leaves :
            tm.tabs[i].tree.leaves[k].pane = tm.tabs[j].tree.leaves[l].pane
                => i = j /\ k = l

\* No leaf shows a pane whose terminal process has been freed.
LeavesLive == AllPanes(tm) \subseteq live

\* Closing, destroying or emptying some other tab never moves the user off
\* the active one (the index arithmetic of remove_tab).
ActiveTabStable ==
    [][ (/\ HasActive(tm)
         /\ Len(tm'.tabs) < Len(tm.tabs)
         /\ ActiveTabId(tm) \in TabIds(tm')) => ActiveTabId(tm') = ActiveTabId(tm) ]_vars

\* The exit of a terminal process frees that pane and no other, whichever
\* pane had the focus (close_pane_by_id refocuses before it closes).
ExitFreesOnlyThatPane ==
    [][ \A pane \in AllPanes(tm) : PaneExited(pane) => live' = live \ {pane} ]_vars

\* Applying a layout renumbers the leaves and keeps the focused pane focused.
LayoutKeepsFocus ==
    [][ (ApplyLayout /\ FocusedPaneOf(tm) # NullPane)
            => FocusedPaneOf(tm') = FocusedPaneOf(tm) ]_vars

-----------------------------------------------------------------------------
(* What also needs every FocusSurface to name a leaf (TrustedIndices) and  *)
(* every terminal process to start (~CreateMayFail).                       *)

\* The focused id of every tab is the id of one of its leaves, so there is a
\* pane to send the input to.
FocusResolves ==
    \A i \in DOMAIN tm.tabs : HasLeaf(tm.tabs[i].tree, tm.tabs[i].tree.focus)

\* Every terminal process is reachable from a tab: nothing runs that no tab
\* shows and no close can free.
NoOrphanPane == live \subseteq AllPanes(tm)

-----------------------------------------------------------------------------
(* What the comment on split_focused promises: "Split the focused leaf in  *)
(* the given direction. Returns the new leaf's ID." (src/splits.rs:62).    *)

\* After a split the new pane is shown by a leaf of the active tab.  It is
\* not when the focused id names no leaf: split_node_with_ratio then finds
\* nothing to split, and create_split has already started the process.
SplitAddsLeaf ==
    [][ CreateSplit => nextPane \in PanesOf(ActiveTree(tm')) ]_vars
=============================================================================
